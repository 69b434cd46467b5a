----------------------------- MODULE MCUpdateCheck -----------------------------
(* Model checking of UpdateCheck: the runs are interchangeable.               *)
EXTENDS UpdateCheck, TLC

Symmetry == Permutations(Runs)
================================================================================
