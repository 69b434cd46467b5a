-------------------------------- MODULE MCModify --------------------------------
(* Model checking of Modify: invocations are interchangeable.                  *)
EXTENDS Modify, TLC

Symmetry == Permutations(Procs)
================================================================================
