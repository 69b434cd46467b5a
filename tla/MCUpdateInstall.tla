---------------------------- MODULE MCUpdateInstall ----------------------------
(* Model checking of UpdateInstall: invocations are interchangeable until they *)
(* are told apart by their kind, which every initial state assigns.            *)
EXTENDS UpdateInstall, TLC

Symmetry == Permutations(Procs)
================================================================================
