-------------------------------- MODULE MCCreate --------------------------------
(* Model checking of Create: the constants are given in the configuration.     *)
EXTENDS Create
================================================================================
