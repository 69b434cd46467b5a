-------------------------------- MODULE MCBatch --------------------------------
(* Model checking of Batch: the constants are given in the configurations.     *)
EXTENDS Batch
================================================================================
