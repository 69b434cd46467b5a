------------------------------- MODULE BatchJobs -------------------------------
(***************************************************************************)
(* What a batch promises, without threads, files or terminals: every job   *)
(* of the YAML list is started once and in list order, ends in success or  *)
(* failure whatever the other jobs do, and the process answers with its    *)
(* exit code only when every job has ended: 1 if any of them failed, 0     *)
(* otherwise.  Batch.tla is shown to implement this module.                *)
(***************************************************************************)
EXTENDS Integers

CONSTANT NJobs          \* config_.jobs.size()

VARIABLES state,        \* [Jobs -> what has become of the job]
          exit_code     \* -1 until handle_batch_command returns

vars == <<state, exit_code>>

Jobs == 0 .. NJobs - 1

Ended == {"ok", "failed"}

Init ==
    /\ state = [j \in Jobs |-> "waiting"]
    /\ exit_code = -1

\* A worker takes the first job nobody has taken.
Start(j) ==
    /\ state[j] = "waiting"
    /\ \A k \in Jobs : k < j => state[k] # "waiting"
    /\ state' = [state EXCEPT ![j] = "running"]
    /\ UNCHANGED exit_code

Finish(j) ==
    /\ state[j] = "running"
    /\ \E result \in Ended : state' = [state EXCEPT ![j] = result]
    /\ UNCHANGED exit_code

Report ==
    /\ exit_code = -1
    /\ \A j \in Jobs : state[j] \in Ended
    /\ exit_code' = IF \E j \in Jobs : state[j] = "failed" THEN 1 ELSE 0
    /\ UNCHANGED state

Next == (\E j \in Jobs : Start(j) \/ Finish(j)) \/ Report

Spec == Init /\ [][Next]_vars
================================================================================
