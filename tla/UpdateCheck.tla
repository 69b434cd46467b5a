------------------------------ MODULE UpdateCheck ------------------------------
(***************************************************************************)
(* The update check at startup and its throttle.  Every run of the default *)
(* command reads the time of the last check from update_check.state, asks  *)
(* GitHub when that is long enough ago, and after an answer replaces the   *)
(* file through a temporary one.  Runs may overlap and share the directory *)
(* without a lock: before it writes, each run deletes every temporary file *)
(* it finds, the one another run is writing included.                      *)
(*                                                                         *)
(* One step per system call on the directory.  Runs may be killed at any   *)
(* point; when the disk is faulty, calls may fail.  The clock only moves   *)
(* forward.                                                                *)
(***************************************************************************)
EXTENDS Integers

CONSTANTS Runs,      \* invocations of the program that are to check
          Interval,  \* the 24 hours of should_check_for_updates(24)
          MaxClock   \* bound: the latest time considered

ASSUME CheckAssumption ==
    /\ Interval \in Nat \ {0}
    /\ MaxClock \in Nat
    /\ MaxClock >= Interval

Absent == -1      \* no such file
Never  == 0       \* missing, empty or unreadable: "never checked"

Times      == Interval .. MaxClock       \* std::time, far from the epoch
TempStates == {Absent, Never} \cup Times

Recording == {"open_dir", "clean", "create", "write", "rename"}
Alive     == {"due", "fetch"} \cup Recording

VARIABLES
    now,      \* the clock
    faulty,   \* the disk is full or the directory not writable
    stamp,    \* last_check in update_check.state, Never when there is none
    temp,     \* [Runs -> TempStates], update_check.state.tmp.<random>
    pc,       \* [Runs -> where the run is]
    seen,     \* [Runs -> the stamp the run has read]
    todo,     \* [Runs -> SUBSET Runs], entries readdir is yet to return
    result,   \* [Runs -> what became of the check]
    began,    \* history: [Runs -> when the run read the state file]
    before,   \* history: [Runs -> the runs that had recorded by then]
    answered, \* history: [Runs -> when GitHub answered, Absent if it did not]
    overlap   \* history: two runs have been checking at once

history == <<began, before, answered, overlap>>
vars    == <<now, faulty, stamp, temp, pc, seen, todo, result, history>>

Init ==
    /\ now = Interval
    /\ faulty \in BOOLEAN
    /\ stamp = Never
    /\ temp = [r \in Runs |-> Absent]
    /\ pc = [r \in Runs |-> "idle"]
    /\ seen = [r \in Runs |-> Never]
    /\ todo = [r \in Runs |-> {}]
    /\ result = [r \in Runs |-> "none"]
    /\ began = [r \in Runs |-> Absent]
    /\ before = [r \in Runs |-> {}]
    /\ answered = [r \in Runs |-> Absent]
    /\ overlap = FALSE

Recorded == {r \in Runs : result[r] = "recorded"}

Goto(r, from, to) == pc[r] = from /\ pc' = [pc EXCEPT ![r] = to]

Finish(r, from, answer) ==
    /\ Goto(r, from, "done")
    /\ result' = [result EXCEPT ![r] = answer]
--------------------------------------------------------------------------------
(* maybe_check_for_updates_on_startup *)

\* should_check_for_updates opens the file and reads last_check= ...
ReadStamp(r) ==
    /\ Goto(r, "idle", "due")
    /\ seen' = [seen EXCEPT ![r] = stamp]
    /\ began' = [began EXCEPT ![r] = now]
    /\ before' = [before EXCEPT ![r] = Recorded]
    /\ overlap' = (overlap \/ \E q \in Runs : pc[q] \in Alive)
    /\ UNCHANGED <<now, faulty, stamp, temp, todo, result, answered>>

\* FAULT: off by one.
DueEarly(r) == now - seen[r] >= Interval - 1

Due(r) == now - seen[r] >= Interval

\* ... then looks at the clock.
CheckDue(r) ==
    /\ Due(r)
    /\ Goto(r, "due", "fetch")
    /\ UNCHANGED <<now, faulty, stamp, temp, seen, todo, result, history>>

CheckNotDue(r) ==
    /\ ~Due(r)
    /\ Finish(r, "due", "throttled")
    /\ UNCHANGED <<now, faulty, stamp, temp, seen, todo, history>>

\* The round trip to GitHub, successful whether or not it brings a release.
FetchSucceeds(r) ==
    /\ Goto(r, "fetch", "open_dir")
    /\ answered' = [answered EXCEPT ![r] = now]
    /\ UNCHANGED <<now, faulty, stamp, temp, seen, todo, result, began, before,
                   overlap>>

\* FAULT: a failed check is recorded as well.
FetchFailsRecorded(r) ==
    /\ Goto(r, "fetch", "open_dir")
    /\ UNCHANGED <<now, faulty, stamp, temp, seen, todo, result, history>>

\* Offline, no curl, rate limit: nothing is recorded, the next run retries.
FetchFails(r) ==
    /\ Finish(r, "fetch", "offline")
    /\ UNCHANGED <<now, faulty, stamp, temp, seen, todo, history>>
--------------------------------------------------------------------------------
(* record_update_check *)

\* FAULT: temporary files left by killed runs are not looked for.
OpenDirSkipped(r) ==
    /\ Goto(r, "open_dir", "clean")
    /\ UNCHANGED <<now, faulty, stamp, temp, seen, todo, result, history>>

\* directory_iterator: what is there now will be returned ...
OpenDir(r) ==
    /\ Goto(r, "open_dir", "clean")
    /\ todo' = [todo EXCEPT ![r] = {q \in Runs : temp[q] # Absent}]
    /\ UNCHANGED <<now, faulty, stamp, temp, seen, result, history>>

\* ... and what appears later may be.
RemoveTemp(r) ==
    /\ pc[r] = "clean"
    /\ \E q \in Runs :
         /\ temp[q] # Absent
         /\ temp' = [temp EXCEPT ![q] = Absent]
    /\ UNCHANGED <<now, faulty, stamp, pc, seen, todo, result, history>>

CleanDone(r) ==
    /\ Goto(r, "clean", "create")
    /\ faulty \/ \A q \in todo[r] : temp[q] = Absent
    /\ todo' = [todo EXCEPT ![r] = {}]
    /\ UNCHANGED <<now, faulty, stamp, temp, seen, result, history>>

CreateTemp(r) ==
    /\ Goto(r, "create", "write")
    /\ temp' = [temp EXCEPT ![r] = Never]
    /\ UNCHANGED <<now, faulty, stamp, seen, todo, result, history>>

\* "Could not write update-check state file"
CreateFails(r) ==
    /\ faulty
    /\ Finish(r, "create", "unrecorded")
    /\ UNCHANGED <<now, faulty, stamp, temp, seen, todo, history>>

\* The stream writes into the open file, linked or not; whether the bytes
\* reached it is not checked.
WriteStamp(r) ==
    /\ Goto(r, "write", "rename")
    /\ \/ temp' = [temp EXCEPT ![r] = IF @ = Absent THEN Absent ELSE now]
       \/ faulty /\ UNCHANGED temp
    /\ UNCHANGED <<now, faulty, stamp, seen, todo, result, history>>

\* FAULT: the error code of the rename is not looked at.
RenameTempUnchecked(r) ==
    /\ Finish(r, "rename", "recorded")
    /\ stamp' = temp[r]
    /\ temp' = [temp EXCEPT ![r] = Absent]
    /\ UNCHANGED <<now, faulty, seen, todo, history>>

RenameTemp(r) ==
    /\ temp[r] # Absent
    /\ Finish(r, "rename", "recorded")
    /\ stamp' = temp[r]
    /\ temp' = [temp EXCEPT ![r] = Absent]
    /\ UNCHANGED <<now, faulty, seen, todo, history>>

\* FAULT: the clean-up goes by the prefix again, not by its own name.
RenameFailsByPrefix(r) ==
    /\ temp[r] = Absent \/ faulty
    /\ Finish(r, "rename", "unrecorded")
    /\ temp' = [q \in Runs |-> Absent]
    /\ UNCHANGED <<now, faulty, stamp, seen, todo, history>>

\* "Could not finalize update-check state file": the temporary file is gone,
\* or is removed now.
RenameFails(r) ==
    /\ temp[r] = Absent \/ faulty
    /\ Finish(r, "rename", "unrecorded")
    /\ temp' = [temp EXCEPT ![r] = Absent]
    /\ UNCHANGED <<now, faulty, stamp, seen, todo, history>>
--------------------------------------------------------------------------------
\* The run is killed: its temporary file stays behind.
Crash(r) ==
    /\ pc[r] \in Alive
    /\ pc' = [pc EXCEPT ![r] = "crashed"]
    /\ UNCHANGED <<now, faulty, stamp, temp, seen, todo, result, history>>

Tick ==
    /\ now < MaxClock
    /\ now' = now + 1
    /\ UNCHANGED <<faulty, stamp, temp, pc, seen, todo, result, history>>

RunStep(r) ==
    \/ ReadStamp(r) \/ CheckDue(r) \/ CheckNotDue(r) \/ FetchSucceeds(r)
    \/ FetchFails(r) \/ OpenDir(r) \/ RemoveTemp(r) \/ CleanDone(r)
    \/ CreateTemp(r) \/ CreateFails(r) \/ WriteStamp(r) \/ RenameTemp(r)
    \/ RenameFails(r)

Next == Tick \/ \E r \in Runs : RunStep(r) \/ Crash(r)

Spec == Init /\ [][Next]_vars
--------------------------------------------------------------------------------
(* Properties. *)

\* Types: a stored time is one the clock has shown; a run still idle has not
\* looked at the directory.
TypeOK ==
    /\ now \in Times
    /\ faulty \in BOOLEAN
    /\ stamp \in {Never} \cup Interval .. now
    /\ temp \in [Runs -> {Absent, Never} \cup Interval .. now]
    /\ pc \in [Runs -> Alive \cup {"idle", "done", "crashed"}]
    /\ seen \in [Runs -> {Never} \cup Interval .. now]
    /\ todo \in [Runs -> SUBSET Runs]
    /\ result \in [Runs -> {"none", "throttled", "offline", "unrecorded",
                            "recorded"}]
    /\ began \in [Runs -> {Absent} \cup Interval .. now]
    /\ before \in [Runs -> SUBSET Runs]
    /\ answered \in [Runs -> {Absent} \cup Interval .. now]
    /\ overlap \in BOOLEAN

\* The time in the state file is never older than the start of a run that has
\* recorded its check, although an overlapping run may rename an older
\* temporary file over a newer one: whoever records has first deleted every
\* temporary file that was written before it began.
StampCoversRecorded ==
    ~faulty => \A r \in Recorded : stamp >= began[r]

\* Why that is so.  The temporary file of q, once written, is not older than
\* the start of r ...
Fresh(q, r) == pc[q] = "rename" => temp[q] = Absent \/ temp[q] >= began[r]

Cleaned(r) == pc[r] \in {"create", "write", "rename"} \/ r \in Recorded

\* ... from the moment r has read past it in the directory.
CleanedIsFresh ==
    ~faulty => \A r, q \in Runs :
        Cleaned(r) \/ (pc[r] = "clean" /\ q \notin todo[r]) => Fresh(q, r)

\* A run that was to see an earlier run's record has seen it.
SeenCoversBefore ==
    ~faulty => \A r \in Runs : pc[r] = "due" =>
        \A q \in before[r] : q \in Recorded /\ seen[r] >= began[q]

\* Every stored time is later than some answer.
AnswerBefore(time) ==
    time \in {Absent, Never}
      \/ \E q \in Runs : answered[q] # Absent /\ answered[q] <= time

TimesAnswered ==
    /\ AnswerBefore(stamp)
    /\ \A r \in Runs : AnswerBefore(temp[r]) /\ AnswerBefore(seen[r])

\* Only a run that has ended has a result; GitHub answers a run once, before it
\* records.
OneAnswer ==
    \A r \in Runs :
        /\ result[r] # "none" => pc[r] = "done"
        /\ pc[r] \in {"idle", "due", "fetch"} => answered[r] = Absent
        /\ pc[r] \in Recording => answered[r] # Absent

IInv == /\ TypeOK /\ OneAnswer /\ CleanedIsFresh /\ StampCoversRecorded
        /\ SeenCoversBefore /\ TimesAnswered

\* README "throttled to once per 24 hours": after a run has recorded its check,
\* no run that starts later asks GitHub within the interval from its start.
Throttled ==
    [][\A r \in Runs :
         ~faulty /\ pc[r] = "due" /\ pc'[r] = "fetch" =>
           \A q \in before[r] : now - began[q] >= Interval]_vars

\* torrent_builder.cpp: "Persist the throttle timestamp ONLY when the network
\* round-trip actually completed": a run leaves out the check only when GitHub
\* had answered some run before the time that it read was written.
SkipJustified ==
    [][\A r \in Runs :
         result'[r] = "throttled" /\ result[r] # "throttled" =>
           \E q \in Runs : answered[q] # Absent /\ answered[q] <= seen[r]]_vars

Ended(r) == pc[r] \in {"idle", "done"}

\* Deleting each other's temporary files never makes all runs fail: when every
\* run has ended and none was killed, the file covers all that got an answer.
SomeoneRecords ==
    ~faulty /\ (\A r \in Runs : Ended(r)) =>
        \A r \in Runs : answered[r] # Absent => stamp >= began[r]

\* Why that is so.  A run that is deleting has yet to write its own file, and so
\* there is always somebody who will record, or has, or was killed; ...
WillRecord(r) ==
    \/ pc[r] \in {"open_dir", "clean", "create"}
    \/ pc[r] \in {"write", "rename"} /\ temp[r] # Absent

AnswersCovered ==
    ~faulty => \A r \in Runs : answered[r] # Absent =>
        stamp >= began[r] \/ \E q \in Runs : WillRecord(q) \/ pc[q] = "crashed"

\* ... and nobody puts an older time in the place of one that covers a run, not
\* even of a run that could not record.
Failures ==
    /\ ~faulty => \A r, q \in Runs : result[r] = "unrecorded" => Fresh(q, r)
    /\ \A r \in Runs : /\ pc[r] = "done" => result[r] # "none"
                       /\ result[r] \in {"throttled", "offline"} => answered[r] = Absent

\* The state file tells of every check: of one that a run has recorded at once, and
\* of every one that GitHub has answered when all runs have ended.
ChecksCovered == StampCoversRecorded /\ SomeoneRecords

\* test_updater.cpp, no leftover temporary file: a run that recorded with no
\* other run beside it leaves none behind, its killed predecessors' included.
TidyRecord ==
    [][\A r \in Runs :
         /\ result'[r] = "recorded" /\ result[r] # "recorded"
         /\ ~faulty /\ ~overlap
         => \A q \in Runs : temp'[q] = Absent]_vars
================================================================================
