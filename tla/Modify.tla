--------------------------------- MODULE Modify ---------------------------------
(***************************************************************************)
(* `torrent-builder modify` in place: TorrentModifier::modify loads the    *)
(* torrent, edits it in memory and saves it with utils::atomic_write, which *)
(* writes a temporary file beside the torrent and renames it over it.  On a *)
(* file system that refuses the rename with EXDEV, although both names are *)
(* in one directory, direct_write overwrites the torrent instead.          *)
(*                                                                         *)
(* Several invocations may edit the same torrent without a lock.  One step *)
(* per system call; calls may fail and processes be killed between any two *)
(* steps, but a temporary file can be removed by the one who created it.   *)
(*                                                                         *)
(* The content of a file is the set of edits that have gone into it and    *)
(* whether it is complete.                                                 *)
(***************************************************************************)
EXTENDS Integers

CONSTANTS Procs       \* invocations of modify; p makes the edit p

Absent  == [edits |-> {}, whole |-> FALSE, exists |-> FALSE]
Empty   == [edits |-> {}, whole |-> FALSE, exists |-> TRUE]   \* just truncated
Written(edits, all) == [edits |-> edits, whole |-> all, exists |-> TRUE]
Whole(edits) == Written(edits, TRUE)

Files == [edits : SUBSET Procs, whole : BOOLEAN, exists : {TRUE}]

Alive == {"edit", "create", "write", "sync", "rename", "report", "open_dest",
          "write_dest", "clean"}

VARIABLES
    torrent,      \* Files, the torrent that is edited
    temp,         \* [Procs -> Files or Absent], torrent.tmp.XXXXXX
    pc,           \* [Procs -> where the process is]
    loaded,       \* [Procs -> SUBSET Procs], the edits in raw_buffer_
    result,       \* [Procs -> what the command reported]
    cross_device, \* rename(2) over the torrent fails with EXDEV
    overlap       \* history: two invocations have been running at once

vars == <<torrent, temp, pc, loaded, result, cross_device, overlap>>

Init ==
    /\ torrent = Whole({})
    /\ temp = [p \in Procs |-> Absent]
    /\ pc = [p \in Procs |-> "idle"]
    /\ loaded = [p \in Procs |-> {}]
    /\ result = [p \in Procs |-> "none"]
    /\ cross_device \in BOOLEAN
    /\ overlap = FALSE

Goto(p, from, to) == pc[p] = from /\ pc' = [pc EXCEPT ![p] = to]

Step(p, from, to) ==
    /\ Goto(p, from, to)
    /\ UNCHANGED <<loaded, result, cross_device, overlap>>

\* modify returns or throws; what atomic_write has created is removed.
Finish(p, from, answer) ==
    /\ Goto(p, from, "done")
    /\ result' = [result EXCEPT ![p] = answer]
    /\ temp' = [temp EXCEPT ![p] = Absent]
    /\ UNCHANGED <<loaded, cross_device, overlap>>
--------------------------------------------------------------------------------
(* TorrentModifier::modify *)

Begins == overlap' = (overlap \/ \E q \in Procs : pc[q] \in Alive)

\* load reads the file through one open descriptor: a rename does not disturb it.
Load(p) ==
    /\ Goto(p, "idle", "edit")
    /\ torrent.whole
    /\ loaded' = [loaded EXCEPT ![p] = torrent.edits]
    /\ Begins
    /\ UNCHANGED <<torrent, temp, result, cross_device>>

\* Missing rights, or an empty or truncated torrent.
LoadFails(p) ==
    /\ Goto(p, "idle", "done")
    /\ result' = [result EXCEPT ![p] = "failed"]
    /\ Begins
    /\ UNCHANGED <<torrent, temp, loaded, cross_device>>

\* Nothing to change, or --dry-run.
NothingToSave(p) ==
    /\ Finish(p, "edit", "unchanged")
    /\ UNCHANGED torrent

\* apply_modifications and bencode.
ApplyModifications(p) ==
    /\ Step(p, "edit", "create")
    /\ UNCHANGED <<torrent, temp>>

\* No info dictionary, or no source of entropy.
ApplyFails(p) ==
    /\ Finish(p, "edit", "failed")
    /\ UNCHANGED torrent
--------------------------------------------------------------------------------
(* utils::atomic_write *)

Edited(p) == loaded[p] \cup {p}

\* FAULT: the torrent itself is opened, as direct_write does.
CreateTempInPlace(p) ==
    /\ Step(p, "create", "write")
    /\ temp' = [temp EXCEPT ![p] = Empty]
    /\ torrent' = Empty

\* mkstemp
CreateTemp(p) ==
    /\ Step(p, "create", "write")
    /\ temp' = [temp EXCEPT ![p] = Empty]
    /\ UNCHANGED torrent

CreateFails(p) ==
    /\ Finish(p, "create", "failed")
    /\ UNCHANGED torrent

\* FAULT: a short write counts as a complete one.
WriteTempOnce(p) ==
    /\ Step(p, "write", "sync")
    /\ \E all \in BOOLEAN :
         temp' = [temp EXCEPT ![p] = Written(Edited(p), all)]
    /\ UNCHANGED torrent

\* write(2) until all of the data is written: short writes are continued.
WriteTemp(p) ==
    /\ \E all \in BOOLEAN :
         /\ Step(p, "write", IF all THEN "sync" ELSE "write")
         /\ temp' = [temp EXCEPT ![p] = Written(Edited(p), all)]
    /\ UNCHANGED torrent

\* FAULT: the partial temporary file is left behind.
WriteFailsLeavingTemp(p) ==
    /\ Goto(p, "write", "done")
    /\ result' = [result EXCEPT ![p] = "failed"]
    /\ UNCHANGED <<torrent, temp, loaded, cross_device, overlap>>

\* write(2) returns 0 or -1.
WriteFails(p) ==
    /\ Finish(p, "write", "failed")
    /\ UNCHANGED torrent

Sync(p) ==
    /\ Step(p, "sync", "rename")
    /\ UNCHANGED <<torrent, temp>>

SyncFails(p) ==
    /\ Finish(p, "sync", "failed")
    /\ UNCHANGED torrent

RenameTemp(p) ==
    /\ ~cross_device
    /\ Step(p, "rename", "report")
    /\ torrent' = temp[p]
    /\ temp' = [temp EXCEPT ![p] = Absent]

\* "Torrent saved to", and the end of the command.
Report(p) ==
    /\ Finish(p, "report", "saved")
    /\ UNCHANGED torrent

\* FAULT: the error code is not looked at.
RenameFailsIgnored(p) ==
    /\ Finish(p, "rename", "saved")
    /\ UNCHANGED torrent

\* Any error but EXDEV.
RenameFails(p) ==
    /\ Finish(p, "rename", "failed")
    /\ UNCHANGED torrent

CrossDevice(p) ==
    /\ cross_device
    /\ Step(p, "rename", "open_dest")
    /\ UNCHANGED <<torrent, temp>>

\* direct_write: std::ofstream truncates the torrent ...
OpenDest(p) ==
    /\ Step(p, "open_dest", "write_dest")
    /\ torrent' = Empty
    /\ UNCHANGED temp

OpenDestFails(p) ==
    /\ Finish(p, "open_dest", "failed")
    /\ UNCHANGED torrent

\* ... and writes from its start: what another process has written since the
\* truncation may show behind the end.
WriteDest(p) ==
    /\ Step(p, "write_dest", "clean")
    /\ \E whole \in BOOLEAN :
         /\ whole \/ torrent # Empty
         /\ torrent' = Written(Edited(p), whole)
    /\ UNCHANGED temp

\* The disk is full only when the destructor writes the buffer out: not noticed.
WriteDestLost(p) ==
    /\ Step(p, "write_dest", "clean")
    /\ UNCHANGED <<torrent, temp>>

\* Noticed by write(): "Failed to write output file"
WriteDestFails(p) ==
    /\ Finish(p, "write_dest", "failed")
    /\ \/ UNCHANGED torrent
       \/ torrent' = Written(Edited(p), FALSE)

RemoveTemp(p) ==
    /\ Finish(p, "clean", "saved")
    /\ UNCHANGED torrent
--------------------------------------------------------------------------------
\* The process is killed: its temporary file stays.
Crash(p) ==
    /\ pc[p] \in Alive
    /\ pc' = [pc EXCEPT ![p] = "crashed"]
    /\ UNCHANGED <<torrent, temp, loaded, result, cross_device, overlap>>

ModifyStep(p) ==
    \/ Load(p) \/ LoadFails(p) \/ NothingToSave(p) \/ ApplyModifications(p)
    \/ ApplyFails(p)

AtomicWriteStep(p) ==
    \/ CreateTemp(p) \/ CreateFails(p) \/ WriteTemp(p) \/ WriteFails(p)
    \/ Sync(p) \/ SyncFails(p) \/ RenameTemp(p) \/ RenameFails(p)
    \/ Report(p) \/ CrossDevice(p)

DirectWriteStep(p) ==
    \/ OpenDest(p) \/ OpenDestFails(p) \/ WriteDest(p) \/ WriteDestLost(p)
    \/ WriteDestFails(p) \/ RemoveTemp(p)

Next == \E p \in Procs :
    ModifyStep(p) \/ AtomicWriteStep(p) \/ DirectWriteStep(p) \/ Crash(p)

Spec == Init /\ [][Next]_vars
--------------------------------------------------------------------------------
(* Properties. *)

\* Types: only a process that has created a temporary file and not ended owns
\* one, and the torrent always exists.
TypeOK ==
    /\ torrent \in Files
    /\ temp \in [Procs -> Files \cup {Absent}]
    /\ pc \in [Procs -> Alive \cup {"idle", "done", "crashed"}]
    /\ loaded \in [Procs -> SUBSET Procs]
    /\ result \in [Procs -> {"none", "unchanged", "failed", "saved"}]
    /\ cross_device \in BOOLEAN
    /\ overlap \in BOOLEAN
    /\ \A p \in Procs : temp[p].exists =>
         pc[p] \in (Alive \ {"edit", "create"}) \cup {"crashed"}

\* README "Changes are written atomically (temp file + rename)": the torrent is
\* complete at every moment, whoever is killed and whatever call fails, unless
\* the file system refuses renames with EXDEV.
AlwaysWhole == ~cross_device => torrent.whole

\* Why that is so: what is renamed over the torrent is complete, and is the
\* owner's edit of what the owner has read; nobody takes the fallback.
TempReady ==
    ~cross_device => \A p \in Procs :
        /\ pc[p] \in {"sync", "rename"} => temp[p] = Whole(Edited(p))
        /\ pc[p] \notin {"open_dest", "write_dest", "clean"}

IInv == TypeOK /\ AlwaysWhole /\ TempReady

\* Without the fallback the file behaves as a register that is edited as a
\* whole, under any interleaving: no step mixes two edits or shows half of one.
\* (A machine with the fallback is mapped to a register nobody touches.)
Contents == IF cross_device THEN {} ELSE torrent.edits

Working == {"edit", "create", "write", "sync", "rename"}

MayHaveRead ==
    [p \in Procs |-> IF ~cross_device /\ pc[p] \in Working THEN {loaded[p]} ELSE {}]

Register == INSTANCE EditRegister
              WITH Editors <- Procs, content <- Contents, read <- MayHaveRead

Implements == Register!Spec

Successful == {p \in Procs : result[p] = "saved"}
Unreported == {p \in Procs : pc[p] \in {"report", "crashed"}}
Made       == Successful \cup Unreported

\* An edit that was reported as failed, or not made, is never in the torrent, however
\* invocations overlap, and one that was reported as saved is there, and stays, when
\* they do not; those killed before they could report may be there.
EditsKept ==
    ~cross_device =>
        /\ torrent.edits \subseteq Made
        /\ ~overlap => Successful \subseteq torrent.edits

\* Why that is so: what a process works from is what it found, which is still what
\* there is if nobody else is at work.
EditsFrom ==
    ~cross_device =>
        /\ \A p \in Procs : pc[p] \in Working =>
              /\ loaded[p] \subseteq Made
              /\ ~overlap => loaded[p] = torrent.edits
        /\ ~overlap => \A p \in Procs : pc[p] = "report" => p \in torrent.edits

Alone ==
    /\ ~overlap => \A p, q \in Procs : pc[p] \in Alive /\ pc[q] \in Alive => p = q
    /\ \A p \in Procs : result[p] # "none" => pc[p] = "done"

EInv == IInv /\ EditsKept /\ EditsFrom /\ Alone
================================================================================
