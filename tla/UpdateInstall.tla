----------------------------- MODULE UpdateInstall -----------------------------
(***************************************************************************)
(* `torrent-builder update` and `update --rollback` on POSIX: the files    *)
(* around the installed binary while Updater::perform_update and           *)
(* Updater::perform_rollback rename them, one system call per step.        *)
(*                                                                         *)
(* Several invocations may run, one after the other or overlapping: there  *)
(* is no lock.  A process finds the path of its own binary late, through   *)
(* /proc/self/exe, so it follows the file it was started from when another *)
(* process renames it.  With Faults, system calls may fail and processes   *)
(* may be killed between any two of them.                                  *)
(*                                                                         *)
(* The contents of a binary are the invocation that downloaded it and      *)
(* whether all of it arrived.                                              *)
(***************************************************************************)
EXTENDS Integers, Sequences

CONSTANTS Procs,     \* invocations of the update command; p downloads version p
          Faults,    \* whether system calls may fail and processes be killed
          MaxDepth   \* bound: length of the suffix chains .old, .rbtmp, .old.old

ASSUME InstallAssumption ==
    /\ Faults \in BOOLEAN
    /\ MaxDepth \in Nat \ {0}
    /\ Procs \cap {"none", "prior", "initial"} = {}

\* Files are named by the suffixes added to the path of the binary.  A process
\* whose file has been unlinked sees a path that does not exist.
Exe     == <<>>
Deleted == <<"deleted">>

OldOf(q) == Append(q, "old")        \* get_old_binary_path
TmpOf(q) == Append(q, "rbtmp")

Chains(depth) == UNION {[1 .. n -> {"old", "rbtmp"}] : n \in 0 .. depth}
Paths == Chains(MaxDepth) \cup {Deleted, OldOf(Deleted), TmpOf(Deleted)}
Homes == Chains(MaxDepth - 1) \cup {Deleted}   \* where a process may find itself

Absent == [version |-> "none", whole |-> FALSE]
Files  == [version : Procs \cup {"prior", "initial"}, whole : BOOLEAN]
            \cup {Absent}

UpdateSteps   == {"download", "remove_stale", "chmod", "backup", "swap",
                  "copying", "restore"}
RollbackSteps == {"check", "aside", "previous", "undo", "clean"}
Running       == {"resolve"} \cup UpdateSteps \cup RollbackSteps

VARIABLES
    dir,          \* [Paths -> Files], the directory of the binary
    download,     \* [Procs -> Files], tb_update_<random> in the temp directory
    kind,         \* [Procs -> {"update", "rollback"}]
    pc,           \* [Procs -> where the process is]
    found,        \* [Procs -> the binary it runs, and its backup, at its start]
    path,         \* [Procs -> Paths], exe_path of handle_update_command
    result,       \* [Procs -> what the command reported]
    cross_device, \* the temp directory is on another file system
    checksums,    \* checksums.txt is published, fetched and lists the download
    overlap       \* history: two invocations have been running at once

config == <<kind, cross_device, checksums>>
vars   == <<dir, download, config, pc, found, path, result, overlap>>

Init ==
    /\ \E backup \in {Absent, [version |-> "prior", whole |-> TRUE]} :
         dir = [q \in Paths |->
                  CASE q = Exe        -> [version |-> "initial", whole |-> TRUE]
                    [] q = OldOf(Exe) -> backup
                    [] OTHER          -> Absent]
    /\ download = [p \in Procs |-> Absent]
    /\ kind \in [Procs -> {"update", "rollback"}]
    /\ pc = [p \in Procs |-> "idle"]
    /\ found = [p \in Procs |-> [exe |-> Absent, backup |-> Absent]]
    /\ path = [p \in Procs |-> Exe]
    /\ result = [p \in Procs |-> "none"]
    /\ cross_device \in BOOLEAN
    /\ checksums \in BOOLEAN
    /\ overlap = FALSE
--------------------------------------------------------------------------------
Goto(p, from, to) == pc[p] = from /\ pc' = [pc EXCEPT ![p] = to]

\* The directory after a successful rename(2) of `from` to `to`.
Renamed(from, to) == [dir EXCEPT ![to] = dir[from], ![from] = Absent]

CannotRename(from) == dir[from] = Absent \/ Faults

\* Every way out of handle_update_command removes the download.
Finish(p, from, r) ==
    /\ Goto(p, from, "done")
    /\ result' = [result EXCEPT ![p] = r]
    /\ download' = [download EXCEPT ![p] = Absent]
    /\ UNCHANGED <<config, found, path, overlap>>

Step(p, from, to) ==
    /\ Goto(p, from, to)
    /\ UNCHANGED <<config, found, path, result, overlap>>

\* The installed binary is executed; a partial file is not a program.
Start(p) ==
    /\ Goto(p, "idle", "resolve")
    /\ dir[Exe].whole
    /\ found' = [found EXCEPT ![p] = [exe    |-> dir[Exe],
                                      backup |-> dir[OldOf(Exe)]]]
    /\ overlap' = (overlap \/ \E q \in Procs : pc[q] \in Running)
    /\ UNCHANGED <<dir, download, config, path, result>>

\* get_exe_path: the present name of the file this process was started from.
ResolveExe(p) ==
    LET names == {q \in Paths : dir[q].version = found[p].exe.version}
    IN  /\ Goto(p, "resolve",
                IF kind[p] = "update" THEN "download" ELSE "check")
        /\ \E q \in IF names = {} THEN {Deleted} ELSE names \cap Homes :
             path' = [path EXCEPT ![p] = q]
        /\ UNCHANGED <<dir, download, config, found, result, overlap>>

\* Up to date, --check, or the user said no.  The update asks before it looks
\* up its path, the rollback after.
Decline(p) ==
    /\ Finish(p, IF kind[p] = "update" THEN "resolve" ELSE "check", "declined")
    /\ UNCHANGED dir
--------------------------------------------------------------------------------
(* perform_update *)

\* FAULT: the checksum is fetched and never compared.
DownloadUnverified(p) ==
    /\ Step(p, "download", "remove_stale")
    /\ \E whole \in BOOLEAN :
         download' = [download EXCEPT ![p] = [version |-> p, whole |-> whole]]
    /\ UNCHANGED dir

\* FAULT: an empty download counts as complete.
DownloadEmpty(p) ==
    /\ Step(p, "download", "remove_stale")
    /\ download' = [download EXCEPT ![p] = [version |-> "none", whole |-> TRUE]]
    /\ UNCHANGED dir

\* What download_asset accepts: a file of the announced size, which does not show
\* that its bytes are the right ones.
Arrivals(p) == [version : {p}, whole : BOOLEAN]

\* verify_checksum
ChecksumMatches(f) == f.whole

\* is_valid_binary looks at the first four bytes.
LooksLikeProgram(f) == f # Absent

\* Without a checksum, also because it could not be fetched, looks are enough.
Trusted(f) == IF checksums THEN ChecksumMatches(f) ELSE LooksLikeProgram(f)

Download(p) ==
    /\ Step(p, "download", "remove_stale")
    /\ \E f \in Arrivals(p) :
         /\ Trusted(f)
         /\ download' = [download EXCEPT ![p] = f]
    /\ UNCHANGED dir

DownloadFails(p) == Finish(p, "download", "failed") /\ UNCHANGED dir

\* fs::remove(old_path); a failure is ignored.
RemoveStaleBackup(p) ==
    /\ Step(p, "remove_stale", "chmod")
    /\ \/ dir' = [dir EXCEPT ![OldOf(path[p])] = Absent]
       \/ Faults /\ UNCHANGED dir
    /\ UNCHANGED download

MakeExecutable(p) ==
    /\ Step(p, "chmod", "backup")
    /\ UNCHANGED <<dir, download>>

MakeExecutableFails(p) ==
    /\ Faults
    /\ Finish(p, "chmod", "failed")
    /\ UNCHANGED dir

\* FAULT: the running binary is deleted to make room, not renamed.
BackupCurrentByDeleting(p) ==
    /\ Step(p, "backup", "swap")
    /\ dir[path[p]] # Absent
    /\ dir' = [dir EXCEPT ![path[p]] = Absent]
    /\ UNCHANGED download

\* The running binary becomes the backup.
BackupCurrent(p) ==
    /\ Step(p, "backup", "swap")
    /\ dir[path[p]] # Absent
    /\ dir' = Renamed(path[p], OldOf(path[p]))
    /\ UNCHANGED download

BackupFails(p) ==
    /\ CannotRename(path[p])
    /\ Finish(p, "backup", "failed")
    /\ UNCHANGED dir

SwapIn(p) ==
    /\ ~cross_device
    /\ dir' = [dir EXCEPT ![path[p]] = download[p]]
    /\ Finish(p, "swap", "success")

\* EXDEV: copy_file creates (or truncates) the destination ...
BeginCopy(p) ==
    /\ cross_device
    /\ Step(p, "swap", "copying")
    /\ dir' = [dir EXCEPT ![path[p]] = [version |-> p, whole |-> FALSE]]
    /\ UNCHANGED download

\* A destination that reappeared may be busy: it is being executed.
SwapFails(p) ==
    /\ Faults \/ (cross_device /\ dir[path[p]] # Absent)
    /\ Step(p, "swap", "restore")
    /\ UNCHANGED <<dir, download>>

\* ... and fills it, wherever the file has been renamed to meanwhile.
Filled(p) ==
    [q \in Paths |-> IF dir[q].version = p THEN download[p] ELSE dir[q]]

\* make_executable finds a file under the path, and the download is removed.
EndCopy(p) ==
    /\ dir' = Filled(p)
    /\ dir'[path[p]] # Absent
    /\ Finish(p, "copying", "success")

\* The copy stops half-way, or there is nothing to make executable.
CopyFails(p) ==
    /\ Step(p, "copying", "restore")
    /\ \/ Faults /\ UNCHANGED dir
       \/ dir' = Filled(p) /\ (Faults \/ dir'[path[p]] = Absent)
    /\ UNCHANGED download

\* "Failed to replace binary (rolled back)"
RestoreBackup(p) ==
    /\ dir[OldOf(path[p])] # Absent
    /\ dir' = Renamed(OldOf(path[p]), path[p])
    /\ Finish(p, "restore", "rolled_back")

\* "The binary may be in an inconsistent state."
RestoreFails(p) ==
    /\ CannotRename(OldOf(path[p]))
    /\ Finish(p, "restore", "inconsistent")
    /\ UNCHANGED dir

UpdateStep(p) ==
    \/ Download(p) \/ DownloadFails(p) \/ RemoveStaleBackup(p)
    \/ MakeExecutable(p) \/ MakeExecutableFails(p) \/ BackupCurrent(p)
    \/ BackupFails(p) \/ SwapIn(p) \/ BeginCopy(p) \/ SwapFails(p)
    \/ EndCopy(p) \/ CopyFails(p) \/ RestoreBackup(p) \/ RestoreFails(p)
--------------------------------------------------------------------------------
(* perform_rollback *)

BackupExists(p) ==
    /\ Step(p, "check", "aside")
    /\ dir[OldOf(path[p])] # Absent
    /\ UNCHANGED <<dir, download>>

\* "No previous version found to rollback to"
NoBackup(p) ==
    /\ dir[OldOf(path[p])] = Absent
    /\ Finish(p, "check", "failed")
    /\ UNCHANGED dir

MoveAside(p) ==
    /\ Step(p, "aside", "previous")
    /\ dir[path[p]] # Absent
    /\ dir' = Renamed(path[p], TmpOf(path[p]))
    /\ UNCHANGED download

MoveAsideFails(p) ==
    /\ CannotRename(path[p])
    /\ Finish(p, "aside", "failed")
    /\ UNCHANGED dir

RestorePrevious(p) ==
    /\ Step(p, "previous", "clean")
    /\ dir[OldOf(path[p])] # Absent
    /\ dir' = Renamed(OldOf(path[p]), path[p])
    /\ UNCHANGED download

\* FAULT: a failing second rename is ignored like the failing clean-up.
RestorePreviousIgnored(p) ==
    /\ Step(p, "previous", "clean")
    /\ CannotRename(OldOf(path[p]))
    /\ UNCHANGED <<dir, download>>

\* The backup cannot be moved into place.
RestorePreviousFails(p) ==
    /\ Step(p, "previous", "undo")
    /\ CannotRename(OldOf(path[p]))
    /\ UNCHANGED <<dir, download>>

\* The file put aside goes back; a failure is only logged.
UndoMoveAside(p) ==
    /\ \/ /\ dir[TmpOf(path[p])] # Absent
          /\ dir' = Renamed(TmpOf(path[p]), path[p])
       \/ CannotRename(TmpOf(path[p])) /\ UNCHANGED dir
    /\ Finish(p, "undo", "failed")

RemoveAside(p) ==
    /\ \/ dir' = [dir EXCEPT ![TmpOf(path[p])] = Absent]
       \/ Faults /\ UNCHANGED dir
    /\ Finish(p, "clean", "success")

RollbackStep(p) ==
    \/ BackupExists(p) \/ NoBackup(p) \/ MoveAside(p) \/ MoveAsideFails(p)
    \/ RestorePrevious(p) \/ RestorePreviousFails(p) \/ UndoMoveAside(p)
    \/ RemoveAside(p)
--------------------------------------------------------------------------------
\* The process is killed: nothing is undone or cleaned up.
Crash(p) ==
    /\ Faults
    /\ pc[p] \in Running
    /\ pc' = [pc EXCEPT ![p] = "crashed"]
    /\ UNCHANGED <<dir, download, config, found, path, result, overlap>>

Next == \E p \in Procs :
    \/ Start(p) \/ ResolveExe(p) \/ Decline(p)
    \/ UpdateStep(p) \/ RollbackStep(p) \/ Crash(p)

Spec == Init /\ [][Next]_vars
--------------------------------------------------------------------------------
(* Properties. *)

Results == {"none", "declined", "success", "failed", "rolled_back",
            "inconsistent"}

\* Types: only complete or partial binaries lie in the directory, and a process
\* finds itself where a backup of it still has a name.
TypeOK ==
    /\ dir \in [Paths -> Files]
    /\ download \in [Procs -> Files]
    /\ kind \in [Procs -> {"update", "rollback"}]
    /\ pc \in [Procs -> Running \cup {"idle", "done", "crashed"}]
    /\ found \in [Procs -> [exe : Files, backup : Files]]
    /\ path \in [Procs -> Homes]
    /\ result \in [Procs -> Results]
    /\ cross_device \in BOOLEAN
    /\ checksums \in BOOLEAN
    /\ overlap \in BOOLEAN

\* As long as invocations do not overlap, a complete binary is always left in
\* the directory, as the program, its backup or the file a rollback put aside:
\* whatever call fails and wherever a process is killed, the user can recover.
Recoverable ==
    ~overlap => \E q \in {Exe, OldOf(Exe), TmpOf(Exe)} : dir[q].whole

\* Why that is so, part by part.  Commands that do not overlap run one at a time.
Alone == \A p, q \in Procs : pc[p] \in Running /\ pc[q] \in Running => p = q

\* No two files hold the same version, so /proc/self/exe is unambiguous ...
VersionsUnique ==
    \A q, r \in Paths : dir[q].version = dir[r].version /\ q # r
                         => dir[q] = Absent

\* ... and what p downloads is a new version until it is put in place.
Unplaced == ({"idle"} \cup Running) \ {"copying", "restore"}

DownloadUnused ==
    \A p \in Procs : pc[p] \in Unplaced => \A q \in Paths : dir[q].version # p

BackupWhole == dir[OldOf(Exe)] = Absent \/ dir[OldOf(Exe)].whole

\* The three files at each point of a command that is running.
Layout(p) ==
    LET exe == dir[Exe]
        old == dir[OldOf(Exe)]
        aside == dir[TmpOf(Exe)]
        run == found[p].exe
        bak == found[p].backup
        at == pc[p]
    IN  /\ run.whole /\ (bak = Absent \/ bak.whole)
        /\ at # "resolve" => path[p] = Exe
        /\ at \in UpdateSteps => kind[p] = "update"
        /\ at \in RollbackSteps => kind[p] = "rollback"
        /\ at \in {"resolve", "download", "remove_stale", "check", "aside"} =>
             exe = run /\ old = bak
        /\ at \in {"chmod", "backup"} => exe = run
        /\ at \in UpdateSteps \ {"download"} => download[p].version = p
        /\ at \in {"swap", "copying", "restore"} => old = run
        /\ at = "swap" => exe = Absent
        /\ at = "copying" => exe.version = p
        /\ at \in {"aside", "previous", "undo", "clean"} => bak # Absent
        /\ at \in {"previous", "undo"} =>
             exe = Absent /\ aside = run /\ old = bak
        /\ at = "clean" => exe = bak /\ old = Absent

Layouts == \A p \in Procs : pc[p] \in Running => Layout(p)

Safe ==
    /\ Alone /\ VersionsUnique /\ DownloadUnused /\ BackupWhole /\ Recoverable
    /\ Layouts

IInv == TypeOK /\ (~overlap => Safe)

\* What the command reports is what it did to the binary and its backup.
Honest(p) ==
    CASE result[p] = "success" /\ kind[p] = "update" ->
            dir[Exe].version = p /\ dir[OldOf(Exe)] = found[p].exe
      [] result[p] = "success" /\ kind[p] = "rollback" ->
            dir[Exe] = found[p].backup /\ dir[OldOf(Exe)] = Absent
      [] result[p] = "declined" ->
            dir[Exe] = found[p].exe /\ dir[OldOf(Exe)] = found[p].backup
      [] result[p] = "failed" ->
            \/ dir[Exe] = found[p].exe
            \/ kind[p] = "rollback" /\ dir[TmpOf(Exe)] = found[p].exe
      [] result[p] = "rolled_back" -> dir[Exe] = found[p].exe
      [] result[p] = "inconsistent" -> dir[OldOf(Exe)] = found[p].exe
      [] OTHER -> TRUE

\* Invocations that do not overlap answer truthfully: a success installed the
\* download and kept the running version as backup, a failure left or put back
\* the running version, a rollback brought back the backup.
HonestAnswers ==
    [][\A p \in Procs :
         result'[p] # result[p] /\ ~overlap' => Honest(p)']_vars

Settled(p) == pc[p] \in {"idle", "done"} /\ result[p] # "inconsistent"

\* Where downloads are compared with their checksums, a damaged file is never left as
\* the program by invocations that neither overlap nor are killed.
NeverDamaged ==
    checksums /\ ~overlap /\ (\A p \in Procs : Settled(p))
        => dir[Exe] = Absent \/ dir[Exe].whole

\* README "--rollback: Restore previous version from backup": once every command
\* has ended, none of them killed and no system call refused by the system, some
\* version of the program is left in the directory.
ProgramLeft ==
    checksums /\ (\A p \in Procs : pc[p] = "done") => \E q \in Paths : dir[q].whole
================================================================================
