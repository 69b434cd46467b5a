-------------------------- MODULE UpdateInstallProofs --------------------------
(***************************************************************************)
(* Theorems about UpdateInstall, for any number of invocations of update   *)
(* and rollback, with failing system calls and kills: as long as no two    *)
(* run at once, a complete binary is always left, and what a command       *)
(* answers is what it did.                                                 *)
(***************************************************************************)
EXTENDS UpdateInstall, SequenceTheorems, TLAPS

(* The names of the files. *)

LEMMA ChainGrows ==
    ASSUME NEW depth \in Nat, NEW q \in Chains(depth), NEW s \in {"old", "rbtmp"}
    PROVE  Append(q, s) \in Chains(depth + 1)
<1>1. PICK n \in 0 .. depth : q \in [1 .. n -> {"old", "rbtmp"}]
  BY DEF Chains
<1>2. n \in Nat /\ q \in Seq({"old", "rbtmp"})
  <2>1. n \in Nat
    BY <1>1
  <2> QED
    BY <1>1, <2>1, SMT
<1>3. Append(q, s) \in [1 .. n + 1 -> {"old", "rbtmp"}]
  <2>1. Len(q) = n
    BY <1>1, <1>2, LenProperties
  <2>2. /\ Append(q, s) \in Seq({"old", "rbtmp"})
        /\ Len(Append(q, s)) = n + 1
    BY <1>2, <2>1, AppendProperties
  <2> QED
    BY <2>2, LenProperties
<1>4. n + 1 \in 0 .. depth + 1
  BY <1>1
<1> QED
  BY <1>3, <1>4 DEF Chains

LEMMA HomePaths ==
    ASSUME NEW q \in Homes
    PROVE  q \in Paths /\ OldOf(q) \in Paths /\ TmpOf(q) \in Paths
<1>1. CASE q = Deleted
  BY <1>1 DEF Paths
<1>2. CASE q \in Chains(MaxDepth - 1)
  <2>1. MaxDepth - 1 \in Nat /\ (MaxDepth - 1) + 1 = MaxDepth
    BY InstallAssumption
  <2>2. Append(q, "old") \in Chains(MaxDepth) /\ Append(q, "rbtmp") \in Chains(MaxDepth)
    BY <1>2, <2>1, ChainGrows
  <2>3. q \in Chains(MaxDepth)
    BY <1>2, <2>1 DEF Chains
  <2> QED
    BY <2>2, <2>3 DEF Paths, OldOf, TmpOf
<1> QED
  BY <1>1, <1>2 DEF Homes

LEMMA ThreePaths ==
    /\ Exe \in Homes /\ Exe \in Paths
    /\ OldOf(Exe) \in Paths /\ TmpOf(Exe) \in Paths
    /\ OldOf(Exe) # Exe /\ TmpOf(Exe) # Exe /\ OldOf(Exe) # TmpOf(Exe)
<1>1. <<>> \in [1 .. 0 -> {"old", "rbtmp"}]
  OBVIOUS
<1>2. 0 \in 0 .. MaxDepth - 1
  BY InstallAssumption
<1>3. Exe \in Homes
  BY <1>1, <1>2 DEF Exe, Homes, Chains
<1>4. /\ Append(<<>>, "old") = <<"old">> /\ Append(<<>>, "rbtmp") = <<"rbtmp">>
  OBVIOUS
<1>5. /\ <<"old">> # <<>> /\ <<"rbtmp">> # <<>> /\ <<"old">> # <<"rbtmp">>
  OBVIOUS
<1> QED
  BY <1>3, <1>4, <1>5, HomePaths DEF Exe, OldOf, TmpOf

--------------------------------------------------------------------------------
(* Types. *)

LEMMA FileTypes ==
    /\ Absent \in Files
    /\ \A p \in Procs, w \in BOOLEAN : [version |-> p, whole |-> w] \in Files
    /\ \A v \in {"prior", "initial"} : [version |-> v, whole |-> TRUE] \in Files
BY DEF Files

LEMMA RenamedType ==
    ASSUME TypeOK, NEW from \in Paths, NEW to \in Paths
    PROVE  Renamed(from, to) \in [Paths -> Files]
BY FileTypes DEF TypeOK, Renamed

LEMMA FilledType ==
    ASSUME TypeOK, NEW p \in Procs
    PROVE  Filled(p) \in [Paths -> Files]
BY DEF TypeOK, Filled

\* A rename or a removal, a file created or put in place: the ways the
\* directory changes.
DirChange(p) ==
    \/ dir' = dir
    \/ \E q \in Paths : dir' = [dir EXCEPT ![q] = Absent]
    \/ \E q, r \in Paths : dir' = Renamed(q, r)
    \/ \E q \in Paths : dir' = [dir EXCEPT ![q] = download[p]]
    \/ \E q \in Paths : dir' = [dir EXCEPT ![q] = [version |-> p, whole |-> FALSE]]
    \/ dir' = Filled(p)

LEMMA DirChangeType ==
    ASSUME TypeOK, NEW p \in Procs, DirChange(p)
    PROVE  dir' \in [Paths -> Files]
<1>1. /\ dir \in [Paths -> Files] /\ download[p] \in Files
      /\ [version |-> p, whole |-> FALSE] \in Files
  BY FileTypes DEF TypeOK
<1> QED
  BY <1>1, RenamedType, FilledType, FileTypes DEF DirChange

LEMMA DirChanges ==
    ASSUME TypeOK, NEW p \in Procs,
           Start(p) \/ ResolveExe(p) \/ Decline(p) \/ UpdateStep(p)
             \/ RollbackStep(p) \/ Crash(p)
    PROVE  DirChange(p)
<1>1. path[p] \in Paths /\ OldOf(path[p]) \in Paths /\ TmpOf(path[p]) \in Paths
  BY HomePaths DEF TypeOK
<1>2. CASE Start(p) \/ ResolveExe(p) \/ Decline(p) \/ Crash(p)
  BY <1>2 DEF Start, ResolveExe, Decline, Crash, DirChange
<1>3. CASE \/ Download(p) \/ DownloadFails(p) \/ MakeExecutable(p)
           \/ MakeExecutableFails(p) \/ BackupFails(p) \/ SwapFails(p)
           \/ RestoreFails(p)
  BY <1>3 DEF Download, DownloadFails, MakeExecutable, MakeExecutableFails,
              BackupFails, SwapFails, RestoreFails, DirChange
<1>4. CASE \/ RemoveStaleBackup(p) \/ BackupCurrent(p) \/ SwapIn(p)
           \/ BeginCopy(p) \/ EndCopy(p) \/ CopyFails(p) \/ RestoreBackup(p)
  BY <1>1, <1>4 DEF RemoveStaleBackup, BackupCurrent, SwapIn, BeginCopy, EndCopy,
                    CopyFails, RestoreBackup, DirChange
<1>5. CASE RollbackStep(p)
  BY <1>1, <1>5 DEF RollbackStep, BackupExists, NoBackup, MoveAside,
     MoveAsideFails, RestorePrevious, RestorePreviousFails, UndoMoveAside,
     RemoveAside, DirChange
<1> QED
  BY <1>2, <1>3, <1>4, <1>5 DEF UpdateStep

LEMMA NextType == TypeOK /\ [Next]_vars => TypeOK'
<1> SUFFICES ASSUME TypeOK, [Next]_vars PROVE TypeOK'
  OBVIOUS
<1> USE DEF TypeOK, Running, UpdateSteps, RollbackSteps, Results, config
<1>1. CASE UNCHANGED vars
  BY <1>1 DEF vars
<1>2. ASSUME NEW p \in Procs, Start(p) PROVE TypeOK'
  <2>1. [exe |-> dir[Exe], backup |-> dir[OldOf(Exe)]] \in [exe : Files, backup : Files]
    BY ThreePaths
  <2>2. found' \in [Procs -> [exe : Files, backup : Files]]
    BY <1>2, <2>1 DEF Start
  <2>3. overlap' \in BOOLEAN
    BY <1>2 DEF Start
  <2> QED
    BY <1>2, <2>2, <2>3 DEF Start, Goto
<1>3. ASSUME NEW p \in Procs, ResolveExe(p) PROVE TypeOK'
  <2>1. path' \in [Procs -> Homes]
    BY <1>3 DEF ResolveExe, Homes
  <2> QED
    BY <1>3, <2>1 DEF ResolveExe, Goto
<1>4. ASSUME NEW p \in Procs, Crash(p) PROVE TypeOK'
  BY <1>4 DEF Crash
<1>5. ASSUME NEW p \in Procs, Download(p) PROVE TypeOK'
  <2>1. PICK f \in Arrivals(p) : download' = [download EXCEPT ![p] = f]
    BY <1>5 DEF Download
  <2>2. f \in Files
    BY <2>1, FileTypes DEF Arrivals
  <2> QED
    BY <1>5, <2>1, <2>2 DEF Download, Step, Goto
<1>6. ASSUME NEW p \in Procs, Decline(p) \/ UpdateStep(p) \/ RollbackStep(p),
             ~Download(p)
      PROVE  TypeOK'
  <2>1. dir' \in [Paths -> Files]
    BY <1>6, DirChanges, DirChangeType
  <2>2. \/ \E from, to \in Running : Step(p, from, to) /\ UNCHANGED download
        \/ \E from \in Running, r \in Results : Finish(p, from, r)
    BY <1>6 DEF Decline, UpdateStep, RollbackStep, DownloadFails,
       RemoveStaleBackup, MakeExecutable, MakeExecutableFails, BackupCurrent,
       BackupFails, SwapIn, BeginCopy, SwapFails, EndCopy, CopyFails,
       RestoreBackup, RestoreFails, BackupExists, NoBackup, MoveAside,
       MoveAsideFails, RestorePrevious, RestorePreviousFails, UndoMoveAside,
       RemoveAside
  <2>3. /\ pc' \in [Procs -> Running \cup {"idle", "done", "crashed"}]
        /\ result' \in [Procs -> Results]
        /\ download' \in [Procs -> Files]
    <3> HIDE DEF Running, Results
    <3>1. ASSUME NEW from \in Running, NEW to \in Running, Step(p, from, to),
                 download' = download
          PROVE  /\ pc' \in [Procs -> Running \cup {"idle", "done", "crashed"}]
                 /\ result' \in [Procs -> Results]
                 /\ download' \in [Procs -> Files]
      BY <3>1 DEF Step, Goto
    <3>2. ASSUME NEW from \in Running, NEW r \in Results, Finish(p, from, r)
          PROVE  /\ pc' \in [Procs -> Running \cup {"idle", "done", "crashed"}]
                 /\ result' \in [Procs -> Results]
                 /\ download' \in [Procs -> Files]
      BY <3>2, FileTypes DEF Finish, Goto
    <3> QED
      BY <2>2, <3>1, <3>2
  <2>4. UNCHANGED <<kind, found, path, cross_device, checksums, overlap>>
    BY <2>2 DEF Step, Finish
  <2> QED
    BY <2>1, <2>3, <2>4
<1> QED
  BY <1>1, <1>2, <1>3, <1>4, <1>5, <1>6 DEF Next, UpdateStep

LEMMA InitType == Init => TypeOK
<1> SUFFICES ASSUME Init PROVE TypeOK
  OBVIOUS
<1>1. dir \in [Paths -> Files]
  BY FileTypes, ThreePaths DEF Init
<1>2. path \in [Procs -> Homes]
  BY ThreePaths DEF Init
<1>3. found \in [Procs -> [exe : Files, backup : Files]]
      /\ download \in [Procs -> Files]
  BY FileTypes DEF Init
<1> QED
  BY <1>1, <1>2, <1>3 DEF Init, TypeOK, Results

\* Whatever fails, crashes or overlaps, the directory holds binaries only.
THEOREM Typed == Spec => []TypeOK
BY InitType, NextType, PTL DEF Spec

--------------------------------------------------------------------------------
(* What the changes of the directory do to the versions in it. *)

PathsOfExe == {Exe, OldOf(Exe), TmpOf(Exe)}

LEMMA NoneIsNoProc == "none" \notin Procs /\ "prior" \notin Procs /\ "initial" \notin Procs
BY InstallAssumption

LEMMA RenamedPoints ==
    ASSUME TypeOK, NEW from \in Paths, NEW to \in Paths, from # to,
           dir' = Renamed(from, to)
    PROVE  \A q \in Paths : dir'[q] = IF q = from THEN Absent
                                     ELSE IF q = to THEN dir[from] ELSE dir[q]
BY DEF TypeOK, Renamed

LEMMA RenamedUnique ==
    ASSUME TypeOK, VersionsUnique, NEW from \in Paths, NEW to \in Paths,
           from # to, dir' = Renamed(from, to)
    PROVE  VersionsUnique'
<1>1. \A q \in Paths : dir'[q] = IF q = from THEN Absent
                                ELSE IF q = to THEN dir[from] ELSE dir[q]
  BY RenamedPoints
<1>2. \A q \in Paths : dir[q].version = "none" => dir[q] = Absent
  BY NoneIsNoProc DEF TypeOK, Files
<1> QED
  BY <1>1, <1>2 DEF VersionsUnique, Absent

LEMMA RemovedUnique ==
    ASSUME TypeOK, VersionsUnique, NEW r \in Paths, dir' = [dir EXCEPT ![r] = Absent]
    PROVE  VersionsUnique'
<1>1. \A q \in Paths : dir'[q] = IF q = r THEN Absent ELSE dir[q]
  BY DEF TypeOK
<1>2. \A q \in Paths : dir[q].version = "none" => dir[q] = Absent
  BY NoneIsNoProc DEF TypeOK, Files
<1> QED
  BY <1>1, <1>2 DEF VersionsUnique, Absent

LEMMA PlacedUnique ==
    ASSUME TypeOK, VersionsUnique, NEW p \in Procs, NEW r \in Paths, NEW f \in Files,
           f.version = p, \A q \in Paths \ {r} : dir[q].version # p,
           dir' = [dir EXCEPT ![r] = f]
    PROVE  VersionsUnique'
BY DEF VersionsUnique, TypeOK

\* A step of p; it may bring the version p when it places the download, and
\* no other version.
OnlyMoves(p) == \A q \in Procs \ {p} : pc'[q] = pc[q]

NoNewVersion(p) ==
    \A q \in Paths :
        \/ dir'[q] = Absent
        \/ \E r \in Paths : dir'[q].version = dir[r].version
        \/ dir'[q].version = p /\ pc'[p] \notin Unplaced

LEMMA SameDirNoNewVersion ==
    ASSUME NEW p \in Procs, dir' = dir
    PROVE  NoNewVersion(p)
<1> SUFFICES ASSUME NEW q \in Paths
             PROVE  \E r \in Paths : dir'[q].version = dir[r].version
  BY DEF NoNewVersion
<1> WITNESS q \in Paths
<1> QED
  OBVIOUS

LEMMA Moves ==
    ASSUME TypeOK, NEW p \in Procs, NEW to, pc' = [pc EXCEPT ![p] = to]
    PROVE  OnlyMoves(p) /\ pc'[p] = to
BY DEF TypeOK, OnlyMoves

LEMMA UnusedKept ==
    ASSUME DownloadUnused, NEW p \in Procs, OnlyMoves(p), NoNewVersion(p),
           pc'[p] \in Unplaced => pc[p] \in Unplaced
    PROVE  DownloadUnused'
<1> SUFFICES ASSUME NEW s \in Procs, pc'[s] \in Unplaced, NEW q \in Paths
             PROVE  dir'[q].version # s
  BY DEF DownloadUnused
<1>1. pc[s] \in Unplaced
  BY DEF OnlyMoves
<1>2. \A r \in Paths : dir[r].version # s
  BY <1>1 DEF DownloadUnused
<1>3. Absent.version # s
  BY NoneIsNoProc DEF Absent
<1> QED
  BY <1>2, <1>3 DEF NoNewVersion

\* While p runs nobody else does.
LEMMA AloneKept ==
    ASSUME Alone, NEW p \in Procs, pc[p] \in Running, OnlyMoves(p)
    PROVE  Alone' /\ \A q \in Procs : pc'[q] \in Running => q = p
<1>1. \A q \in Procs : pc'[q] \in Running => q = p
  BY DEF Alone, OnlyMoves
<1> QED
  BY <1>1 DEF Alone

\* Steps that leave the directory alone.
LEMMA SameDir ==
    ASSUME Safe, NEW p \in Procs, pc[p] \in Running, OnlyMoves(p),
           pc'[p] \in Unplaced => pc[p] \in Unplaced,
           overlap' = overlap, dir' = dir, Layouts'
    PROVE  Safe'
<1>1. VersionsUnique' /\ BackupWhole' /\ Recoverable'
  BY DEF Safe, VersionsUnique, BackupWhole, Recoverable
<1>2. DownloadUnused'
  <2>1. DownloadUnused
    BY DEF Safe
  <2>2. NoNewVersion(p)
    BY SameDirNoNewVersion
  <2> QED
    BY <2>1, <2>2, UnusedKept
<1>3. Alone'
  BY AloneKept DEF Safe
<1> QED
  BY <1>1, <1>2, <1>3 DEF Safe

\* Ends of a command that leave the directory alone.
LEMMA SameDirEnd ==
    ASSUME Safe, NEW p \in Procs, pc[p] \in Running, OnlyMoves(p),
           pc'[p] \in {"done", "crashed"}, overlap' = overlap, dir' = dir
    PROVE  Safe'
<1>1. pc'[p] \notin Running /\ pc'[p] \notin Unplaced
  BY DEF Running, UpdateSteps, RollbackSteps, Unplaced
<1>2. \A q \in Procs : pc'[q] \notin Running
  BY <1>1, AloneKept DEF Safe
<1>3. Layouts'
  BY <1>2 DEF Layouts
<1> QED
  BY <1>1, <1>3, SameDir

LEMMA SameDirEnds ==
    ASSUME TypeOK, ~overlap => Safe, NEW p \in Procs, ~overlap',
           \/ Decline(p) \/ DownloadFails(p) \/ MakeExecutableFails(p)
           \/ BackupFails(p) \/ RestoreFails(p) \/ NoBackup(p)
           \/ MoveAsideFails(p) \/ Crash(p)
           \/ UndoMoveAside(p) /\ dir' = dir
           \/ RemoveAside(p) /\ dir' = dir
    PROVE  Safe'
<1>1. /\ pc[p] \in Running /\ dir' = dir /\ overlap' = overlap
      /\ \/ pc' = [pc EXCEPT ![p] = "done"]
         \/ pc' = [pc EXCEPT ![p] = "crashed"]
  BY DEF Decline, DownloadFails, MakeExecutableFails, BackupFails, RestoreFails,
         NoBackup, MoveAsideFails, Crash, UndoMoveAside, RemoveAside, Finish,
         Goto, Running, UpdateSteps, RollbackSteps
<1>2. OnlyMoves(p) /\ pc'[p] \in {"done", "crashed"}
  BY <1>1, Moves
<1> QED
  BY <1>1, <1>2, SameDirEnd

\* The start of a command, when no other is running, finds the layout it needs.
LEMMA StartSafe ==
    ASSUME TypeOK, ~overlap => Safe, NEW p \in Procs, ~overlap', Start(p)
    PROVE  Safe'
<1>1. /\ \A q \in Procs : pc[q] \notin Running
      /\ ~overlap /\ dir' = dir /\ pc[p] = "idle"
      /\ pc' = [pc EXCEPT ![p] = "resolve"]
      /\ found'[p] = [exe |-> dir[Exe], backup |-> dir[OldOf(Exe)]]
      /\ dir[Exe].whole
  BY DEF Start, Goto, TypeOK
<1>2. Safe
  BY <1>1
<1>3. OnlyMoves(p) /\ pc'[p] = "resolve"
  BY <1>1, Moves
<1>4. \A q \in Procs : pc'[q] \in Running => q = p
  BY <1>1, <1>3 DEF OnlyMoves
<1>5. Alone'
  BY <1>4 DEF Alone
<1>6. VersionsUnique' /\ BackupWhole' /\ Recoverable'
  BY <1>1, <1>2 DEF Safe, VersionsUnique, BackupWhole, Recoverable
<1>7. DownloadUnused'
  <2>1. \A q \in Procs : pc'[q] \in Unplaced => pc[q] \in Unplaced
    BY <1>1, <1>3 DEF Unplaced, OnlyMoves
  <2> QED
    BY <1>1, <1>2, <2>1 DEF Safe, DownloadUnused
<1>8. Layouts'
  BY <1>1, <1>2, <1>3, <1>4
  DEF Layouts, Layout, Safe, BackupWhole, UpdateSteps, RollbackSteps
<1> QED
  BY <1>5, <1>6, <1>7, <1>8 DEF Safe

\* No other file has the version of the running binary: the path is found.
LEMMA ResolveExeSafe ==
    ASSUME TypeOK, ~overlap => Safe, NEW p \in Procs, ~overlap', ResolveExe(p)
    PROVE  Safe'
<1> DEFINE names == {q \in Paths : dir[q].version = found[p].exe.version}
           to    == IF kind[p] = "update" THEN "download" ELSE "check"
<1>1. /\ Safe /\ overlap' = overlap /\ dir' = dir /\ pc[p] = "resolve"
      /\ UNCHANGED <<found, download, kind>> /\ pc' = [pc EXCEPT ![p] = to]
  BY DEF ResolveExe, Goto, config
<1>2. pc[p] \in Running /\ pc[p] \in Unplaced
  BY <1>1 DEF Running, UpdateSteps, RollbackSteps, Unplaced
<1>3. Layout(p)
  BY <1>1, <1>2 DEF Safe, Layouts
<1>4. dir[Exe] = found[p].exe /\ dir[OldOf(Exe)] = found[p].backup /\ dir[Exe].whole
  BY <1>1, <1>3 DEF Layout
<1>5. dir[Exe] # Absent
  BY <1>4 DEF Absent
<1>6. names = {Exe}
  BY <1>1, <1>4, <1>5, ThreePaths DEF Safe, VersionsUnique
<1>7. path'[p] = Exe
  BY <1>6, ThreePaths DEF ResolveExe, TypeOK
<1>8. OnlyMoves(p) /\ pc'[p] = to
  BY <1>1, Moves
<1>9. \A q \in Procs : pc'[q] \in Running => q = p
  BY <1>1, <1>2, <1>8, AloneKept DEF Safe
<1>10. Layouts'
  BY <1>1, <1>3, <1>4, <1>7, <1>8, <1>9
  DEF Layouts, Layout, UpdateSteps, RollbackSteps, TypeOK
<1> QED
  BY <1>1, <1>2, <1>8, <1>10, SameDir

\* The other steps that change no file.
LEMMA QuietSafe ==
    ASSUME TypeOK, ~overlap => Safe, NEW p \in Procs, ~overlap',
           \/ Download(p) \/ MakeExecutable(p) \/ SwapFails(p) \/ BackupExists(p)
           \/ RestorePreviousFails(p)
           \/ RemoveStaleBackup(p) /\ dir' = dir
           \/ CopyFails(p) /\ dir' = dir
    PROVE  Safe'
<1> USE DEF Step, Goto, config
<1>1. /\ Safe /\ overlap' = overlap /\ dir' = dir /\ pc[p] \in Running
      /\ UNCHANGED <<found, path, kind>>
  BY DEF Download, MakeExecutable, SwapFails, BackupExists, RestorePreviousFails,
         RemoveStaleBackup, CopyFails, Running, UpdateSteps, RollbackSteps
<1>2. Layout(p)
  BY <1>1 DEF Safe, Layouts
<1>3. OnlyMoves(p) /\ (pc'[p] \in Unplaced => pc[p] \in Unplaced)
  BY DEF Download, MakeExecutable, SwapFails, BackupExists, RestorePreviousFails,
         RemoveStaleBackup, CopyFails, Unplaced, Running, UpdateSteps,
         RollbackSteps, TypeOK, OnlyMoves
<1>4. Layout(p)'
  <2>1. CASE Download(p)
    <3>1. download'[p].version = p
      BY <2>1 DEF Download, Arrivals, TypeOK
    <3>2. pc'[p] = "remove_stale" /\ pc[p] = "download"
      BY <2>1 DEF Download, TypeOK
    <3> QED
      BY <1>1, <1>2, <3>1, <3>2 DEF Layout, UpdateSteps, RollbackSteps
  <2>2. CASE ~Download(p)
    <3>1. download' = download
      BY <2>2 DEF Download, MakeExecutable, SwapFails, BackupExists,
         RestorePreviousFails, RemoveStaleBackup, CopyFails
    <3>2. \/ pc[p] = "chmod" /\ pc'[p] = "backup"
          \/ pc[p] = "swap" /\ pc'[p] = "restore"
          \/ pc[p] = "check" /\ pc'[p] = "aside" /\ dir[OldOf(path[p])] # Absent
          \/ pc[p] = "previous" /\ pc'[p] = "undo"
          \/ pc[p] = "remove_stale" /\ pc'[p] = "chmod"
          \/ pc[p] = "copying" /\ pc'[p] = "restore"
      BY <2>2 DEF Download, MakeExecutable, SwapFails, BackupExists,
         RestorePreviousFails, RemoveStaleBackup, CopyFails, TypeOK
    <3> QED
      BY <1>1, <1>2, <3>1, <3>2 DEF Layout, UpdateSteps, RollbackSteps
  <2> QED
    BY <2>1, <2>2
<1>5. \A q \in Procs : pc'[q] \in Running => q = p
  BY <1>1, <1>3, AloneKept DEF Safe
<1>6. Layouts'
  BY <1>4, <1>5, Zenon DEF Layouts
<1> QED
  BY <1>1, <1>3, <1>6, SameDir

\* A step of p that changes the directory is safe if it leaves the files as the
\* next step needs them.
LEMMA DirStep ==
    ASSUME Safe, NEW p \in Procs, pc[p] \in Running, OnlyMoves(p), NoNewVersion(p),
           pc'[p] \in Unplaced => pc[p] \in Unplaced,
           VersionsUnique', BackupWhole', Recoverable',
           pc'[p] \notin Running \/ Layout(p)'
    PROVE  Safe'
<1>1. Alone' /\ \A q \in Procs : pc'[q] \in Running => q = p
  BY AloneKept DEF Safe
<1>2. DownloadUnused'
  BY UnusedKept DEF Safe
<1>3. Layouts'
  <2>1. CASE pc'[p] \notin Running
    BY <1>1, <2>1 DEF Layouts
  <2>2. CASE Layout(p)'
    BY <1>1, <2>2, Zenon DEF Layouts
  <2> QED
    BY <2>1, <2>2
<1> QED
  BY <1>1, <1>2, <1>3 DEF Safe

LEMMA RenamedNoNewVersion ==
    ASSUME TypeOK, NEW p \in Procs, NEW from \in Paths, NEW to \in Paths,
           from # to, dir' = Renamed(from, to)
    PROVE  NoNewVersion(p)
BY RenamedPoints DEF NoNewVersion

LEMMA RemovedNoNewVersion ==
    ASSUME TypeOK, NEW p \in Procs, NEW r \in Paths, dir' = [dir EXCEPT ![r] = Absent]
    PROVE  NoNewVersion(p)
BY DEF TypeOK, NoNewVersion

LEMMA PlacedNoNewVersion ==
    ASSUME TypeOK, NEW p \in Procs, NEW r \in Paths, NEW f \in Files, f.version = p,
           dir' = [dir EXCEPT ![r] = f], pc'[p] \notin Unplaced
    PROVE  NoNewVersion(p)
BY DEF TypeOK, NoNewVersion

LEMMA RemoveStaleBackupSafe ==
    ASSUME TypeOK, Safe, NEW p \in Procs, RemoveStaleBackup(p),
           dir' = [dir EXCEPT ![OldOf(path[p])] = Absent]
    PROVE  Safe'
<1>1. /\ pc[p] = "remove_stale" /\ pc' = [pc EXCEPT ![p] = "chmod"]
      /\ UNCHANGED <<found, path, kind, download, overlap>>
  BY DEF RemoveStaleBackup, Step, Goto, config
<1>2. /\ OnlyMoves(p) /\ pc'[p] = "chmod"
      /\ pc[p] \in Running /\ pc[p] \in Unplaced
  BY <1>1, Moves DEF Running, UpdateSteps, RollbackSteps, Unplaced
<1>3. Layout(p)
  BY <1>2 DEF Safe, Layouts
<1>4. /\ path[p] = Exe /\ kind[p] = "update" /\ dir[Exe] = found[p].exe
      /\ found[p].exe.whole /\ download[p].version = p
      /\ found[p].backup = Absent \/ found[p].backup.whole
  BY <1>1, <1>3 DEF Layout, UpdateSteps
<1>5. dir' = [dir EXCEPT ![OldOf(Exe)] = Absent]
  BY <1>4
<1>6. dir'[Exe] = dir[Exe] /\ dir'[OldOf(Exe)] = Absent
  BY <1>5, ThreePaths DEF TypeOK
<1>7. VersionsUnique' /\ NoNewVersion(p)
  BY <1>5, ThreePaths, RemovedUnique, RemovedNoNewVersion DEF Safe
<1>8. BackupWhole' /\ Recoverable'
  BY <1>4, <1>6 DEF BackupWhole, Recoverable
<1>9. Layout(p)'
  BY <1>1, <1>2, <1>4, <1>6 DEF Layout, UpdateSteps, RollbackSteps
<1> QED
  BY <1>2, <1>7, <1>8, <1>9, DirStep

LEMMA BackupCurrentSafe ==
    ASSUME TypeOK, Safe, NEW p \in Procs, BackupCurrent(p)
    PROVE  Safe'
<1>1. /\ pc[p] = "backup" /\ pc' = [pc EXCEPT ![p] = "swap"]
      /\ UNCHANGED <<found, path, kind, download, overlap>>
  BY DEF BackupCurrent, Step, Goto, config
<1>2. /\ OnlyMoves(p) /\ pc'[p] = "swap"
      /\ pc[p] \in Running /\ pc[p] \in Unplaced
  BY <1>1, Moves DEF Running, UpdateSteps, RollbackSteps, Unplaced
<1>3. Layout(p)
  BY <1>2 DEF Safe, Layouts
<1>4. /\ path[p] = Exe /\ kind[p] = "update" /\ dir[Exe] = found[p].exe
      /\ found[p].exe.whole /\ download[p].version = p
      /\ found[p].backup = Absent \/ found[p].backup.whole
  BY <1>1, <1>3 DEF Layout, UpdateSteps
<1>5. dir' = Renamed(Exe, OldOf(Exe))
  BY <1>4 DEF BackupCurrent
<1>6. dir'[Exe] = Absent /\ dir'[OldOf(Exe)] = found[p].exe
  BY <1>4, <1>5, ThreePaths, RenamedPoints
<1>7. VersionsUnique' /\ NoNewVersion(p)
  BY <1>5, ThreePaths, RenamedUnique, RenamedNoNewVersion DEF Safe
<1>8. BackupWhole' /\ Recoverable'
  BY <1>4, <1>6 DEF BackupWhole, Recoverable
<1>9. Layout(p)'
  BY <1>1, <1>2, <1>4, <1>6 DEF Layout, UpdateSteps, RollbackSteps
<1> QED
  BY <1>2, <1>7, <1>8, <1>9, DirStep

\* The download arrives in place, at once or in two steps; the backup is there.
LEMMA PlaceSafe ==
    ASSUME TypeOK, Safe, NEW p \in Procs, SwapIn(p) \/ BeginCopy(p)
    PROVE  Safe'
<1> DEFINE f == IF SwapIn(p) THEN download[p] ELSE [version |-> p, whole |-> FALSE]
<1>1. /\ pc[p] = "swap" /\ UNCHANGED <<found, path, kind, overlap>>
      /\ dir' = [dir EXCEPT ![path[p]] = f]
      /\ \/ SwapIn(p) /\ pc' = [pc EXCEPT ![p] = "done"]
         \/ ~SwapIn(p) /\ pc' = [pc EXCEPT ![p] = "copying"] /\ download' = download
  BY DEF SwapIn, BeginCopy, Step, Finish, Goto, config
<1>2. OnlyMoves(p) /\ pc'[p] \in {"done", "copying"}
  BY <1>1, Moves
<1>3. /\ pc[p] \in Running /\ pc[p] \in Unplaced /\ pc'[p] \notin Unplaced
  BY <1>1, <1>2 DEF Running, UpdateSteps, RollbackSteps, Unplaced
<1>4. Layout(p)
  BY <1>3 DEF Safe, Layouts
<1>5. /\ path[p] = Exe /\ kind[p] = "update" /\ dir[OldOf(Exe)] = found[p].exe
      /\ found[p].exe.whole /\ download[p].version = p
      /\ found[p].backup = Absent \/ found[p].backup.whole
  BY <1>1, <1>4 DEF Layout, UpdateSteps
<1>6. f \in Files /\ f.version = p
  BY <1>5, FileTypes DEF TypeOK
<1>7. dir' = [dir EXCEPT ![Exe] = f]
  BY <1>1, <1>5
<1>8. dir'[Exe] = f /\ dir'[OldOf(Exe)] = dir[OldOf(Exe)]
  BY <1>7, ThreePaths DEF TypeOK
<1>9. \A q \in Paths : dir[q].version # p
  BY <1>3 DEF Safe, DownloadUnused
<1> HIDE DEF f
<1>10. VersionsUnique'
  BY <1>6, <1>7, <1>9, ThreePaths, PlacedUnique DEF Safe
<1>11. NoNewVersion(p)
  BY <1>3, <1>6, <1>7, ThreePaths, PlacedNoNewVersion
<1>12. BackupWhole' /\ Recoverable'
  BY <1>5, <1>8 DEF BackupWhole, Recoverable
<1>13. pc'[p] \notin Running \/ Layout(p)'
  <2>1. CASE pc'[p] = "done"
    BY <2>1 DEF Running, UpdateSteps, RollbackSteps
  <2>2. CASE pc'[p] = "copying"
    <3>1. download' = download
      BY <1>1, <2>2, Moves
    <3> QED
      BY <1>1, <1>5, <1>6, <1>8, <2>2, <3>1 DEF Layout, UpdateSteps, RollbackSteps
  <2> QED
    BY <1>2, <2>1, <2>2
<1> QED
  BY <1>2, <1>3, <1>10, <1>11, <1>12, <1>13, DirStep

\* The copy fills the file it began, which is the program and nothing else.
LEMMA FillSafe ==
    ASSUME TypeOK, Safe, NEW p \in Procs, EndCopy(p) \/ CopyFails(p),
           dir' = Filled(p)
    PROVE  Safe'
<1>1. /\ pc[p] = "copying" /\ UNCHANGED <<found, path, kind, overlap>>
      /\ \/ pc' = [pc EXCEPT ![p] = "done"]
         \/ pc' = [pc EXCEPT ![p] = "restore"] /\ download' = download
  BY DEF EndCopy, CopyFails, Step, Finish, Goto, config
<1>2. OnlyMoves(p) /\ pc'[p] \in {"done", "restore"}
  BY <1>1, Moves
<1>3. pc[p] \in Running /\ pc'[p] \notin Unplaced
  BY <1>1, <1>2 DEF Running, UpdateSteps, RollbackSteps, Unplaced
<1>4. Layout(p)
  BY <1>3 DEF Safe, Layouts
<1>5. /\ path[p] = Exe /\ kind[p] = "update" /\ dir[OldOf(Exe)] = found[p].exe
      /\ found[p].exe.whole /\ download[p].version = p /\ dir[Exe].version = p
      /\ found[p].backup = Absent \/ found[p].backup.whole
  BY <1>1, <1>4 DEF Layout, UpdateSteps
<1>6. \A q \in Paths : dir[q].version = p => q = Exe
  <2>1. dir[Exe] # Absent
    BY <1>5, NoneIsNoProc DEF Absent
  <2> QED
    BY <1>5, <2>1, ThreePaths DEF Safe, VersionsUnique
<1>7. \A q \in Paths : dir'[q] = IF q = Exe THEN download[p] ELSE dir[q]
  BY <1>5, <1>6 DEF Filled
<1>8. dir'[OldOf(Exe)] = found[p].exe
  BY <1>5, <1>7, ThreePaths
<1>9. VersionsUnique'
  BY <1>5, <1>6, <1>7 DEF Safe, VersionsUnique
<1>10. NoNewVersion(p)
  BY <1>3, <1>5, <1>7 DEF NoNewVersion
<1>11. BackupWhole' /\ Recoverable'
  BY <1>5, <1>8 DEF BackupWhole, Recoverable
<1>12. pc'[p] \notin Running \/ Layout(p)'
  <2>1. CASE pc'[p] = "done"
    BY <2>1 DEF Running, UpdateSteps, RollbackSteps
  <2>2. CASE pc'[p] = "restore"
    <3>1. download' = download
      BY <1>1, <2>2, Moves
    <3> QED
      BY <1>1, <1>5, <1>8, <2>2, <3>1 DEF Layout, UpdateSteps, RollbackSteps
  <2> QED
    BY <1>2, <2>1, <2>2
<1> QED
  BY <1>2, <1>3, <1>9, <1>10, <1>11, <1>12, DirStep

(* The other renames. *)

LEMMA RestoreBackupSafe ==
    ASSUME TypeOK, Safe, NEW p \in Procs, RestoreBackup(p)
    PROVE  Safe'
<1>1. /\ pc[p] = "restore" /\ pc' = [pc EXCEPT ![p] = "done"]
      /\ UNCHANGED <<found, path, kind, overlap>>
  BY DEF RestoreBackup, Step, Finish, Goto, config
<1>2. /\ OnlyMoves(p) /\ pc'[p] = "done" /\ pc[p] \in Running
      /\ pc'[p] \in Unplaced => pc[p] \in Unplaced
  BY <1>1, Moves DEF Running, UpdateSteps, RollbackSteps, Unplaced
<1>3. Layout(p)
  BY <1>2 DEF Safe, Layouts
<1>4. /\ path[p] = Exe /\ found[p].exe.whole
      /\ found[p].backup = Absent \/ found[p].backup.whole
      /\ dir[OldOf(Exe)] = found[p].exe
  BY <1>1, <1>3 DEF Layout, UpdateSteps, RollbackSteps
<1>5. dir' = Renamed(OldOf(Exe), Exe)
  BY <1>4 DEF RestoreBackup
<1>6. dir'[Exe] = found[p].exe /\ dir'[OldOf(Exe)] = Absent
  BY <1>4, <1>5, ThreePaths, RenamedPoints
<1>7. VersionsUnique' /\ NoNewVersion(p)
  BY <1>5, ThreePaths, RenamedUnique, RenamedNoNewVersion DEF Safe
<1>8. BackupWhole' /\ Recoverable'
  BY <1>4, <1>6 DEF BackupWhole, Recoverable, Absent
<1>9. pc'[p] \notin Running \/ Layout(p)'
  BY <1>1, <1>2, <1>4, <1>6 DEF Layout, Running, UpdateSteps, RollbackSteps
<1> QED
  BY <1>2, <1>7, <1>8, <1>9, DirStep

LEMMA MoveAsideSafe ==
    ASSUME TypeOK, Safe, NEW p \in Procs, MoveAside(p)
    PROVE  Safe'
<1>1. /\ pc[p] = "aside" /\ pc' = [pc EXCEPT ![p] = "previous"]
      /\ UNCHANGED <<found, path, kind, overlap>>
  BY DEF MoveAside, Step, Finish, Goto, config
<1>2. /\ OnlyMoves(p) /\ pc'[p] = "previous" /\ pc[p] \in Running
      /\ pc'[p] \in Unplaced => pc[p] \in Unplaced
  BY <1>1, Moves DEF Running, UpdateSteps, RollbackSteps, Unplaced
<1>3. Layout(p)
  BY <1>2 DEF Safe, Layouts
<1>4. /\ path[p] = Exe /\ found[p].exe.whole
      /\ found[p].backup = Absent \/ found[p].backup.whole
      /\ kind[p] = "rollback" /\ found[p].backup # Absent
      /\ dir[Exe] = found[p].exe /\ dir[OldOf(Exe)] = found[p].backup
  BY <1>1, <1>3 DEF Layout, UpdateSteps, RollbackSteps
<1>5. dir' = Renamed(Exe, TmpOf(Exe))
  BY <1>4 DEF MoveAside
<1>6. /\ dir'[Exe] = Absent /\ dir'[TmpOf(Exe)] = found[p].exe
      /\ dir'[OldOf(Exe)] = found[p].backup
  BY <1>4, <1>5, ThreePaths, RenamedPoints
<1>7. VersionsUnique' /\ NoNewVersion(p)
  BY <1>5, ThreePaths, RenamedUnique, RenamedNoNewVersion DEF Safe
<1>8. BackupWhole' /\ Recoverable'
  BY <1>4, <1>6 DEF BackupWhole, Recoverable, Absent
<1>9. pc'[p] \notin Running \/ Layout(p)'
  BY <1>1, <1>2, <1>4, <1>6 DEF Layout, Running, UpdateSteps, RollbackSteps
<1> QED
  BY <1>2, <1>7, <1>8, <1>9, DirStep

LEMMA RestorePreviousSafe ==
    ASSUME TypeOK, Safe, NEW p \in Procs, RestorePrevious(p)
    PROVE  Safe'
<1>1. /\ pc[p] = "previous" /\ pc' = [pc EXCEPT ![p] = "clean"]
      /\ UNCHANGED <<found, path, kind, overlap>>
  BY DEF RestorePrevious, Step, Finish, Goto, config
<1>2. /\ OnlyMoves(p) /\ pc'[p] = "clean" /\ pc[p] \in Running
      /\ pc'[p] \in Unplaced => pc[p] \in Unplaced
  BY <1>1, Moves DEF Running, UpdateSteps, RollbackSteps, Unplaced
<1>3. Layout(p)
  BY <1>2 DEF Safe, Layouts
<1>4. /\ path[p] = Exe /\ found[p].exe.whole
      /\ found[p].backup = Absent \/ found[p].backup.whole
      /\ kind[p] = "rollback" /\ found[p].backup # Absent
      /\ dir[OldOf(Exe)] = found[p].backup
  BY <1>1, <1>3 DEF Layout, UpdateSteps, RollbackSteps
<1>5. dir' = Renamed(OldOf(Exe), Exe)
  BY <1>4 DEF RestorePrevious
<1>6. dir'[Exe] = found[p].backup /\ dir'[OldOf(Exe)] = Absent
  BY <1>4, <1>5, ThreePaths, RenamedPoints
<1>7. VersionsUnique' /\ NoNewVersion(p)
  BY <1>5, ThreePaths, RenamedUnique, RenamedNoNewVersion DEF Safe
<1>8. BackupWhole' /\ Recoverable'
  BY <1>4, <1>6 DEF BackupWhole, Recoverable, Absent
<1>9. pc'[p] \notin Running \/ Layout(p)'
  BY <1>1, <1>2, <1>4, <1>6 DEF Layout, Running, UpdateSteps, RollbackSteps
<1> QED
  BY <1>2, <1>7, <1>8, <1>9, DirStep

LEMMA UndoMoveAsideSafe ==
    ASSUME TypeOK, Safe, NEW p \in Procs, UndoMoveAside(p), dir' # dir
    PROVE  Safe'
<1>1. /\ pc[p] = "undo" /\ pc' = [pc EXCEPT ![p] = "done"]
      /\ UNCHANGED <<found, path, kind, overlap>>
  BY DEF UndoMoveAside, Step, Finish, Goto, config
<1>2. /\ OnlyMoves(p) /\ pc'[p] = "done" /\ pc[p] \in Running
      /\ pc'[p] \in Unplaced => pc[p] \in Unplaced
  BY <1>1, Moves DEF Running, UpdateSteps, RollbackSteps, Unplaced
<1>3. Layout(p)
  BY <1>2 DEF Safe, Layouts
<1>4. /\ path[p] = Exe /\ found[p].exe.whole
      /\ found[p].backup = Absent \/ found[p].backup.whole
      /\ dir[TmpOf(Exe)] = found[p].exe
      /\ dir[OldOf(Exe)] = found[p].backup
  BY <1>1, <1>3 DEF Layout, UpdateSteps, RollbackSteps
<1>5. dir' = Renamed(TmpOf(Exe), Exe)
  BY <1>4 DEF UndoMoveAside
<1>6. /\ dir'[Exe] = found[p].exe
      /\ dir'[OldOf(Exe)] = found[p].backup
  BY <1>4, <1>5, ThreePaths, RenamedPoints
<1>7. VersionsUnique' /\ NoNewVersion(p)
  BY <1>5, ThreePaths, RenamedUnique, RenamedNoNewVersion DEF Safe
<1>8. BackupWhole' /\ Recoverable'
  BY <1>4, <1>6 DEF BackupWhole, Recoverable, Absent
<1>9. pc'[p] \notin Running \/ Layout(p)'
  BY <1>1, <1>2, <1>4, <1>6 DEF Layout, Running, UpdateSteps, RollbackSteps
<1> QED
  BY <1>2, <1>7, <1>8, <1>9, DirStep

LEMMA RemoveAsideSafe ==
    ASSUME TypeOK, Safe, NEW p \in Procs, RemoveAside(p),
           dir' = [dir EXCEPT ![TmpOf(path[p])] = Absent]
    PROVE  Safe'
<1>1. /\ pc[p] = "clean" /\ pc' = [pc EXCEPT ![p] = "done"]
  BY DEF RemoveAside, Finish, Goto
<1>2. /\ OnlyMoves(p) /\ pc[p] \in Running
      /\ pc'[p] \notin Running /\ pc'[p] \notin Unplaced
  BY <1>1, Moves DEF Running, UpdateSteps, RollbackSteps, Unplaced
<1>3. Layout(p)
  BY <1>2 DEF Safe, Layouts
<1>4. /\ path[p] = Exe /\ dir[Exe] = found[p].backup /\ dir[Exe].whole
      /\ dir[OldOf(Exe)] = Absent
  BY <1>1, <1>3 DEF Layout, UpdateSteps
<1>5. dir' = [dir EXCEPT ![TmpOf(Exe)] = Absent]
  BY <1>4
<1>6. dir'[Exe] = dir[Exe] /\ dir'[OldOf(Exe)] = dir[OldOf(Exe)]
  BY <1>5, ThreePaths DEF TypeOK
<1>7. VersionsUnique' /\ NoNewVersion(p)
  BY <1>5, ThreePaths, RemovedUnique, RemovedNoNewVersion DEF Safe
<1>8. BackupWhole' /\ Recoverable'
  BY <1>4, <1>6 DEF BackupWhole, Recoverable
<1> QED
  BY <1>2, <1>7, <1>8, DirStep

--------------------------------------------------------------------------------
(* The inductive invariant. *)

LEMMA InitIInv == Init => IInv
<1> SUFFICES ASSUME Init PROVE IInv
  OBVIOUS
<1>1. TypeOK
  BY InitType
<1>2. PICK backup \in {Absent, [version |-> "prior", whole |-> TRUE]} :
        dir = [q \in Paths |->
                 CASE q = Exe        -> [version |-> "initial", whole |-> TRUE]
                   [] q = OldOf(Exe) -> backup
                   [] OTHER          -> Absent]
  BY DEF Init
<1>3. \A q \in Paths : dir[q] = IF q = Exe THEN [version |-> "initial", whole |-> TRUE]
                               ELSE IF q = OldOf(Exe) THEN backup ELSE Absent
  BY <1>2, ThreePaths
<1>4. \A p \in Procs : pc[p] \notin Running
  BY DEF Init, Running, UpdateSteps, RollbackSteps
<1>5. Alone /\ Layouts
  BY <1>4 DEF Alone, Layouts
<1>6. VersionsUnique
  <2> SUFFICES ASSUME NEW q \in Paths, NEW r \in Paths, q # r,
                      dir[q].version = dir[r].version, dir[q] # Absent
               PROVE  FALSE
    BY DEF VersionsUnique
  <2>1. CASE q = Exe
    BY <1>3, <2>1 DEF Absent
  <2>2. CASE q # Exe /\ q = OldOf(Exe)
    <3>1. dir[q] = backup
      BY <1>3, <2>2
    <3>2. dir[q] = [version |-> "prior", whole |-> TRUE]
      BY <3>1
    <3> QED
      BY <1>3, <2>2, <3>2 DEF Absent
  <2> QED
    BY <1>3, <2>1, <2>2
<1>7. DownloadUnused
  BY <1>3, NoneIsNoProc DEF DownloadUnused, Absent
<1>8. BackupWhole
  BY <1>3, ThreePaths DEF BackupWhole
<1>9. Recoverable
  BY <1>3, ThreePaths DEF Recoverable
<1> QED
  BY <1>1, <1>5, <1>6, <1>7, <1>8, <1>9 DEF IInv, Safe

LEMMA NextSafe ==
    ASSUME TypeOK, ~overlap => Safe, [Next]_vars, ~overlap'
    PROVE  Safe'
<1>1. CASE UNCHANGED vars
  BY <1>1 DEF vars, config, Safe, Alone, VersionsUnique, DownloadUnused,
     BackupWhole, Recoverable, Layouts, Layout
<1>2. ASSUME NEW p \in Procs, UpdateStep(p) PROVE Safe'
  <2>1. Safe
    BY <1>2 DEF UpdateStep, Download, DownloadFails, RemoveStaleBackup,
       MakeExecutable, MakeExecutableFails, BackupCurrent, BackupFails, SwapIn,
       BeginCopy, SwapFails, EndCopy, CopyFails, RestoreBackup, RestoreFails,
       Step, Finish
  <2>2. CASE RemoveStaleBackup(p)
    BY <2>1, <2>2, RemoveStaleBackupSafe, QuietSafe DEF RemoveStaleBackup
  <2>3. CASE CopyFails(p)
    BY <2>1, <2>3, FillSafe, QuietSafe DEF CopyFails
  <2>4. CASE EndCopy(p)
    BY <2>1, <2>4, FillSafe DEF EndCopy
  <2> QED
    BY <1>2, <2>1, <2>2, <2>3, <2>4, QuietSafe, SameDirEnds, BackupCurrentSafe,
       PlaceSafe, RestoreBackupSafe DEF UpdateStep
<1>3. ASSUME NEW p \in Procs, RollbackStep(p) PROVE Safe'
  <2>1. Safe
    BY <1>3 DEF RollbackStep, BackupExists, NoBackup, MoveAside, MoveAsideFails,
       RestorePrevious, RestorePreviousFails, UndoMoveAside, RemoveAside, Step,
       Finish
  <2>2. CASE UndoMoveAside(p)
    BY <2>1, <2>2, UndoMoveAsideSafe, SameDirEnds
  <2>3. CASE RemoveAside(p)
    BY <2>1, <2>3, RemoveAsideSafe, SameDirEnds DEF RemoveAside
  <2> QED
    BY <1>3, <2>1, <2>2, <2>3, QuietSafe, SameDirEnds, MoveAsideSafe,
       RestorePreviousSafe DEF RollbackStep
<1> QED
  BY <1>1, <1>2, <1>3, StartSafe, ResolveExeSafe, SameDirEnds DEF Next

LEMMA Invariance == Spec => []IInv
<1>1. IInv /\ [Next]_vars => IInv'
  BY NextType, NextSafe DEF IInv
<1> QED
  BY InitIInv, <1>1, PTL DEF Spec

\* Update and rollback leave a complete binary for any number of commands that
\* do not overlap, whichever call fails and wherever a command is killed.
THEOREM AlwaysRecoverable == Spec => []Recoverable
<1>1. IInv => Recoverable
  BY DEF IInv, Safe, Recoverable
<1> QED
  BY <1>1, Invariance, PTL

--------------------------------------------------------------------------------
(* Answers. *)

\* A step of a command goes on or answers.
LEMMA Shapes ==
    ASSUME NEW p \in Procs, Decline(p) \/ UpdateStep(p) \/ RollbackStep(p)
    PROVE  \/ /\ \E from, to \in Running : Step(p, from, to)
              /\ Download(p) \/ UNCHANGED download
           \/ \E from \in Running, r \in Results \ {"none"} : Finish(p, from, r)
BY DEF Decline, UpdateStep, RollbackStep, Download, DownloadFails, RemoveStaleBackup,
   MakeExecutable, MakeExecutableFails, BackupCurrent, BackupFails, SwapIn, BeginCopy,
   SwapFails, EndCopy, CopyFails, RestoreBackup, RestoreFails, BackupExists, NoBackup,
   MoveAside, MoveAsideFails, RestorePrevious, RestorePreviousFails, UndoMoveAside,
   RemoveAside, Running, UpdateSteps, RollbackSteps, Results

\* The steps that answer, by what they do to the three files.
LEMMA AnswerHonest ==
    ASSUME TypeOK, Safe, NEW p \in Procs,
           Decline(p) \/ UpdateStep(p) \/ RollbackStep(p), result'[p] # result[p]
    PROVE  Honest(p)'
<1>1. pc[p] \in Running
  BY Shapes DEF Step, Finish, Goto
<1>2. Layout(p)
  BY <1>1 DEF Safe, Layouts
<1>3. \A from, to : ~Step(p, from, to)
  BY DEF Step
<1>4. \A from, r : Finish(p, from, r) =>
        pc[p] = from /\ result'[p] = r /\ UNCHANGED <<kind, found, path>>
  BY DEF Finish, Goto, TypeOK, config
<1>5. CASE Decline(p)
  BY <1>2, <1>4, <1>5 DEF Decline, Layout, Honest
<1>6. CASE DownloadFails(p) \/ MakeExecutableFails(p) \/ BackupFails(p) \/ RestoreFails(p)
  BY <1>2, <1>4, <1>6 DEF DownloadFails, MakeExecutableFails, BackupFails, RestoreFails,
     Layout, Honest, UpdateSteps
<1>7. CASE NoBackup(p) \/ MoveAsideFails(p)
  BY <1>2, <1>4, <1>7 DEF NoBackup, MoveAsideFails, Layout, Honest
<1>8. CASE SwapIn(p)
  <2>1. /\ path[p] = Exe /\ kind[p] = "update" /\ dir[OldOf(Exe)] = found[p].exe
        /\ download[p].version = p
    BY <1>2, <1>4, <1>8 DEF SwapIn, Layout, UpdateSteps
  <2>2. dir'[Exe] = download[p] /\ dir'[OldOf(Exe)] = dir[OldOf(Exe)]
    BY <1>8, <2>1, ThreePaths DEF SwapIn, TypeOK
  <2> QED
    BY <1>4, <1>8, <2>1, <2>2 DEF SwapIn, Honest
<1>9. CASE EndCopy(p)
  <2>1. /\ path[p] = Exe /\ kind[p] = "update" /\ dir[OldOf(Exe)] = found[p].exe
        /\ download[p].version = p /\ dir[Exe].version = p
    BY <1>2, <1>4, <1>9 DEF EndCopy, Layout, UpdateSteps
  <2>2. dir[OldOf(Exe)].version # p
    <3>1. dir[Exe] # Absent
      BY <2>1, NoneIsNoProc DEF Absent
    <3> QED
      BY <2>1, <3>1, ThreePaths DEF Safe, VersionsUnique
  <2>3. dir'[Exe] = download[p] /\ dir'[OldOf(Exe)] = dir[OldOf(Exe)]
    BY <1>9, <2>1, <2>2, ThreePaths DEF EndCopy, Filled
  <2> QED
    BY <1>4, <1>9, <2>1, <2>3 DEF EndCopy, Honest
<1>10. CASE RestoreBackup(p)
  <2>1. path[p] = Exe /\ dir[OldOf(Exe)] = found[p].exe
    BY <1>2, <1>4, <1>10 DEF RestoreBackup, Layout, UpdateSteps
  <2>2. dir'[Exe] = dir[OldOf(Exe)]
    BY <1>10, <2>1, ThreePaths, RenamedPoints DEF RestoreBackup
  <2> QED
    BY <1>4, <1>10, <2>1, <2>2 DEF RestoreBackup, Honest
<1>11. CASE UndoMoveAside(p)
  <2>1. path[p] = Exe /\ kind[p] = "rollback" /\ dir[TmpOf(Exe)] = found[p].exe
    BY <1>2, <1>4, <1>11 DEF UndoMoveAside, Layout, RollbackSteps
  <2>2. CASE dir' = Renamed(TmpOf(Exe), Exe)
    <3>1. dir'[Exe] = dir[TmpOf(Exe)]
      BY <2>2, ThreePaths, RenamedPoints
    <3> QED
      BY <1>4, <1>11, <2>1, <3>1 DEF UndoMoveAside, Honest
  <2>3. CASE dir' = dir
    BY <1>4, <1>11, <2>1, <2>3 DEF UndoMoveAside, Honest
  <2> QED
    BY <1>11, <2>1, <2>2, <2>3 DEF UndoMoveAside
<1>12. CASE RemoveAside(p)
  <2>1. /\ path[p] = Exe /\ kind[p] = "rollback"
        /\ dir[Exe] = found[p].backup /\ dir[OldOf(Exe)] = Absent
    BY <1>2, <1>4, <1>12 DEF RemoveAside, Layout, RollbackSteps
  <2>2. dir'[Exe] = dir[Exe] /\ dir'[OldOf(Exe)] = dir[OldOf(Exe)]
    BY <1>12, <2>1, ThreePaths DEF RemoveAside, TypeOK
  <2> QED
    BY <1>4, <1>12, <2>1, <2>2 DEF RemoveAside, Honest
<1> QED
  BY <1>3, <1>5, <1>6, <1>7, <1>8, <1>9, <1>10, <1>11, <1>12
  DEF UpdateStep, RollbackStep, Download, RemoveStaleBackup, MakeExecutable, BackupCurrent,
      BeginCopy, SwapFails, CopyFails, BackupExists, MoveAside, RestorePrevious,
      RestorePreviousFails

\* An invocation answers for itself only.
LEMMA OwnAnswer ==
    ASSUME TypeOK, NEW p \in Procs, NEW q \in Procs, result'[q] # result[q],
           \/ Start(p) \/ ResolveExe(p) \/ Decline(p)
           \/ UpdateStep(p) \/ RollbackStep(p) \/ Crash(p)
    PROVE  /\ p = q /\ overlap' = overlap
           /\ Decline(p) \/ UpdateStep(p) \/ RollbackStep(p)
<1>1. Decline(p) \/ UpdateStep(p) \/ RollbackStep(p)
  BY DEF Start, ResolveExe, Crash
<1>2. \E from, r : Finish(p, from, r)
  BY <1>1, Shapes DEF Step
<1>3. p = q /\ overlap' = overlap
  BY <1>2 DEF Finish, TypeOK
<1> QED
  BY <1>1, <1>3

\* Whatever fails and wherever an earlier command was killed: the answer of a command
\* that nobody overlapped is what it did to the program and its backup
\* (updater.cpp:944-1110, 1117-1209).
THEOREM AnswersHonest == Spec => HonestAnswers
<1>1. IInv /\ [Next]_vars =>
        [\A p \in Procs : result'[p] # result[p] /\ ~overlap' => Honest(p)']_vars
  <2> SUFFICES ASSUME IInv, Next, NEW q \in Procs, result'[q] # result[q], ~overlap'
               PROVE  Honest(q)'
    OBVIOUS
  <2>1. PICK p \in Procs :
            \/ Start(p) \/ ResolveExe(p) \/ Decline(p)
            \/ UpdateStep(p) \/ RollbackStep(p) \/ Crash(p)
    BY DEF Next
  <2>2. TypeOK
    BY DEF IInv
  <2>3. /\ p = q /\ overlap' = overlap
        /\ Decline(p) \/ UpdateStep(p) \/ RollbackStep(p)
    BY <2>1, <2>2, OwnAnswer
  <2>4. Safe
    BY <2>3 DEF IInv
  <2> QED
    BY <2>2, <2>3, <2>4, AnswerHonest
<1> QED
  BY <1>1, Invariance, PTL DEF Spec, HonestAnswers

--------------------------------------------------------------------------------
(* Damaged files. *)

\* With checksums what has been downloaded is whole ...
DownloadsWhole ==
    checksums => \A p \in Procs : pc[p] \in UpdateSteps \ {"download"} => download[p].whole

DInv == DownloadsWhole /\ NeverDamaged

LEMMA DownloadsKept ==
    ASSUME TypeOK, DownloadsWhole, [Next]_vars
    PROVE  DownloadsWhole'
<1> SUFFICES ASSUME checksums', NEW q \in Procs, pc'[q] \in UpdateSteps \ {"download"}
             PROVE  download'[q].whole
  BY DEF DownloadsWhole
<1>1. CASE UNCHANGED vars
  BY <1>1 DEF vars, config, DownloadsWhole
<1>2. ASSUME NEW p \in Procs, Download(p)
      PROVE  download'[q].whole
  <2>1. checksums /\ pc' = [pc EXCEPT ![p] = "remove_stale"]
    BY <1>2 DEF Download, Step, Goto, config
  <2>2. PICK f \in Arrivals(p) :
            Trusted(f) /\ download' = [download EXCEPT ![p] = f]
    BY <1>2 DEF Download
  <2>3. f.whole
    BY <2>1, <2>2 DEF Trusted, ChecksumMatches
  <2> QED
    BY <2>1, <2>2, <2>3 DEF TypeOK, DownloadsWhole
<1>3. ASSUME NEW p \in Procs, ~(\E r \in Procs : Download(r)),
             \/ Start(p) \/ ResolveExe(p) \/ Decline(p)
             \/ UpdateStep(p) \/ RollbackStep(p) \/ Crash(p)
      PROVE  download'[q].whole
  <2>1. /\ \A r \in Procs \ {p} : pc'[r] = pc[r] /\ download'[r] = download[r]
        /\ checksums
        /\ \/ pc'[p] \in {"done", "crashed", "resolve", "download", "check"}
           \/ pc[p] \in UpdateSteps \ {"download"} /\ download' = download
           \/ pc'[p] \in RollbackSteps
    <3>1. CASE Start(p) \/ ResolveExe(p) \/ Crash(p)
      BY <3>1 DEF TypeOK, Start, ResolveExe, Crash, Goto, config
    <3>2. CASE Decline(p) \/ UpdateStep(p)
      BY <1>3, <3>2 DEF TypeOK, Decline, UpdateStep, DownloadFails, RemoveStaleBackup,
         MakeExecutable, MakeExecutableFails, BackupCurrent, BackupFails, SwapIn, BeginCopy,
         SwapFails, EndCopy, CopyFails, RestoreBackup, RestoreFails, Step, Finish, Goto,
         config, UpdateSteps
    <3>3. CASE RollbackStep(p)
      BY <3>3 DEF TypeOK, RollbackStep, BackupExists, NoBackup, MoveAside, MoveAsideFails,
         RestorePrevious, RestorePreviousFails, UndoMoveAside, RemoveAside, Step, Finish,
         Goto, config, RollbackSteps
    <3> QED
      BY <1>3, <3>1, <3>2, <3>3
  <2>2. CASE q # p
    BY <2>1, <2>2 DEF DownloadsWhole
  <2>3. CASE q = p
    BY <2>1, <2>3 DEF DownloadsWhole, UpdateSteps, RollbackSteps
  <2> QED
    BY <2>2, <2>3
<1> QED
  BY <1>1, <1>2, <1>3 DEF Next

\* ... and every way to end a command leaves a whole program or none.
LEMMA EndUndamaged ==
    ASSUME TypeOK, Safe, DownloadsWhole, checksums, NEW p \in Procs,
           Decline(p) \/ UpdateStep(p) \/ RollbackStep(p),
           pc'[p] = "done", result'[p] # "inconsistent"
    PROVE  dir'[Exe] = Absent \/ dir'[Exe].whole
<1>1. \A from, to : Step(p, from, to) => to = "done"
  BY DEF Step, Goto, TypeOK
<1>2. \A from, r : Finish(p, from, r) =>
        pc[p] = from /\ result'[p] = r /\ UNCHANGED <<kind, found, path>>
  BY DEF Finish, Goto, TypeOK, config
<1>3. /\ ~Download(p) /\ ~RemoveStaleBackup(p) /\ ~MakeExecutable(p) /\ ~BackupCurrent(p)
      /\ ~BeginCopy(p) /\ ~SwapFails(p) /\ ~CopyFails(p) /\ ~BackupExists(p)
      /\ ~MoveAside(p) /\ ~RestorePrevious(p) /\ ~RestorePreviousFails(p)
  BY <1>1 DEF Download, RemoveStaleBackup, MakeExecutable, BackupCurrent, BeginCopy,
     SwapFails, CopyFails, BackupExists, MoveAside, RestorePrevious, RestorePreviousFails
<1>4. ~RestoreFails(p)
  BY <1>2 DEF RestoreFails
<1>5. pc[p] \in Running
  BY Shapes DEF Step, Finish, Goto
<1>6. Layout(p)
  BY <1>5 DEF Safe, Layouts
<1>7. CASE \/ Decline(p) \/ DownloadFails(p) \/ MakeExecutableFails(p) \/ BackupFails(p)
           \/ NoBackup(p) \/ MoveAsideFails(p)
  BY <1>2, <1>6, <1>7 DEF Decline, DownloadFails, MakeExecutableFails, BackupFails,
     NoBackup, MoveAsideFails, Layout
<1>8. CASE SwapIn(p) \/ EndCopy(p)
  <2>1. /\ path[p] = Exe /\ download[p].whole
        /\ EndCopy(p) => dir[Exe].version = p
    BY <1>2, <1>6, <1>8 DEF SwapIn, EndCopy, Layout, DownloadsWhole, UpdateSteps
  <2>2. dir'[Exe] = download[p]
    BY <1>8, <2>1, ThreePaths DEF SwapIn, EndCopy, Filled, TypeOK
  <2> QED
    BY <2>1, <2>2
<1>9. CASE RestoreBackup(p)
  <2>1. path[p] = Exe /\ dir[OldOf(Exe)] = found[p].exe /\ found[p].exe.whole
    BY <1>2, <1>6, <1>9 DEF RestoreBackup, Layout, UpdateSteps
  <2> QED
    BY <1>9, <2>1, ThreePaths, RenamedPoints DEF RestoreBackup
<1>10. CASE UndoMoveAside(p)
  <2>1. /\ path[p] = Exe /\ dir[TmpOf(Exe)] = found[p].exe /\ found[p].exe.whole
        /\ dir[Exe] = Absent
    BY <1>2, <1>6, <1>10 DEF UndoMoveAside, Layout
  <2> QED
    BY <1>10, <2>1, ThreePaths, RenamedPoints DEF UndoMoveAside
<1>11. CASE RemoveAside(p)
  <2>1. path[p] = Exe /\ dir[Exe].whole
    BY <1>2, <1>6, <1>11 DEF RemoveAside, Layout
  <2> QED
    BY <1>11, <2>1, ThreePaths DEF RemoveAside, TypeOK
<1> QED
  BY <1>3, <1>4, <1>7, <1>8, <1>9, <1>10, <1>11 DEF UpdateStep, RollbackStep

LEMMA UndamagedKept ==
    ASSUME IInv, DInv, [Next]_vars
    PROVE  NeverDamaged'
<1> SUFFICES ASSUME checksums', ~overlap', \A p \in Procs : Settled(p)'
             PROVE  dir'[Exe] = Absent \/ dir'[Exe].whole
  BY DEF NeverDamaged
<1>1. CASE UNCHANGED vars
  BY <1>1 DEF vars, config, DInv, NeverDamaged, Settled
<1>2. ASSUME NEW p \in Procs, Start(p) \/ ResolveExe(p) \/ Crash(p)
      PROVE  FALSE
  <2>1. pc'[p] \notin {"idle", "done"}
    BY <1>2 DEF IInv, TypeOK, Start, ResolveExe, Crash, Goto
  <2> QED
    BY <2>1 DEF Settled
<1>3. ASSUME NEW p \in Procs, Decline(p) \/ UpdateStep(p) \/ RollbackStep(p)
      PROVE  dir'[Exe] = Absent \/ dir'[Exe].whole
  <2>1. checksums /\ ~overlap
    BY <1>3, Shapes DEF Step, Finish, config
  <2>2. pc'[p] # "idle"
    BY <1>3, Shapes DEF IInv, TypeOK, Step, Finish, Goto, Running, UpdateSteps, RollbackSteps
  <2>3. pc'[p] = "done" /\ result'[p] # "inconsistent"
    BY <2>2 DEF Settled
  <2> QED
    BY <1>3, <2>1, <2>3, EndUndamaged DEF IInv, DInv
<1> QED
  BY <1>1, <1>2, <1>3 DEF Next

\* Where downloads are compared with their checksums, commands that are not killed and do
\* not overlap never leave a damaged program, whichever calls fail
\* (torrent_builder.cpp:1553-1590, updater.cpp:1070-1110).
THEOREM ProgramUndamaged == Spec => []NeverDamaged
<1>1. Init => DInv
  <2> SUFFICES ASSUME Init PROVE DInv
    OBVIOUS
  <2>1. dir[Exe].whole
    BY ThreePaths DEF Init
  <2>2. DownloadsWhole
    BY DEF Init, DownloadsWhole, UpdateSteps
  <2> QED
    BY <2>1, <2>2 DEF DInv, NeverDamaged
<1>2. IInv /\ DInv /\ [Next]_vars => DInv'
  BY DownloadsKept, UndamagedKept DEF IInv, DInv
<1>3. DInv => NeverDamaged
  BY DEF DInv
<1> QED
  BY <1>1, <1>2, <1>3, Invariance, PTL DEF Spec
================================================================================
