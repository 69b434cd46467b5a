------------------------------ MODULE ModifyProofs ------------------------------
(***************************************************************************)
(* Theorems about Modify, for any number of invocations: the torrent is    *)
(* complete at every moment, and Modify implements EditRegister.           *)
(***************************************************************************)
EXTENDS Modify, TLAPS

LEMMA FilesFacts ==
    /\ Empty \in Files
    /\ \A f \in Files : f.exists
    /\ ~Absent.exists
    /\ \A edits \in SUBSET Procs :
         /\ Whole(edits) \in Files
         /\ Whole(edits).whole
         /\ Whole(edits).edits = edits
    /\ \A edits \in SUBSET Procs, b \in BOOLEAN :
         Written(edits, b) \in Files
BY DEF Files, Empty, Absent, Whole, Written

LEMMA InitIInv == Init => IInv
<1> SUFFICES ASSUME Init PROVE IInv
  OBVIOUS
<1>1. torrent \in Files /\ torrent.whole
  BY FilesFacts DEF Init
<1>2. TypeOK
  BY <1>1, FilesFacts DEF Init, TypeOK
<1>3. TempReady
  BY DEF Init, TempReady
<1> QED
  BY <1>1, <1>2, <1>3 DEF IInv, AlwaysWhole

--------------------------------------------------------------------------------
(* Steps that end a process, and steps that go on. *)

LEMMA FinishIInv ==
    ASSUME IInv, NEW p \in Procs, NEW from,
           NEW answer \in {"unchanged", "failed", "saved"},
           Finish(p, from, answer),
           torrent' \in Files,
           ~cross_device => torrent'.whole
    PROVE  IInv'
<1> USE DEF Finish, Goto
<1>1. TypeOK'
  <2>1. temp' \in [Procs -> Files \cup {Absent}]
    BY DEF IInv, TypeOK
  <2>2. pc' \in [Procs -> Alive \cup {"idle", "done", "crashed"}]
    BY DEF IInv, TypeOK
  <2>3. \A q \in Procs : temp'[q].exists =>
          pc'[q] \in (Alive \ {"edit", "create"}) \cup {"crashed"}
    BY FilesFacts DEF IInv, TypeOK
  <2>4. result' \in [Procs -> {"none", "unchanged", "failed", "saved"}]
    BY DEF IInv, TypeOK
  <2> QED
    BY <2>1, <2>2, <2>3, <2>4 DEF IInv, TypeOK
<1>2. AlwaysWhole'
  BY DEF AlwaysWhole
<1>3. TempReady'
  <2> SUFFICES ASSUME ~cross_device, NEW q \in Procs
               PROVE  /\ pc'[q] \in {"sync", "rename"} =>
                           temp'[q] = Whole(loaded'[q] \cup {q})
                      /\ pc'[q] \notin {"open_dest", "write_dest", "clean"}
    BY DEF TempReady, Edited
  <2>1. CASE q = p
    BY <2>1 DEF IInv, TypeOK
  <2>2. CASE q # p
    <3>1. pc'[q] = pc[q] /\ temp'[q] = temp[q] /\ loaded'[q] = loaded[q]
      BY <2>2 DEF IInv, TypeOK
    <3> QED
      BY <3>1 DEF IInv, TempReady, Edited
  <2> QED
    BY <2>1, <2>2
<1> QED
  BY <1>1, <1>2, <1>3 DEF IInv

\* A step of p to `to`: q's file and place are left alone, and p's new temporary
\* file fits its new place.
LEMMA StepIInv ==
    ASSUME IInv, NEW p \in Procs, NEW from,
           NEW to \in Alive \cup {"crashed"}, NEW f \in Files \cup {Absent},
           Step(p, from, to),
           temp' = [temp EXCEPT ![p] = f],
           f.exists => to \in (Alive \ {"edit", "create"}) \cup {"crashed"},
           ~cross_device =>
             /\ to \in {"sync", "rename"} => f = Whole(Edited(p))
             /\ to \notin {"open_dest", "write_dest", "clean"},
           torrent' \in Files,
           ~cross_device => torrent'.whole
    PROVE  IInv'
<1> USE DEF Step, Goto
<1>1. TypeOK'
  <2>1. temp' \in [Procs -> Files \cup {Absent}]
    BY DEF IInv, TypeOK
  <2>2. pc' \in [Procs -> Alive \cup {"idle", "done", "crashed"}]
    BY DEF IInv, TypeOK
  <2>3. \A q \in Procs : temp'[q].exists =>
          pc'[q] \in (Alive \ {"edit", "create"}) \cup {"crashed"}
    BY DEF IInv, TypeOK
  <2> QED
    BY <2>1, <2>2, <2>3 DEF IInv, TypeOK
<1>2. AlwaysWhole'
  BY DEF AlwaysWhole
<1>3. TempReady'
  <2> SUFFICES ASSUME ~cross_device, NEW q \in Procs
               PROVE  /\ pc'[q] \in {"sync", "rename"} =>
                           temp'[q] = Whole(loaded'[q] \cup {q})
                      /\ pc'[q] \notin {"open_dest", "write_dest", "clean"}
    BY DEF TempReady, Edited
  <2>1. CASE q = p
    BY <2>1 DEF IInv, TypeOK, Edited
  <2>2. CASE q # p
    <3>1. pc'[q] = pc[q] /\ temp'[q] = temp[q] /\ loaded'[q] = loaded[q]
      BY <2>2 DEF IInv, TypeOK
    <3> QED
      BY <3>1 DEF IInv, TempReady, Edited
  <2> QED
    BY <2>1, <2>2
<1> QED
  BY <1>1, <1>2, <1>3 DEF IInv

--------------------------------------------------------------------------------
(* Every action keeps the invariant. *)

LEMMA ModifyIInv ==
    ASSUME IInv, NEW p \in Procs, ModifyStep(p)
    PROVE  IInv'
<1>0. torrent \in Files /\ (~cross_device => torrent.whole)
  BY DEF IInv, TypeOK, AlwaysWhole
<1>1. CASE Load(p) \/ LoadFails(p)
  <2> USE <1>1 DEF Load, LoadFails, Goto, Begins
  <2>1. /\ loaded' \in [Procs -> SUBSET Procs]
        /\ result' \in [Procs -> {"none", "unchanged", "failed", "saved"}]
    BY DEF IInv, TypeOK, Files
  <2>2. overlap' \in BOOLEAN
    BY DEF IInv, TypeOK
  <2>3. pc' \in [Procs -> Alive \cup {"idle", "done", "crashed"}]
    BY DEF IInv, TypeOK, Alive
  <2>4. \A q \in Procs : temp'[q].exists =>
          pc'[q] \in (Alive \ {"edit", "create"}) \cup {"crashed"}
    BY DEF IInv, TypeOK, Alive
  <2>5. TypeOK'
    BY <2>1, <2>2, <2>3, <2>4 DEF IInv, TypeOK
  <2>6. AlwaysWhole'
    BY DEF IInv, AlwaysWhole
  <2>7. TempReady'
    BY DEF IInv, TypeOK, TempReady, Edited
  <2> QED
    BY <2>5, <2>6, <2>7 DEF IInv
<1>2. CASE NothingToSave(p)
  BY <1>0, <1>2, FinishIInv DEF NothingToSave
<1>3. CASE ApplyFails(p)
  BY <1>0, <1>3, FinishIInv DEF ApplyFails
<1>4. CASE ApplyModifications(p)
  <2>1. /\ temp[p] \in Files \cup {Absent}
        /\ ~temp[p].exists
        /\ temp' = [temp EXCEPT ![p] = temp[p]]
    BY <1>4 DEF ApplyModifications, Step, Goto, IInv, TypeOK, Alive
  <2> QED
    BY <1>0, <1>4, <2>1, StepIInv DEF ApplyModifications, Alive
<1> QED
  BY <1>1, <1>2, <1>3, <1>4, ModifyStep(p) DEF ModifyStep

LEMMA AtomicWriteIInv ==
    ASSUME IInv, NEW p \in Procs, AtomicWriteStep(p)
    PROVE  IInv'
<1>0. torrent \in Files /\ (~cross_device => torrent.whole)
  BY DEF IInv, TypeOK, AlwaysWhole
<1>1. /\ temp[p] \in Files \cup {Absent}
      /\ temp = [temp EXCEPT ![p] = temp[p]]
      /\ Edited(p) \in SUBSET Procs
  BY DEF IInv, TypeOK, Edited
<1>2. CASE CreateFails(p) \/ WriteFails(p) \/ SyncFails(p) \/ RenameFails(p)
  BY <1>0, <1>2, FinishIInv DEF CreateFails, WriteFails, SyncFails, RenameFails
<1>3. CASE CreateTemp(p)
  BY <1>0, <1>3, StepIInv, FilesFacts DEF CreateTemp, Alive
<1>4. CASE WriteTemp(p)
  <2>1. PICK all \in BOOLEAN :
          /\ Step(p, "write", IF all THEN "sync" ELSE "write")
          /\ temp' = [temp EXCEPT ![p] = Written(Edited(p), all)]
    BY <1>4 DEF WriteTemp
  <2>2. Written(Edited(p), all) \in Files
    BY <1>1, FilesFacts
  <2>3. Written(Edited(p), TRUE) = Whole(Edited(p))
    BY DEF Whole
  <2>4. torrent' \in Files /\ (~cross_device => torrent'.whole)
    BY <1>0, <1>4 DEF WriteTemp
  <2>5. CASE all
    BY <2>1, <2>2, <2>3, <2>4, <2>5, StepIInv DEF Alive
  <2>6. CASE ~all
    BY <2>1, <2>2, <2>4, <2>6, StepIInv DEF Alive
  <2> QED
    BY <2>5, <2>6
<1>5. CASE Sync(p)
  <2>1. ~cross_device => temp[p] = Whole(Edited(p))
    BY <1>5 DEF Sync, Step, Goto, IInv, TempReady
  <2> QED
    BY <1>0, <1>1, <1>5, <2>1, StepIInv DEF Sync, Alive
<1>6. CASE RenameTemp(p)
  <2>1. ~cross_device /\ temp[p] = Whole(Edited(p))
    BY <1>6 DEF RenameTemp, Step, Goto, IInv, TempReady
  <2>2. temp[p] \in Files /\ temp[p].whole
    BY <1>1, <2>1, FilesFacts
  <2> QED
    BY <1>6, <2>2, StepIInv, FilesFacts DEF RenameTemp, Alive
<1>8. CASE Report(p)
  BY <1>0, <1>8, FinishIInv DEF Report
<1>7. CASE CrossDevice(p)
  BY <1>0, <1>1, <1>7, StepIInv DEF CrossDevice, Alive
<1> QED
  BY <1>2, <1>3, <1>4, <1>5, <1>6, <1>7, <1>8, AtomicWriteStep(p) DEF AtomicWriteStep

\* The fallback is taken only where the renames are refused.
LEMMA DirectWriteIInv ==
    ASSUME IInv, NEW p \in Procs, DirectWriteStep(p)
    PROVE  IInv' /\ cross_device
<1>0. torrent \in Files
  BY DEF IInv, TypeOK
<1>1. /\ temp[p] \in Files \cup {Absent}
      /\ temp = [temp EXCEPT ![p] = temp[p]]
      /\ Edited(p) \in SUBSET Procs
  BY DEF IInv, TypeOK, Edited
<1>2. cross_device
  BY DirectWriteStep(p) DEF DirectWriteStep, OpenDest, OpenDestFails, WriteDest,
     WriteDestLost, WriteDestFails, RemoveTemp, Step, Finish, Goto, IInv, TempReady
<1>3. CASE OpenDest(p)
  BY <1>1, <1>2, <1>3, StepIInv, FilesFacts DEF OpenDest, Alive
<1>4. CASE OpenDestFails(p) \/ RemoveTemp(p)
  BY <1>0, <1>2, <1>4, FinishIInv DEF OpenDestFails, RemoveTemp
<1>5. CASE WriteDest(p)
  <2>1. torrent' \in Files
    BY <1>1, <1>5, FilesFacts DEF WriteDest
  <2> QED
    BY <1>1, <1>2, <1>5, <2>1, StepIInv DEF WriteDest, Alive
<1>6. CASE WriteDestLost(p)
  BY <1>0, <1>1, <1>2, <1>6, StepIInv DEF WriteDestLost, Alive
<1>7. CASE WriteDestFails(p)
  <2>1. torrent' \in Files
    BY <1>0, <1>1, <1>7, FilesFacts DEF WriteDestFails
  <2> QED
    BY <1>2, <1>7, <2>1, FinishIInv DEF WriteDestFails
<1> QED
  BY <1>2, <1>3, <1>4, <1>5, <1>6, <1>7, DirectWriteStep(p) DEF DirectWriteStep

LEMMA CrashIInv ==
    ASSUME IInv, NEW p \in Procs, Crash(p)
    PROVE  IInv'
<1> USE DEF Crash
<1>1. TypeOK'
  <2>1. pc' \in [Procs -> Alive \cup {"idle", "done", "crashed"}]
    BY DEF IInv, TypeOK
  <2>2. \A q \in Procs : temp'[q].exists =>
          pc'[q] \in (Alive \ {"edit", "create"}) \cup {"crashed"}
    BY DEF IInv, TypeOK
  <2> QED
    BY <2>1, <2>2 DEF IInv, TypeOK
<1>2. AlwaysWhole'
  BY DEF IInv, AlwaysWhole
<1>3. TempReady'
  BY DEF IInv, TypeOK, TempReady, Edited
<1> QED
  BY <1>1, <1>2, <1>3 DEF IInv

LEMMA NextIInv == IInv /\ [Next]_vars => IInv'
<1> SUFFICES ASSUME IInv, [Next]_vars PROVE IInv'
  OBVIOUS
<1>1. CASE UNCHANGED vars
  BY <1>1 DEF vars, IInv, TypeOK, AlwaysWhole, TempReady, Edited
<1>2. ASSUME NEW p \in Procs, ModifyStep(p) PROVE IInv'
  BY <1>2, ModifyIInv
<1>3. ASSUME NEW p \in Procs, AtomicWriteStep(p) PROVE IInv'
  BY <1>3, AtomicWriteIInv
<1>4. ASSUME NEW p \in Procs, DirectWriteStep(p) PROVE IInv'
  BY <1>4, DirectWriteIInv
<1>5. ASSUME NEW p \in Procs, Crash(p) PROVE IInv'
  BY <1>5, CrashIInv
<1> QED
  BY <1>1, <1>2, <1>3, <1>4, <1>5 DEF Next

LEMMA AlwaysIInv == Spec => []IInv
<1>1. Init => IInv
  BY InitIInv
<1>2. IInv /\ [Next]_vars => IInv'
  BY NextIInv
<1> QED
  BY <1>1, <1>2, PTL DEF Spec

--------------------------------------------------------------------------------
\* The state of a modify stays within its types, whatever fails: in particular a
\* process that has ended by itself has no temporary file left.
THEOREM Typed == Spec => []TypeOK
<1>1. IInv => TypeOK
  BY DEF IInv
<1> QED
  BY <1>1, AlwaysIInv, PTL

\* The torrent is complete at every moment, for any number of overlapping
\* invocations and wherever they fail or are killed (atomic_write, without the
\* EXDEV fallback).
THEOREM TorrentAlwaysWhole == Spec => []AlwaysWhole
<1>1. IInv => AlwaysWhole
  BY DEF IInv
<1> QED
  BY <1>1, AlwaysIInv, PTL
--------------------------------------------------------------------------------
(* Refinement. *)

LEMMA RegisterInit == Init => Register!Init
BY DEF Init, Register!Init, Contents, MayHaveRead, Working, Whole, Written

\* Only what p may have read changes.
LEMMA ReadMoves ==
    ASSUME NEW p \in Procs, NEW to, TypeOK,
           pc' = [pc EXCEPT ![p] = to],
           \A q \in Procs \ {p} : loaded'[q] = loaded[q],
           cross_device' = cross_device
    PROVE  MayHaveRead' =
             [MayHaveRead EXCEPT
                ![p] = IF ~cross_device /\ to \in Working THEN {loaded'[p]} ELSE {}]
BY DEF TypeOK, MayHaveRead, Working

\* A process that stops working without having written has given up.
LEMMA StopGivesUp ==
    ASSUME NEW p \in Procs, NEW to \in {"done", "crashed"}, TypeOK,
           pc' = [pc EXCEPT ![p] = to],
           UNCHANGED <<torrent, loaded, cross_device>>
    PROVE  Register!Next
<1>1. MayHaveRead' = [MayHaveRead EXCEPT ![p] = {}]
  BY ReadMoves DEF Working
<1>2. UNCHANGED Contents
  BY DEF Contents
<1>3. Register!GiveUp(p)
  BY <1>1, <1>2 DEF Register!GiveUp
<1> QED
  BY <1>3 DEF Register!Next

\* A process that goes on working with what it has loaded changes nothing that
\* the register shows.
LEMMA WorkIsStutter ==
    ASSUME NEW p \in Procs, NEW to \in Working, TypeOK,
           pc[p] \in Working,
           pc' = [pc EXCEPT ![p] = to],
           UNCHANGED <<torrent, loaded, cross_device>>
    PROVE  UNCHANGED Register!vars
<1>1. MayHaveRead' = MayHaveRead
  BY DEF TypeOK, MayHaveRead, Working
<1>2. UNCHANGED Contents
  BY DEF Contents
<1> QED
  BY <1>1, <1>2 DEF Register!vars

LEMMA ModifyRefines ==
    ASSUME IInv, NEW p \in Procs, ModifyStep(p), ~cross_device
    PROVE  [Register!Next]_(Register!vars)
<1>0. TypeOK
  BY DEF IInv
<1>1. CASE Load(p)
  <2>1. /\ pc' = [pc EXCEPT ![p] = "edit"]
        /\ loaded' = [loaded EXCEPT ![p] = torrent.edits]
        /\ UNCHANGED <<torrent, cross_device>>
    BY <1>1 DEF Load, Goto
  <2>2. \A q \in Procs \ {p} : loaded'[q] = loaded[q]
    BY <1>0, <2>1 DEF TypeOK
  <2>3. loaded'[p] = Contents
    BY <1>0, <2>1 DEF TypeOK, Contents
  <2>4. MayHaveRead' = [MayHaveRead EXCEPT ![p] = {loaded'[p]}]
    BY <1>0, <2>1, <2>2, ReadMoves DEF Working
  <2>5. UNCHANGED Contents
    BY <2>1 DEF Contents
  <2>6. Register!Read(p)
    BY <2>3, <2>4, <2>5 DEF Register!Read
  <2> QED
    BY <2>6 DEF Register!Next
<1>2. CASE LoadFails(p)
  BY <1>0, <1>2, StopGivesUp DEF LoadFails, Goto
<1>3. CASE NothingToSave(p) \/ ApplyFails(p)
  BY <1>0, <1>3, StopGivesUp DEF NothingToSave, ApplyFails, Finish, Goto
<1>4. CASE ApplyModifications(p)
  BY <1>0, <1>4, WorkIsStutter DEF ApplyModifications, Step, Goto, Working
<1> QED
  BY <1>1, <1>2, <1>3, <1>4, ModifyStep(p) DEF ModifyStep

LEMMA AtomicWriteRefines ==
    ASSUME IInv, NEW p \in Procs, AtomicWriteStep(p), ~cross_device
    PROVE  [Register!Next]_(Register!vars)
<1>0. TypeOK
  BY DEF IInv
<1>1. CASE CreateFails(p) \/ WriteFails(p) \/ SyncFails(p) \/ RenameFails(p)
  BY <1>0, <1>1, StopGivesUp DEF CreateFails, WriteFails, SyncFails, RenameFails,
     Finish, Goto
<1>2. CASE CreateTemp(p) \/ Sync(p)
  BY <1>0, <1>2, WorkIsStutter DEF CreateTemp, Sync, Step, Goto, Working
<1>3. CASE WriteTemp(p)
  <2>1. PICK all \in BOOLEAN : Step(p, "write", IF all THEN "sync" ELSE "write")
    BY <1>3 DEF WriteTemp
  <2>2. torrent' = torrent
    BY <1>3 DEF WriteTemp
  <2> QED
    BY <1>0, <2>1, <2>2, WorkIsStutter DEF Step, Goto, Working
<1>4. CASE RenameTemp(p)
  <2>1. /\ pc[p] = "rename"
        /\ pc' = [pc EXCEPT ![p] = "report"]
        /\ torrent' = temp[p]
        /\ UNCHANGED <<loaded, cross_device>>
    BY <1>4 DEF RenameTemp, Step, Goto
  <2>2. temp[p].edits = loaded[p] \cup {p}
    <3>1. temp[p] = Whole(loaded[p] \cup {p})
      BY <2>1, ~cross_device DEF IInv, TempReady, Edited
    <3>2. Whole(loaded[p] \cup {p}).edits = loaded[p] \cup {p}
      BY DEF Whole, Written
    <3> QED
      BY <3>1, <3>2
  <2>3. MayHaveRead[p] = {loaded[p]}
    BY <2>1, ~cross_device DEF MayHaveRead, Working
  <2>4. MayHaveRead' = [MayHaveRead EXCEPT ![p] = {}]
    BY <1>0, <2>1, ReadMoves DEF Working
  <2>5. Contents' = loaded[p] \cup {p}
    BY <2>1, <2>2, ~cross_device DEF Contents
  <2>6. Register!Replace(p)
    BY <2>3, <2>4, <2>5 DEF Register!Replace
  <2> QED
    BY <2>6 DEF Register!Next
<1>5. CASE Report(p)
  BY <1>0, <1>5, StopGivesUp DEF Report, Finish, Goto
<1>6. ~CrossDevice(p)
  BY ~cross_device DEF CrossDevice
<1> QED
  BY <1>1, <1>2, <1>3, <1>4, <1>5, <1>6, AtomicWriteStep(p) DEF AtomicWriteStep

\* Where renames are refused, the register is one that nobody touches.
LEMMA CrossDeviceRefines ==
    ASSUME cross_device, UNCHANGED cross_device
    PROVE  UNCHANGED Register!vars
BY DEF Register!vars, Contents, MayHaveRead

LEMMA KeepsDevice ==
    ASSUME Next
    PROVE  UNCHANGED cross_device
<1>1. PICK p \in Procs : \/ ModifyStep(p) \/ AtomicWriteStep(p)
                         \/ DirectWriteStep(p) \/ Crash(p)
  BY DEF Next
<1>2. CASE ModifyStep(p)
  BY <1>2 DEF ModifyStep, Load, LoadFails, NothingToSave, ApplyModifications,
     ApplyFails, Step, Finish
<1>3. CASE AtomicWriteStep(p)
  BY <1>3 DEF AtomicWriteStep, CreateTemp, CreateFails, WriteTemp, WriteFails,
     Sync, SyncFails, RenameTemp, RenameFails, Report, CrossDevice, Step, Finish
<1>4. CASE DirectWriteStep(p)
  BY <1>4 DEF DirectWriteStep, OpenDest, OpenDestFails, WriteDest, WriteDestLost,
     WriteDestFails, RemoveTemp, Step, Finish
<1>5. CASE Crash(p)
  BY <1>5 DEF Crash
<1> QED
  BY <1>1, <1>2, <1>3, <1>4, <1>5

LEMMA NextRefines ==
    IInv /\ [Next]_vars => [Register!Next]_(Register!vars)
<1> SUFFICES ASSUME IInv, [Next]_vars
             PROVE  [Register!Next]_(Register!vars)
  OBVIOUS
<1>1. CASE UNCHANGED vars
  BY <1>1 DEF vars, Register!vars, Contents, MayHaveRead
<1>2. CASE Next /\ cross_device
  BY <1>2, KeepsDevice, CrossDeviceRefines
<1>3. CASE Next /\ ~cross_device
  <2>1. PICK p \in Procs : \/ ModifyStep(p) \/ AtomicWriteStep(p)
                           \/ DirectWriteStep(p) \/ Crash(p)
    BY <1>3 DEF Next
  <2>2. CASE ModifyStep(p)
    BY <1>3, <2>2, ModifyRefines
  <2>3. CASE AtomicWriteStep(p)
    BY <1>3, <2>3, AtomicWriteRefines
  <2>4. CASE DirectWriteStep(p)
    BY <1>3, <2>4, DirectWriteIInv
  <2>5. CASE Crash(p)
    BY <2>5, StopGivesUp DEF Crash, IInv
  <2> QED
    BY <2>1, <2>2, <2>3, <2>4, <2>5
<1> QED
  BY <1>1, <1>2, <1>3

\* However invocations overlap, fail or are killed, the torrent behaves as a
\* register that is replaced as a whole by one invocation's edit of a content it
\* has read (modify over atomic_write).
THEOREM EditsAreAtomic == Spec => Implements
<1>1. Init => Register!Init
  BY RegisterInit
<1>2. IInv /\ [Next]_vars => [Register!Next]_(Register!vars)
  BY NextRefines
<1> QED
  BY <1>1, <1>2, AlwaysIInv, PTL DEF Spec, Implements, Register!Spec
--------------------------------------------------------------------------------
(* Which edits are in the torrent. *)

\* A process that ends or goes on was at work before; one that begins is alone, or
\* not any more.
LEMMA AloneKept ==
    ASSUME IInv, Alone, NEW p \in Procs,
           ModifyStep(p) \/ AtomicWriteStep(p) \/ DirectWriteStep(p) \/ Crash(p)
    PROVE  Alone'
<1> USE DEF Alive, Goto, Step, Finish, IInv, TypeOK
<1>1. CASE Load(p) \/ LoadFails(p)
  <2>1. /\ pc[p] = "idle" /\ pc'[p] \in {"edit", "done"}
        /\ \A q \in Procs \ {p} : pc'[q] = pc[q] /\ result'[q] = result[q]
        /\ pc'[p] = "edit" => result'[p] = result[p]
        /\ ~overlap' => ~overlap /\ \A q \in Procs : pc[q] \notin Alive
    BY <1>1 DEF Load, LoadFails, Begins
  <2>2. result[p] = "none"
    BY <2>1 DEF Alone
  <2> QED
    BY <2>1, <2>2 DEF Alone
<1>2. CASE ~Load(p) /\ ~LoadFails(p)
  <2>1. /\ pc[p] \in Alive /\ pc'[p] \in Alive \cup {"done", "crashed"}
        /\ overlap' = overlap
        /\ \A q \in Procs \ {p} : pc'[q] = pc[q] /\ result'[q] = result[q]
        /\ pc'[p] # "done" => result'[p] = result[p]
    BY <1>2
    DEF ModifyStep, NothingToSave, ApplyModifications, ApplyFails, AtomicWriteStep,
        CreateTemp, CreateFails, WriteTemp, WriteFails, Sync, SyncFails, RenameTemp,
        RenameFails, Report, CrossDevice, DirectWriteStep, OpenDest, OpenDestFails,
        WriteDest, WriteDestLost, WriteDestFails, RemoveTemp, Crash
  <2>2. result[p] = "none"
    BY <2>1 DEF Alone
  <2> QED
    BY <2>1, <2>2 DEF Alone
<1> QED
  BY <1>1, <1>2

\* The torrent is left alone by a process that ends without having renamed, or goes
\* on towards it.
LEMMA OthersEdits ==
    ASSUME IInv, EditsKept, EditsFrom, Alone, NEW p \in Procs,
           ~cross_device, UNCHANGED <<torrent, cross_device, overlap, loaded>>,
           pc[p] \in Working, NEW to \in Working \cup {"done", "crashed"},
           pc' = [pc EXCEPT ![p] = to],
           \A q \in Procs \ {p} : result'[q] = result[q],
           result'[p] # "saved"
    PROVE  EditsKept' /\ EditsFrom'
<1> USE DEF IInv, TypeOK
<1>1. /\ pc'[p] = to
      /\ \A q \in Procs \ {p} : pc'[q] = pc[q]
  OBVIOUS
<1>2. p \notin Unreported /\ result[p] = "none"
  BY DEF Alone, Unreported, Working
<1>3. Successful' = Successful /\ Unreported \subseteq Unreported'
  BY <1>1, <1>2 DEF Successful, Unreported
<1>4. Made \subseteq Made'
  BY <1>3 DEF Made
<1>5. \A q \in Procs : /\ pc'[q] \in Working => pc[q] \in Working
                       /\ pc'[q] = "report" => pc[q] = "report"
  BY <1>1 DEF Working
<1> QED
  BY <1>3, <1>4, <1>5 DEF EditsKept, EditsFrom

LEMMA EditsNext ==
    ASSUME IInv, EditsKept, EditsFrom, Alone, NEW p \in Procs,
           ModifyStep(p) \/ AtomicWriteStep(p) \/ DirectWriteStep(p) \/ Crash(p)
    PROVE  EditsKept' /\ EditsFrom'
<1> USE DEF Goto, Step, Finish
<1>0. TypeOK /\ (pc[p] # "done" => result[p] = "none")
  BY DEF IInv, Alone
<1>1. CASE cross_device
  <2>1. cross_device'
    BY <1>1, KeepsDevice DEF Next
  <2> QED
    BY <2>1 DEF EditsKept, EditsFrom
<1>2. CASE ~cross_device /\ (Load(p) \/ LoadFails(p))
  <2>1. /\ pc[p] = "idle" /\ UNCHANGED <<torrent, cross_device>>
        /\ \A q \in Procs \ {p} : /\ pc'[q] = pc[q] /\ result'[q] = result[q]
                                  /\ loaded'[q] = loaded[q]
        /\ ~overlap' => ~overlap /\ \A q \in Procs : pc[q] \notin Alive
        /\ result'[p] # "saved"
        /\ \/ pc'[p] = "edit" /\ loaded'[p] = torrent.edits
           \/ pc'[p] = "done" /\ loaded'[p] = loaded[p]
    BY <1>0, <1>2 DEF Load, LoadFails, Begins, TypeOK
  <2>2. Successful' = Successful /\ Unreported' = Unreported
    BY <1>0, <2>1 DEF Successful, Unreported
  <2>3. Made' = Made
    BY <2>2 DEF Made
  <2> QED
    BY <1>2, <2>1, <2>2, <2>3 DEF EditsKept, EditsFrom, Working, Alive
<1>3. CASE ~cross_device /\ (\/ NothingToSave(p) \/ ApplyFails(p) \/ CreateFails(p)
                             \/ WriteFails(p) \/ SyncFails(p) \/ RenameFails(p))
  <2>1. /\ pc[p] \in Working /\ pc' = [pc EXCEPT ![p] = "done"]
        /\ \E answer \in {"unchanged", "failed"} :
             result' = [result EXCEPT ![p] = answer]
        /\ UNCHANGED <<torrent, cross_device, overlap, loaded>>
    BY <1>3 DEF NothingToSave, ApplyFails, CreateFails, WriteFails, SyncFails,
                RenameFails, Working
  <2>2. result'[p] # "saved" /\ \A q \in Procs \ {p} : result'[q] = result[q]
    BY <1>0, <2>1 DEF TypeOK
  <2> QED
    BY <1>3, <2>1, <2>2, OthersEdits
<1>4. CASE ~cross_device /\ (\/ ApplyModifications(p) \/ CreateTemp(p) \/ WriteTemp(p)
                             \/ Sync(p))
  <2>1. /\ pc[p] \in Working /\ \E to \in Working : pc' = [pc EXCEPT ![p] = to]
        /\ UNCHANGED <<torrent, cross_device, overlap, loaded, result>>
    BY <1>4 DEF ApplyModifications, CreateTemp, WriteTemp, Sync, Working
  <2>2. result'[p] # "saved"
    BY <1>0, <2>1 DEF Working
  <2> QED
    BY <1>4, <2>1, <2>2, OthersEdits
<1>5. CASE ~cross_device /\ RenameTemp(p)
  <2>1. /\ pc[p] = "rename" /\ pc'[p] = "report" /\ torrent' = temp[p]
        /\ \A q \in Procs \ {p} : pc'[q] = pc[q]
        /\ UNCHANGED <<cross_device, overlap, loaded, result>>
    BY <1>0, <1>5 DEF RenameTemp, TypeOK
  <2>2. torrent'.edits = loaded[p] \cup {p}
    <3>1. temp[p] = Whole(loaded[p] \cup {p})
      BY <1>5, <2>1 DEF IInv, TempReady, Edited
    <3> QED
      BY <2>1, <3>1 DEF Whole, Written
  <2>3. Successful' = Successful /\ Made \cup {p} \subseteq Made'
    BY <2>1 DEF Successful, Unreported, Made
  <2>4. loaded[p] \subseteq Made /\ (~overlap => loaded[p] = torrent.edits)
    BY <1>5, <2>1 DEF EditsFrom, Working
  <2>5. ~overlap => \A q \in Procs \ {p} : pc[q] \notin Working \cup {"report"}
    BY <2>1 DEF Alone, Alive, Working
  <2>6. EditsKept'
    BY <1>5, <2>1, <2>2, <2>3, <2>4 DEF EditsKept
  <2>7. EditsFrom'
    BY <1>5, <2>1, <2>2, <2>3, <2>5 DEF EditsFrom, Working
  <2> QED
    BY <2>6, <2>7
<1>6. CASE ~cross_device /\ Report(p)
  <2>1. /\ pc[p] = "report" /\ pc'[p] = "done" /\ result'[p] = "saved"
        /\ \A q \in Procs \ {p} : pc'[q] = pc[q] /\ result'[q] = result[q]
        /\ UNCHANGED <<torrent, cross_device, overlap, loaded>>
    BY <1>0, <1>6 DEF Report, TypeOK
  <2>2. Successful' = Successful \cup {p} /\ Unreported' = Unreported \ {p}
    BY <2>1 DEF Successful, Unreported
  <2>3. Made' = Made
    BY <2>1, <2>2 DEF Made, Unreported
  <2>4. ~overlap => p \in torrent.edits
    BY <1>6, <2>1 DEF EditsFrom
  <2> QED
    BY <1>6, <2>1, <2>2, <2>3, <2>4 DEF EditsKept, EditsFrom, Working
<1>7. CASE ~cross_device /\ Crash(p)
  <2>1. /\ pc[p] \in Alive /\ pc'[p] = "crashed"
        /\ \A q \in Procs \ {p} : pc'[q] = pc[q]
        /\ UNCHANGED <<torrent, cross_device, overlap, loaded, result>>
    BY <1>0, <1>7 DEF Crash, TypeOK
  <2>2. Successful' = Successful /\ Made \subseteq Made'
    BY <2>1 DEF Successful, Unreported, Made
  <2> QED
    BY <1>7, <2>1, <2>2 DEF EditsKept, EditsFrom, Working
<1>8. ~cross_device => ~CrossDevice(p) /\ ~DirectWriteStep(p)
  BY DirectWriteIInv DEF CrossDevice
<1> QED
  BY <1>1, <1>2, <1>3, <1>4, <1>5, <1>6, <1>7, <1>8 DEF ModifyStep, AtomicWriteStep

LEMMA EInvNext == EInv /\ [Next]_vars => EInv'
<1> SUFFICES ASSUME EInv, [Next]_vars PROVE EInv'
  OBVIOUS
<1>1. IInv'
  BY NextIInv DEF EInv
<1>2. CASE UNCHANGED vars
  BY <1>1, <1>2 DEF EInv, vars, EditsKept, EditsFrom, Alone, Successful, Unreported, Made
<1>3. CASE Next
  <2>1. PICK p \in Procs : \/ ModifyStep(p) \/ AtomicWriteStep(p)
                           \/ DirectWriteStep(p) \/ Crash(p)
    BY <1>3 DEF Next
  <2> QED
    BY <1>1, <2>1, AloneKept, EditsNext DEF EInv
<1> QED
  BY <1>2, <1>3

\* However many invocations overlap, fail or are killed, no edit that was reported as
\* failed is in the torrent; and one reported as saved stays if they do not overlap.
THEOREM EditsAreKept == Spec => []EditsKept
<1>1. Init => EInv
  BY InitIInv DEF Init, EInv, EditsKept, EditsFrom, Alone, Successful, Unreported, Made,
                  Whole, Written, Working, Alive
<1>2. EInv /\ [Next]_vars => EInv'
  BY EInvNext
<1>3. EInv => EditsKept
  BY DEF EInv
<1> QED
  BY <1>1, <1>2, <1>3, PTL DEF Spec
================================================================================
