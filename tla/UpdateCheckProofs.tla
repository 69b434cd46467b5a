--------------------------- MODULE UpdateCheckProofs ---------------------------
(***************************************************************************)
(* Theorems about UpdateCheck, for any number of runs, any interval and    *)
(* any clock: the throttle holds for runs that overlap in every way, may   *)
(* be killed anywhere and delete each other's temporary files; and a run   *)
(* that is alone leaves no such file behind.                               *)
(***************************************************************************)
EXTENDS UpdateCheck, TLAPS

LEMMA InitIInv == Init => IInv
<1> SUFFICES ASSUME Init PROVE IInv
  OBVIOUS
<1>1. TypeOK
  <2>1. now \in Times
    BY CheckAssumption DEF Init, Times
  <2>2. /\ todo \in [Runs -> SUBSET Runs]
        /\ before \in [Runs -> SUBSET Runs]
    BY DEF Init
  <2>3. /\ pc \in [Runs -> Alive \cup {"idle", "done", "crashed"}]
        /\ result \in [Runs -> {"none", "throttled", "offline", "unrecorded",
                                "recorded"}]
    BY DEF Init
  <2> QED
    BY <2>1, <2>2, <2>3 DEF Init, TypeOK
<1>2. \A r \in Runs : pc[r] = "idle" /\ r \notin Recorded
  BY DEF Init, Recorded
<1>3. OneAnswer
  BY <1>2 DEF Init, OneAnswer, Recording
<1>4. CleanedIsFresh /\ SeenCoversBefore
  BY <1>2 DEF CleanedIsFresh, SeenCoversBefore, Cleaned
<1>5. StampCoversRecorded
  BY <1>2 DEF StampCoversRecorded, Recorded
<1>6. TimesAnswered
  BY DEF Init, TimesAnswered, AnswerBefore
<1> QED
  BY <1>1, <1>3, <1>4, <1>5, <1>6 DEF IInv

--------------------------------------------------------------------------------
(* Types. *)

LEMMA RunStepType ==
    ASSUME TypeOK, NEW r \in Runs, RunStep(r)
    PROVE  TypeOK'
<1> USE DEF TypeOK, Goto, Finish, Alive, Recording, Absent, Never, history,
            Times
<1>1. CASE ReadStamp(r)
  <2>1. Recorded \in SUBSET Runs
    BY DEF Recorded
  <2>2. before' \in [Runs -> SUBSET Runs]
    BY <1>1, <2>1 DEF ReadStamp
  <2>3. overlap' \in BOOLEAN
    BY <1>1 DEF ReadStamp
  <2> QED
    BY <1>1, <2>2, <2>3, CheckAssumption DEF ReadStamp
<1>2. CASE CheckDue(r) \/ CheckNotDue(r) \/ FetchFails(r) \/ CreateFails(r)
  BY <1>2 DEF CheckDue, CheckNotDue, FetchFails, CreateFails
<1>3. CASE FetchSucceeds(r)
  BY <1>3, CheckAssumption DEF FetchSucceeds
<1>4. CASE OpenDir(r) \/ CleanDone(r)
  <2>1. {q \in Runs : temp[q] # Absent} \in SUBSET Runs
    OBVIOUS
  <2>2. todo' \in [Runs -> SUBSET Runs]
    BY <1>4, <2>1 DEF OpenDir, CleanDone
  <2> QED
    BY <1>4, <2>2 DEF OpenDir, CleanDone
<1>5. CASE RemoveTemp(r)
  BY <1>5 DEF RemoveTemp
<1>6. CASE CreateTemp(r)
  BY <1>6 DEF CreateTemp
<1>7. CASE WriteStamp(r)
  <2>1. temp' \in [Runs -> {Absent, Never} \cup Interval .. now]
    BY <1>7, CheckAssumption DEF WriteStamp
  <2> QED
    BY <1>7, <2>1 DEF WriteStamp
<1>8. CASE RenameTemp(r)
  BY <1>8 DEF RenameTemp
<1>9. CASE RenameFails(r)
  BY <1>9 DEF RenameFails
<1> QED
  BY <1>1, <1>2, <1>3, <1>4, <1>5, <1>6, <1>7, <1>8, <1>9 DEF RunStep

LEMMA NextType == TypeOK /\ [Next]_vars => TypeOK'
<1> SUFFICES ASSUME TypeOK, [Next]_vars PROVE TypeOK'
  OBVIOUS
<1>1. CASE Tick
  <2>1. /\ now' = now + 1 /\ now' \in Times
        /\ Interval .. now \subseteq Interval .. now'
    BY <1>1, CheckAssumption DEF Tick, TypeOK, Times
  <2> QED
    BY <1>1, <2>1 DEF Tick, TypeOK, history
<1>2. ASSUME NEW r \in Runs, RunStep(r) PROVE TypeOK'
  BY <1>2, RunStepType
<1>3. ASSUME NEW r \in Runs, Crash(r) PROVE TypeOK'
  BY <1>3 DEF Crash, TypeOK, history
<1>4. CASE UNCHANGED vars
  BY <1>4 DEF vars, history, TypeOK
<1> QED
  BY <1>1, <1>2, <1>3, <1>4 DEF Next

--------------------------------------------------------------------------------
(* The parts of the inductive invariant. *)

LEMMA OneAnswerKept ==
    ASSUME IInv, NEW r \in Runs, RunStep(r) \/ Crash(r)
    PROVE  OneAnswer'
<1> USE DEF IInv, TypeOK, OneAnswer, Goto, Finish, Recording, Alive,
            Absent, Times, history
<1>1. CASE ReadStamp(r) \/ CheckDue(r) \/ CheckNotDue(r) \/ FetchFails(r)
  BY <1>1 DEF ReadStamp, CheckDue, CheckNotDue, FetchFails
<1>2. CASE FetchSucceeds(r)
  <2>1. now # Absent
    BY CheckAssumption
  <2> QED
    BY <1>2, <2>1 DEF FetchSucceeds
<1>3. CASE OpenDir(r) \/ RemoveTemp(r) \/ CleanDone(r) \/ CreateTemp(r)
             \/ CreateFails(r) \/ WriteStamp(r)
  BY <1>3 DEF OpenDir, RemoveTemp, CleanDone, CreateTemp, CreateFails,
              WriteStamp
<1>4. CASE RenameTemp(r) \/ RenameFails(r) \/ Crash(r)
  BY <1>4 DEF RenameTemp, RenameFails, Crash
<1> QED
  BY <1>1, <1>2, <1>3, <1>4 DEF RunStep

(***************************************************************************)
(* Steps that let no run advance past the clean-up, put no run into the    *)
(* state before its rename and write nothing into a temporary file that is *)
(* about to be renamed.                                                    *)
(***************************************************************************)
LEMMA OtherStepsFresh ==
    ASSUME IInv, NEW r \in Runs,
           \/ CheckDue(r) \/ CheckNotDue(r) \/ FetchSucceeds(r)
           \/ FetchFails(r) \/ RemoveTemp(r) \/ CreateTemp(r)
           \/ CreateFails(r) \/ RenameTemp(r) \/ RenameFails(r) \/ Crash(r)
    PROVE  CleanedIsFresh'
<1> USE DEF IInv, TypeOK, Goto, Finish, history
<1>1. UNCHANGED <<faulty, began, todo>>
  BY DEF CheckDue, CheckNotDue, FetchSucceeds, FetchFails, RemoveTemp,
         CreateTemp, CreateFails, RenameTemp, RenameFails, Crash
<1>2. \A a \in Runs : /\ Cleaned(a)' => Cleaned(a)
                      /\ pc'[a] = "clean" => pc[a] = "clean"
  BY DEF CheckDue, CheckNotDue, FetchSucceeds, FetchFails, RemoveTemp,
         CreateTemp, CreateFails, RenameTemp, RenameFails, Crash, Cleaned,
         Recorded
<1>3. \A q \in Runs : pc'[q] = "rename" =>
          pc[q] = "rename" /\ temp'[q] \in {temp[q], Absent}
  BY DEF CheckDue, CheckNotDue, FetchSucceeds, FetchFails, RemoveTemp,
         CreateTemp, CreateFails, RenameTemp, RenameFails, Crash
<1>4. \A a, q \in Runs : Fresh(q, a) => Fresh(q, a)'
  BY <1>1, <1>3 DEF Fresh
<1> QED
  BY <1>1, <1>2, <1>4 DEF CleanedIsFresh

LEMMA CleanedIsFreshKept ==
    ASSUME IInv, NEW r \in Runs, RunStep(r) \/ Crash(r)
    PROVE  CleanedIsFresh'
<1> USE DEF IInv, TypeOK, Goto, Finish, history
<1>1. CASE ReadStamp(r)
  <2>1. /\ pc'[r] = "due" /\ r \notin Recorded'
        /\ UNCHANGED <<faulty, temp, todo>>
    BY <1>1 DEF ReadStamp, Recorded, OneAnswer
  <2>2. \A a \in Runs \ {r} : /\ pc'[a] = pc[a] /\ began'[a] = began[a]
                              /\ a \in Recorded' <=> a \in Recorded
    BY <1>1 DEF ReadStamp, Recorded
  <2> QED
    BY <2>1, <2>2 DEF CleanedIsFresh, Cleaned, Fresh
<1>2. CASE OpenDir(r)
  <2>1. /\ pc'[r] = "clean" /\ UNCHANGED <<faulty, temp, began, result>>
        /\ todo'[r] = {q \in Runs : temp[q] # Absent}
        /\ \A a \in Runs \ {r} : pc'[a] = pc[a] /\ todo'[a] = todo[a]
    BY <1>2 DEF OpenDir
  <2>2. pc[r] = "open_dir" /\ r \notin Recorded'
    BY <1>2 DEF OpenDir, Recorded, OneAnswer
  <2>3. \A q \in Runs : q \notin todo'[r] => Fresh(q, r)'
    BY <2>1 DEF Fresh
  <2>4. \A a \in Runs \ {r} : \A q \in Runs :
          /\ Cleaned(a)' <=> Cleaned(a)
          /\ Fresh(q, a) => Fresh(q, a)'
    BY <2>1, <2>2 DEF Cleaned, Fresh, Recorded
  <2> QED
    BY <2>1, <2>2, <2>3, <2>4 DEF CleanedIsFresh, Cleaned
<1>3. CASE CleanDone(r)
  <2>1. /\ pc[r] = "clean" /\ pc'[r] = "create"
        /\ UNCHANGED <<faulty, temp, began, result>>
        /\ \A a \in Runs \ {r} : pc'[a] = pc[a] /\ todo'[a] = todo[a]
    BY <1>3 DEF CleanDone
  <2>2. ~faulty => \A q \in todo[r] : temp[q] = Absent
    BY <1>3 DEF CleanDone
  <2>3. \A q, a \in Runs : Fresh(q, a) => Fresh(q, a)'
    BY <2>1 DEF Fresh
  <2>4. ~faulty => \A q \in Runs : Fresh(q, r)
    BY <2>1, <2>2 DEF CleanedIsFresh, Fresh
  <2>5. \A a \in Runs \ {r} : Cleaned(a)' <=> Cleaned(a)
    BY <2>1 DEF Cleaned, Recorded
  <2> QED
    BY <2>1, <2>3, <2>4, <2>5 DEF CleanedIsFresh
<1>4. CASE WriteStamp(r)
  <2>1. /\ pc[r] = "write" /\ pc'[r] = "rename"
        /\ UNCHANGED <<now, faulty, began, todo, result>>
        /\ ~faulty => temp'[r] \in {Absent, now}
        /\ \A a \in Runs \ {r} : pc'[a] = pc[a] /\ temp'[a] = temp[a]
    BY <1>4 DEF WriteStamp
  <2>2. \A a \in Runs : now >= began[a]
    BY CheckAssumption DEF Times, Absent
  <2>3. ~faulty => \A a \in Runs : Fresh(r, a)'
    BY <2>1, <2>2 DEF Fresh
  <2>4. \A a \in Runs : \A q \in Runs \ {r} : Fresh(q, a) => Fresh(q, a)'
    BY <2>1 DEF Fresh
  <2>5. \A a \in Runs : /\ Cleaned(a)' <=> Cleaned(a)
                        /\ pc'[a] = "clean" => pc[a] = "clean"
    BY <2>1 DEF Cleaned, Recorded
  <2> QED
    BY <2>1, <2>3, <2>4, <2>5 DEF CleanedIsFresh
<1> QED
  BY <1>1, <1>2, <1>3, <1>4, OtherStepsFresh DEF RunStep

\* Only a rename changes the stamp, and what it brings is fresh for everyone.
LEMMA StampCoversKept ==
    ASSUME IInv, NEW r \in Runs, RunStep(r) \/ Crash(r)
    PROVE  StampCoversRecorded'
<1> USE DEF IInv, TypeOK, Goto, Finish, history
<1>1. CASE RenameTemp(r)
  <2>1. /\ pc[r] = "rename" /\ temp[r] # Absent /\ stamp' = temp[r]
        /\ UNCHANGED <<faulty, began>>
        /\ Recorded' = Recorded \cup {r}
    BY <1>1 DEF RenameTemp, Recorded
  <2>2. ~faulty => \A a \in Recorded' : Fresh(r, a)
    BY <2>1 DEF CleanedIsFresh, Cleaned, Recorded
  <2> QED
    BY <2>1, <2>2 DEF StampCoversRecorded, Fresh
<1>2. CASE ReadStamp(r)
  <2>1. /\ Recorded' = Recorded /\ r \notin Recorded
        /\ UNCHANGED <<faulty, stamp>>
        /\ \A a \in Runs \ {r} : began'[a] = began[a]
    BY <1>2 DEF ReadStamp, Recorded, OneAnswer
  <2> QED
    BY <2>1 DEF StampCoversRecorded, Recorded
<1>3. CASE ~RenameTemp(r) /\ ~ReadStamp(r)
  <2>1. UNCHANGED <<faulty, stamp, began>>
    BY <1>3 DEF RunStep, CheckDue, CheckNotDue, FetchSucceeds, FetchFails,
                OpenDir, RemoveTemp, CleanDone, CreateTemp, CreateFails,
                WriteStamp, RenameFails, Crash
  <2>2. Recorded' \subseteq Recorded
    BY <1>3 DEF RunStep, CheckDue, CheckNotDue, FetchSucceeds, FetchFails,
                OpenDir, RemoveTemp, CleanDone, CreateTemp, CreateFails,
                WriteStamp, RenameFails, Crash, Recorded
  <2> QED
    BY <2>1, <2>2 DEF StampCoversRecorded
<1> QED
  BY <1>1, <1>2, <1>3

LEMMA SeenCoversKept ==
    ASSUME IInv, NEW r \in Runs, RunStep(r) \/ Crash(r)
    PROVE  SeenCoversBefore'
<1> USE DEF IInv, TypeOK, Goto, Finish, history
<1>1. CASE ReadStamp(r)
  <2>1. /\ Recorded' = Recorded /\ r \notin Recorded
        /\ faulty' = faulty
        /\ seen'[r] = stamp /\ before'[r] = Recorded
        /\ \A a \in Runs \ {r} : /\ pc'[a] = pc[a] /\ began'[a] = began[a]
                                 /\ seen'[a] = seen[a] /\ before'[a] = before[a]
    BY <1>1 DEF ReadStamp, Recorded, OneAnswer
  <2>2. ~faulty => \A q \in before'[r] : seen'[r] >= began'[q]
    BY <2>1 DEF StampCoversRecorded, Recorded
  <2>3. ASSUME ~faulty, NEW a \in Runs \ {r}, pc'[a] = "due", NEW q \in before'[a]
        PROVE  q \in Recorded' /\ seen'[a] >= began'[q]
    <3>1. q \in Recorded /\ q \in Runs /\ seen[a] >= began[q]
      BY <2>1, <2>3 DEF SeenCoversBefore
    <3> QED
      BY <2>1, <3>1
  <2> QED
    BY <2>1, <2>2, <2>3 DEF SeenCoversBefore
<1>2. CASE ~ReadStamp(r)
  <2>1. UNCHANGED <<faulty, seen, before, began>>
    BY <1>2 DEF RunStep, CheckDue, CheckNotDue, FetchSucceeds, FetchFails,
                OpenDir, RemoveTemp, CleanDone, CreateTemp, CreateFails,
                WriteStamp, RenameTemp, RenameFails, Crash
  <2>2. Recorded \subseteq Recorded'
    <3>1. result[r] = "none" \/ result' = result
      BY <1>2 DEF RunStep, CheckDue, CheckNotDue, FetchSucceeds, FetchFails,
                  OpenDir, RemoveTemp, CleanDone, CreateTemp, CreateFails,
                  WriteStamp, RenameTemp, RenameFails, Crash, OneAnswer
    <3>2. \A a \in Runs \ {r} : result'[a] = result[a]
      BY <1>2 DEF RunStep, CheckDue, CheckNotDue, FetchSucceeds, FetchFails,
                  OpenDir, RemoveTemp, CleanDone, CreateTemp, CreateFails,
                  WriteStamp, RenameTemp, RenameFails, Crash
    <3> QED
      BY <3>1, <3>2 DEF Recorded
  <2>3. \A a \in Runs : pc'[a] = "due" => pc[a] = "due"
    BY <1>2 DEF RunStep, CheckDue, CheckNotDue, FetchSucceeds, FetchFails,
                OpenDir, RemoveTemp, CleanDone, CreateTemp, CreateFails,
                WriteStamp, RenameTemp, RenameFails, Crash
  <2> QED
    BY <2>1, <2>2, <2>3 DEF SeenCoversBefore
<1> QED
  BY <1>1, <1>2

LEMMA TimesAnsweredKept ==
    ASSUME IInv, NEW r \in Runs, RunStep(r) \/ Crash(r)
    PROVE  TimesAnswered'
<1> USE DEF IInv, TypeOK, Goto, Finish, history, Absent, Never
<1>1. \A q \in Runs : answered[q] # Absent => answered'[q] = answered[q]
  <2>1. CASE FetchSucceeds(r)
    BY <2>1 DEF FetchSucceeds, OneAnswer
  <2>2. CASE ~FetchSucceeds(r)
    BY <2>2 DEF RunStep, ReadStamp, CheckDue, CheckNotDue, FetchFails, OpenDir,
                RemoveTemp, CleanDone, CreateTemp, CreateFails, WriteStamp,
                RenameTemp, RenameFails, Crash
  <2> QED
    BY <2>1, <2>2
<1> DEFINE Before(x) == \/ x \in {Absent, Never}
                        \/ \E q \in Runs : answered[q] # Absent /\ answered[q] <= x
           After(x)  == \/ x \in {Absent, Never}
                        \/ \E q \in Runs : answered'[q] # Absent /\ answered'[q] <= x
<1>2. \A x \in Int : Before(x) => After(x)
  BY <1>1
<1>3. /\ Before(stamp) /\ stamp \in Int
      /\ \A a \in Runs : /\ Before(temp[a]) /\ temp[a] \in Int
                         /\ Before(seen[a]) /\ seen[a] \in Int
  BY CheckAssumption DEF TimesAnswered, AnswerBefore, Times
<1>4. After(stamp')
  <2>1. stamp' = stamp \/ stamp' = temp[r]
    BY DEF RunStep, ReadStamp, CheckDue, CheckNotDue, FetchSucceeds, FetchFails,
           OpenDir, RemoveTemp, CleanDone, CreateTemp, CreateFails, WriteStamp,
           RenameTemp, RenameFails, Crash
  <2> QED
    BY <1>2, <1>3, <2>1
<1>5. \A a \in Runs : After(seen'[a])
  <2>1. \A a \in Runs : seen'[a] = seen[a] \/ seen'[a] = stamp
    BY DEF RunStep, ReadStamp, CheckDue, CheckNotDue, FetchSucceeds, FetchFails,
           OpenDir, RemoveTemp, CleanDone, CreateTemp, CreateFails, WriteStamp,
           RenameTemp, RenameFails, Crash
  <2> QED
    BY <1>2, <1>3, <2>1
<1>6. \A a \in Runs : After(temp'[a])
  <2>1. CASE WriteStamp(r)
    <3>1. answered[r] # Absent /\ answered[r] <= now /\ now \in Int
      BY <2>1, CheckAssumption DEF WriteStamp, OneAnswer, Recording, Times
    <3>2. After(now)
      BY <1>2, <3>1
    <3>3. \A a \in Runs : temp'[a] \in {temp[a], Absent, now}
      BY <2>1 DEF WriteStamp
    <3> QED
      BY <1>2, <1>3, <3>2, <3>3
  <2>2. CASE ~WriteStamp(r)
    <3>1. \A a \in Runs : temp'[a] \in {temp[a], Absent, Never}
      BY <2>2 DEF RunStep, ReadStamp, CheckDue, CheckNotDue, FetchSucceeds,
                  FetchFails, OpenDir, RemoveTemp, CleanDone, CreateTemp,
                  CreateFails, RenameTemp, RenameFails, Crash
    <3> QED
      BY <1>2, <1>3, <3>1
  <2> QED
    BY <2>1, <2>2
<1> QED
  BY <1>4, <1>5, <1>6 DEF TimesAnswered, AnswerBefore

LEMMA NextIInv == IInv /\ [Next]_vars => IInv'
<1> SUFFICES ASSUME IInv, [Next]_vars PROVE IInv'
  OBVIOUS
<1>1. TypeOK'
  BY NextType DEF IInv
<1>2. ASSUME NEW r \in Runs, RunStep(r) \/ Crash(r) PROVE IInv'
  BY <1>1, <1>2, OneAnswerKept, CleanedIsFreshKept, StampCoversKept,
     SeenCoversKept, TimesAnsweredKept DEF IInv
<1>3. CASE Tick \/ UNCHANGED vars
  <2>1. UNCHANGED <<faulty, stamp, temp, pc, seen, todo, result, began, before,
                    answered>>
    BY <1>3 DEF Tick, vars, history
  <2> QED
    BY <1>1, <2>1 DEF IInv, OneAnswer, CleanedIsFresh, StampCoversRecorded,
       SeenCoversBefore, TimesAnswered, AnswerBefore, Cleaned, Fresh, Recorded
<1> QED
  BY <1>2, <1>3 DEF Next

LEMMA Invariance == Spec => []IInv
BY InitIInv, NextIInv, PTL DEF Spec

--------------------------------------------------------------------------------
(* No check is lost by deleting each other's files. *)

LEMMA FreshStays ==
    ASSUME IInv, ~faulty, NEW r \in Runs, RunStep(r) \/ Crash(r),
           NEW a \in Runs, began'[a] = began[a], NEW q \in Runs, Fresh(q, a)
    PROVE  Fresh(q, a)'
<1> USE DEF IInv, TypeOK, Goto, Finish, history
<1>1. CASE WriteStamp(r)
  <2>1. /\ now >= began[a]
    BY CheckAssumption DEF Times, Absent
  <2>2. temp'[r] \in {Absent, now}
    BY <1>1 DEF WriteStamp
  <2>3. q # r => pc'[q] = pc[q] /\ temp'[q] = temp[q]
    BY <1>1 DEF WriteStamp
  <2> QED
    BY <2>1, <2>2, <2>3 DEF Fresh
<1>2. CASE ~WriteStamp(r)
  <2>1. pc'[q] = "rename" => pc[q] = "rename" /\ temp'[q] \in {temp[q], Absent}
    BY <1>2 DEF RunStep, ReadStamp, CheckDue, CheckNotDue, FetchSucceeds, FetchFails,
                OpenDir, RemoveTemp, CleanDone, CreateTemp, CreateFails, RenameTemp,
                RenameFails, Crash
  <2> QED
    BY <2>1 DEF Fresh
<1> QED
  BY <1>1, <1>2

LEMMA FailuresKept ==
    ASSUME IInv, Failures, NEW r \in Runs, RunStep(r) \/ Crash(r)
    PROVE  Failures'
<1> USE DEF IInv, TypeOK, OneAnswer, Goto, Finish, history
<1>1. faulty' = faulty
  BY DEF RunStep, ReadStamp, CheckDue, CheckNotDue, FetchSucceeds, FetchFails, OpenDir,
         RemoveTemp, CleanDone, CreateTemp, CreateFails, WriteStamp, RenameTemp,
         RenameFails, Crash
<1>2. ASSUME ~faulty, NEW a \in Runs, NEW q \in Runs, result'[a] = "unrecorded"
      PROVE  Fresh(q, a)'
  <2>1. began'[a] = began[a]
    <3>1. CASE ReadStamp(r)
      BY <1>2, <3>1 DEF ReadStamp
    <3>2. CASE ~ReadStamp(r)
      BY <3>2 DEF RunStep, CheckDue, CheckNotDue, FetchSucceeds, FetchFails, OpenDir,
                  RemoveTemp, CleanDone, CreateTemp, CreateFails, WriteStamp, RenameTemp,
                  RenameFails, Crash
    <3> QED
      BY <3>1, <3>2
  <2>2. Fresh(q, a)
    <3>1. CASE result[a] = "unrecorded"
      BY <1>2, <3>1 DEF Failures
    <3>2. CASE result[a] # "unrecorded"
      <4>1. RenameFails(r) /\ a = r
        BY <1>2, <3>2
        DEF RunStep, ReadStamp, CheckDue, CheckNotDue, FetchSucceeds, FetchFails, OpenDir,
            RemoveTemp, CleanDone, CreateTemp, CreateFails, WriteStamp, RenameTemp,
            RenameFails, Crash
      <4>2. Cleaned(r)
        BY <4>1 DEF RenameFails, Cleaned
      <4> QED
        BY <1>2, <4>1, <4>2 DEF CleanedIsFresh
    <3> QED
      BY <3>1, <3>2
  <2> QED
    BY <1>2, <2>1, <2>2, FreshStays
<1>3. ASSUME NEW a \in Runs
      PROVE  /\ pc'[a] = "done" => result'[a] # "none"
             /\ result'[a] \in {"throttled", "offline"} => answered'[a] = Absent
  <2>1. CASE CheckNotDue(r) \/ FetchFails(r)
    BY <2>1 DEF CheckNotDue, FetchFails, Failures
  <2>2. CASE FetchSucceeds(r)
    BY <2>2 DEF FetchSucceeds, Failures
  <2>3. CASE ~CheckNotDue(r) /\ ~FetchFails(r) /\ ~FetchSucceeds(r)
    BY <2>3
    DEF RunStep, ReadStamp, CheckDue, OpenDir, RemoveTemp, CleanDone, CreateTemp,
        CreateFails, WriteStamp, RenameTemp, RenameFails, Crash, Failures
  <2> QED
    BY <2>1, <2>2, <2>3
<1> QED
  BY <1>1, <1>2, <1>3 DEF Failures

\* Of a run that got an answer it is known that it will record, or was killed, or
\* that no file about to be renamed is older than its start.
LEMMA AnsweredIsFresh ==
    ASSUME IInv, Failures, ~faulty, NEW a \in Runs, answered[a] # Absent,
           ~WillRecord(a), pc[a] # "crashed", NEW q \in Runs
    PROVE  Fresh(q, a)
<1> USE DEF IInv, TypeOK, OneAnswer
<1>1. pc[a] \in {"write", "rename", "done"}
  BY DEF WillRecord, Alive, Recording
<1>2. CASE pc[a] \in {"write", "rename"} \/ a \in Recorded
  BY <1>2 DEF CleanedIsFresh, Cleaned
<1>3. CASE pc[a] = "done" /\ a \notin Recorded
  <2>1. result[a] = "unrecorded"
    BY <1>3 DEF Failures, Recorded
  <2> QED
    BY <2>1 DEF Failures
<1> QED
  BY <1>1, <1>2, <1>3

LEMMA AnswersCoveredKept ==
    ASSUME IInv, Failures, AnswersCovered, NEW r \in Runs, RunStep(r) \/ Crash(r)
    PROVE  AnswersCovered'
<1> USE DEF IInv, TypeOK, OneAnswer, Goto, Finish, history
<1>1. faulty' = faulty
  BY DEF RunStep, ReadStamp, CheckDue, CheckNotDue, FetchSucceeds, FetchFails, OpenDir,
         RemoveTemp, CleanDone, CreateTemp, CreateFails, WriteStamp, RenameTemp,
         RenameFails, Crash
<1> SUFFICES ASSUME ~faulty, NEW a \in Runs, answered'[a] # Absent
             PROVE  stamp'>= began'[a]
                      \/ \E q \in Runs : WillRecord(q)' \/ pc'[q] = "crashed"
  BY <1>1 DEF AnswersCovered
<1>2. CASE FetchSucceeds(r) \/ OpenDir(r) \/ CleanDone(r) \/ CreateTemp(r)
  <2>1. pc'[r] \in {"open_dir", "clean", "create"}
          \/ (pc'[r] = "write" /\ temp'[r] # Absent)
    BY <1>2 DEF FetchSucceeds, OpenDir, CleanDone, CreateTemp, Never, Absent
  <2> QED
    BY <2>1 DEF WillRecord
<1>3. CASE RemoveTemp(r)
  BY <1>3 DEF RemoveTemp, WillRecord
<1>4. CASE Crash(r)
  BY <1>4 DEF Crash
<1>5. CASE ReadStamp(r) \/ CheckDue(r) \/ CheckNotDue(r) \/ FetchFails(r)
  <2>1. /\ UNCHANGED <<stamp, temp, answered>> /\ pc[r] \in {"idle", "due", "fetch"}
        /\ \A q \in Runs \ {r} : pc'[q] = pc[q] /\ began'[q] = began[q]
    BY <1>5 DEF ReadStamp, CheckDue, CheckNotDue, FetchFails
  <2>2. a # r
    BY <2>1
  <2>3. ~WillRecord(r) /\ pc[r] # "crashed"
    BY <2>1 DEF WillRecord
  <2>4. \A q \in Runs \ {r} : WillRecord(q)' <=> WillRecord(q)
    BY <2>1 DEF WillRecord
  <2> QED
    BY <2>1, <2>2, <2>3, <2>4 DEF AnswersCovered
<1>6. CASE WriteStamp(r)
  <2>1. /\ UNCHANGED <<stamp, answered, began>>
        /\ \A q \in Runs \ {r} : pc'[q] = pc[q] /\ temp'[q] = temp[q]
        /\ pc[r] = "write" /\ pc'[r] = "rename"
        /\ temp[r] # Absent => temp'[r] = now
    BY <1>6 DEF WriteStamp
  <2>2. now # Absent
    BY CheckAssumption DEF Times, Absent
  <2>3. \A q \in Runs : WillRecord(q) => WillRecord(q)'
    BY <2>1, <2>2 DEF WillRecord
  <2>4. \A q \in Runs : pc[q] = "crashed" => pc'[q] = "crashed"
    BY <2>1
  <2> QED
    BY <2>1, <2>3, <2>4 DEF AnswersCovered
<1>7. CASE RenameFails(r)
  <2>1. /\ UNCHANGED <<stamp, answered, began>>
        /\ \A q \in Runs \ {r} : pc'[q] = pc[q] /\ temp'[q] = temp[q]
        /\ pc[r] = "rename" /\ temp[r] = Absent
    BY <1>7 DEF RenameFails
  <2>2. ~WillRecord(r) /\ pc[r] # "crashed"
    BY <2>1 DEF WillRecord
  <2>3. \A q \in Runs \ {r} : WillRecord(q) => WillRecord(q)'
    BY <2>1 DEF WillRecord
  <2> QED
    BY <2>1, <2>2, <2>3 DEF AnswersCovered
<1>8. CASE RenameTemp(r)
  <2>1. /\ UNCHANGED <<answered, began>> /\ stamp' = temp[r]
        /\ \A q \in Runs \ {r} : pc'[q] = pc[q] /\ temp'[q] = temp[q]
        /\ pc[r] = "rename" /\ temp[r] # Absent
    BY <1>8 DEF RenameTemp
  <2>2. CASE a # r /\ (WillRecord(a) \/ pc[a] = "crashed")
    BY <2>1, <2>2 DEF WillRecord
  <2>3. CASE a = r
    <3>1. Fresh(r, r)
      BY <2>1 DEF CleanedIsFresh, Cleaned
    <3> QED
      BY <2>1, <2>3, <3>1 DEF Fresh
  <2>4. CASE ~WillRecord(a) /\ pc[a] # "crashed"
    <3>1. Fresh(r, a)
      BY <2>1, <2>4, AnsweredIsFresh
    <3> QED
      BY <2>1, <3>1 DEF Fresh
  <2> QED
    BY <2>2, <2>3, <2>4
<1>9. ~CreateFails(r)
  BY DEF CreateFails
<1> QED
  BY <1>2, <1>3, <1>4, <1>5, <1>6, <1>7, <1>8, <1>9 DEF RunStep

LEMMA CoverInvariance == Spec => [](IInv /\ Failures /\ AnswersCovered)
<1>1. Init => Failures /\ AnswersCovered
  BY DEF Init, Failures, AnswersCovered
<1>2. IInv /\ Failures /\ AnswersCovered /\ [Next]_vars
        => Failures' /\ AnswersCovered'
  <2> SUFFICES ASSUME IInv, Failures, AnswersCovered, [Next]_vars
               PROVE  Failures' /\ AnswersCovered'
    OBVIOUS
  <2>1. ASSUME NEW r \in Runs, RunStep(r) \/ Crash(r)
        PROVE  Failures' /\ AnswersCovered'
    BY <2>1, FailuresKept, AnswersCoveredKept
  <2>2. CASE Tick \/ UNCHANGED vars
    <3>1. UNCHANGED <<faulty, stamp, temp, pc, result, began, answered>>
      BY <2>2 DEF Tick, vars, history
    <3> QED
      BY <3>1 DEF Failures, AnswersCovered, Fresh, WillRecord
  <2> QED
    BY <2>1, <2>2 DEF Next
<1> QED
  BY <1>1, <1>2, Invariance, PTL DEF Spec

--------------------------------------------------------------------------------
(* The theorems. *)

\* A stored time is always one that the clock has shown, in every run.
THEOREM Typed == Spec => []TypeOK
BY Invariance, PTL DEF IInv

\* record_update_check never leaves a time older than the start of a run that
\* has recorded, in spite of its missing lock.
THEOREM RecordedCovered == Spec => []StampCoversRecorded
BY Invariance, PTL DEF IInv

\* However runs delete each other's temporary files, no check that GitHub answered
\* is lost when all have ended, unless a run was killed.
THEOREM NoCheckLost == Spec => []ChecksCovered
<1>1. IInv /\ AnswersCovered => ChecksCovered
  BY DEF IInv, AnswersCovered, ChecksCovered, SomeoneRecords, Ended, WillRecord
<1> QED
  BY <1>1, CoverInvariance, PTL

\* README "throttled to once per 24 hours", for overlapping and killed runs.
THEOREM ThrottleHolds == Spec => Throttled
<1>1. ASSUME IInv, [Next]_vars, NEW r \in Runs,
             ~faulty, pc[r] = "due", pc'[r] = "fetch", NEW q \in before[r]
      PROVE  now - began[q] >= Interval
  <2>1. CheckDue(r)
    <3>1. PICK a \in Runs : RunStep(a) \/ Crash(a)
      BY <1>1 DEF Next, Tick, vars
    <3>2. a = r
      <4>1. pc' = pc \/ \E x : pc' = [pc EXCEPT ![a] = x]
        BY <3>1
        DEF RunStep, ReadStamp, CheckDue, CheckNotDue, FetchSucceeds,
            FetchFails, OpenDir, RemoveTemp, CleanDone, CreateTemp, CreateFails,
            WriteStamp, RenameTemp, RenameFails, Crash, Finish, Goto
      <4> QED
        BY <1>1, <4>1 DEF IInv, TypeOK
    <3> QED
      BY <1>1, <3>1, <3>2
      DEF RunStep, ReadStamp, CheckNotDue, FetchSucceeds, FetchFails, OpenDir,
          RemoveTemp, CleanDone, CreateTemp, CreateFails, WriteStamp,
          RenameTemp, RenameFails, Crash, Finish, Goto, IInv, TypeOK
  <2>2. now - seen[r] >= Interval
    BY <2>1 DEF CheckDue, Due
  <2>3. seen[r] >= began[q] /\ q \in Runs
    BY <1>1 DEF IInv, SeenCoversBefore, Recorded
  <2>4. /\ now \in Int /\ seen[r] \in Int /\ began[q] \in Int
        /\ Interval \in Int
    BY <1>1, <2>3, CheckAssumption DEF IInv, TypeOK, Times, Absent, Never
  <2> QED
    BY <2>2, <2>3, <2>4
<1>2. IInv /\ [Next]_vars =>
        [\A r \in Runs : ~faulty /\ pc[r] = "due" /\ pc'[r] = "fetch" =>
           \A q \in before[r] : now - began[q] >= Interval]_vars
  BY <1>1
<1> QED
  BY <1>2, Invariance, PTL DEF Spec, Throttled

\* A run leaves out its check only after an answer to some run: a failed check
\* never silences the next one.
THEOREM OnlyAnswersThrottle == Spec => SkipJustified
<1>1. ASSUME IInv, [Next]_vars, NEW r \in Runs,
             result'[r] = "throttled", result[r] # "throttled"
      PROVE  \E q \in Runs : answered[q] # Absent /\ answered[q] <= seen[r]
  <2>1. CheckNotDue(r)
    <3>1. PICK a \in Runs : RunStep(a) \/ Crash(a)
      BY <1>1 DEF Next, Tick, vars
    <3>2. a = r
      <4>1. result' = result \/ \E x : result' = [result EXCEPT ![a] = x]
        BY <3>1
        DEF RunStep, ReadStamp, CheckDue, CheckNotDue, FetchSucceeds,
            FetchFails, OpenDir, RemoveTemp, CleanDone, CreateTemp, CreateFails,
            WriteStamp, RenameTemp, RenameFails, Crash, Finish
      <4> QED
        BY <1>1, <4>1 DEF IInv, TypeOK
    <3> QED
      BY <1>1, <3>1, <3>2
      DEF RunStep, ReadStamp, CheckDue, FetchSucceeds, FetchFails, OpenDir,
          RemoveTemp, CleanDone, CreateTemp, CreateFails, WriteStamp,
          RenameTemp, RenameFails, Crash, Finish, IInv, TypeOK
  <2>2. seen[r] \notin {Absent, Never}
    <3>1. /\ ~(now - seen[r] >= Interval) /\ now \in Interval .. MaxClock
          /\ seen[r] \in {0} \cup Interval .. now
      BY <1>1, <2>1 DEF CheckNotDue, Due, IInv, TypeOK, Times, Never
    <3>2. seen[r] # -1 /\ seen[r] # 0
      BY <3>1, CheckAssumption
    <3> QED
      BY <3>2 DEF Absent, Never
  <2> QED
    BY <1>1, <2>2 DEF IInv, TimesAnswered, AnswerBefore
<1>2. IInv /\ [Next]_vars =>
        [\A r \in Runs :
           result'[r] = "throttled" /\ result[r] # "throttled" =>
             \E q \in Runs : answered[q] # Absent /\ answered[q] <= seen[r]]_vars
  BY <1>1
<1> QED
  BY <1>2, Invariance, PTL DEF Spec, SkipJustified

--------------------------------------------------------------------------------
(* What a run leaves in the directory. *)

OneAtATime == ~overlap => \A r, q \in Runs : pc[r] \in Alive /\ pc[q] \in Alive => r = q

\* A run that is alone reads past every file before it creates its own.
Swept ==
    ~overlap /\ ~faulty => \A r, q \in Runs : temp[q] # Absent =>
        /\ pc[r] = "clean" => q \in todo[r]
        /\ pc[r] # "create"
        /\ pc[r] \in {"write", "rename"} => q = r

LEMMA OneAtATimeKept ==
    ASSUME TypeOK, OneAtATime, [Next]_vars
    PROVE  OneAtATime'
<1> SUFFICES ASSUME ~overlap', NEW r \in Runs, NEW q \in Runs,
                    pc'[r] \in Alive, pc'[q] \in Alive
             PROVE  r = q
  BY DEF OneAtATime
<1>1. CASE pc' = pc /\ overlap' = overlap
  BY <1>1 DEF OneAtATime
<1>2. ASSUME NEW a \in Runs, RunStep(a) \/ Crash(a), pc' # pc
      PROVE  r = q
  <2>1. /\ \A b \in Runs \ {a} : pc'[b] = pc[b]
        /\ \/ pc[a] \in Alive /\ overlap' = overlap
           \/ \A b \in Runs : pc[b] \notin Alive
    BY <1>2 DEF TypeOK, RunStep, ReadStamp, CheckDue, CheckNotDue, FetchSucceeds,
       FetchFails, OpenDir, RemoveTemp, CleanDone, CreateTemp, CreateFails,
       WriteStamp, RenameTemp, RenameFails, Crash, Finish, Goto, Alive, Recording, history
  <2> QED
    BY <2>1 DEF OneAtATime
<1>3. ASSUME NEW a \in Runs, RunStep(a) \/ Crash(a), pc' = pc
      PROVE  overlap' = overlap
  BY <1>3 DEF TypeOK, RunStep, ReadStamp, CheckDue, CheckNotDue, FetchSucceeds,
       FetchFails, OpenDir, RemoveTemp, CleanDone, CreateTemp, CreateFails,
       WriteStamp, RenameTemp, RenameFails, Crash, Finish, Goto, history
<1> QED
  BY <1>1, <1>2, <1>3 DEF Next, Tick, vars, history

LEMMA SweptKept ==
    ASSUME TypeOK, OneAtATime, Swept, [Next]_vars
    PROVE  Swept'
<1> SUFFICES ASSUME ~overlap', ~faulty', NEW r \in Runs, NEW q \in Runs, temp'[q] # Absent
             PROVE  /\ pc'[r] = "clean" => q \in todo'[r]
                    /\ pc'[r] # "create"
                    /\ pc'[r] \in {"write", "rename"} => q = r
  BY DEF Swept
<1>1. CASE UNCHANGED <<pc, temp, todo, overlap, faulty>>
  BY <1>1 DEF Swept
<1>2. ASSUME NEW a \in Runs, RunStep(a) \/ Crash(a)
      PROVE  /\ pc'[r] = "clean" => q \in todo'[r]
             /\ pc'[r] # "create"
             /\ pc'[r] \in {"write", "rename"} => q = r
  <2>1. CASE ReadStamp(a)
    <3>1. /\ \A b \in Runs : pc[b] \notin Alive
          /\ pc'[a] = "due" /\ \A b \in Runs \ {a} : pc'[b] = pc[b]
      BY <2>1 DEF ReadStamp, Goto, TypeOK
    <3> QED
      BY <3>1 DEF Alive, Recording
  <2>2. CASE ~ReadStamp(a)
    <3>1. /\ ~overlap /\ ~faulty /\ pc[a] \in Alive
          /\ \A b \in Runs \ {a} : pc'[b] = pc[b] /\ todo'[b] = todo[b]
      BY <1>2, <2>2 DEF TypeOK, RunStep, CheckDue, CheckNotDue, FetchSucceeds,
         FetchFails, OpenDir, RemoveTemp, CleanDone, CreateTemp, CreateFails,
         WriteStamp, RenameTemp, RenameFails, Crash, Finish, Goto, Alive, Recording, history
    <3>2. CASE r # a
      BY <3>1, <3>2 DEF OneAtATime, Alive, Recording
    <3>3. CASE r = a
      <4>1. CASE \/ CheckDue(a) \/ CheckNotDue(a) \/ FetchSucceeds(a) \/ FetchFails(a)
                 \/ CreateFails(a) \/ Crash(a) \/ RenameTemp(a) \/ RenameFails(a)
        BY <3>3, <4>1 DEF TypeOK, CheckDue, CheckNotDue, FetchSucceeds, FetchFails,
           CreateFails, Crash, RenameTemp, RenameFails, Finish, Goto
      <4>2. CASE OpenDir(a)
        BY <3>3, <4>2 DEF TypeOK, OpenDir, Goto
      <4>3. CASE RemoveTemp(a)
        <5>1. pc' = pc /\ todo' = todo /\ temp[q] # Absent /\ pc[a] = "clean"
          BY <4>3 DEF TypeOK, RemoveTemp
        <5> QED
          BY <3>1, <3>3, <5>1 DEF Swept
      <4>4. CASE CleanDone(a)
        <5>1. /\ pc[a] = "clean" /\ temp' = temp /\ \A b \in todo[a] : temp[b] = Absent
          BY <3>1, <4>4 DEF CleanDone, Goto
        <5> QED
          BY <3>1, <5>1 DEF Swept
      <4>5. CASE CreateTemp(a)
        <5>1. /\ pc[a] = "create" /\ pc'[a] = "write"
              /\ \A b \in Runs \ {a} : temp'[b] = temp[b]
          BY <4>5 DEF TypeOK, CreateTemp, Goto
        <5> QED
          BY <3>1, <3>3, <5>1 DEF Swept
      <4>6. CASE WriteStamp(a)
        <5>1. /\ pc[a] = "write" /\ pc'[a] = "rename"
              /\ \A b \in Runs \ {a} : temp'[b] = temp[b]
          BY <4>6 DEF TypeOK, WriteStamp, Goto
        <5> QED
          BY <3>1, <3>3, <5>1 DEF Swept
      <4> QED
        BY <1>2, <2>2, <4>1, <4>2, <4>3, <4>4, <4>5, <4>6 DEF RunStep
    <3> QED
      BY <3>2, <3>3
  <2> QED
    BY <2>1, <2>2
<1> QED
  BY <1>1, <1>2 DEF Next, Tick, vars, history

\* test_updater.cpp, no leftover temporary file: whoever records alone leaves none of
\* anybody, however many runs were killed before it (updater.cpp:654-695).
THEOREM RecordTidy == Spec => TidyRecord
<1> DEFINE Inv == TypeOK /\ OneAtATime /\ Swept
<1>1. Init => OneAtATime /\ Swept
  BY DEF Init, OneAtATime, Swept, Alive, Recording
<1>2. Inv /\ [Next]_vars => (OneAtATime /\ Swept)'
  BY OneAtATimeKept, SweptKept
<1>3. ASSUME Inv, [Next]_vars, NEW r \in Runs, result'[r] = "recorded",
             result[r] # "recorded", ~faulty, ~overlap, NEW q \in Runs
      PROVE  temp'[q] = Absent
  <2>1. RenameTemp(r)
    <3>1. PICK a \in Runs : RunStep(a) \/ Crash(a)
      BY <1>3 DEF Next, Tick, vars
    <3>2. result' # result
      BY <1>3
    <3>3. \E x : result' = [result EXCEPT ![a] = x] /\ (x = "recorded" => RenameTemp(a))
      BY <3>1, <3>2
      DEF RunStep, ReadStamp, CheckDue, CheckNotDue, FetchSucceeds,
          FetchFails, OpenDir, RemoveTemp, CleanDone, CreateTemp, CreateFails,
          WriteStamp, RenameTemp, RenameFails, Crash, Finish
    <3> QED
      BY <1>3, <3>3 DEF TypeOK
  <2>2. pc[r] = "rename" /\ temp' = [temp EXCEPT ![r] = Absent]
    BY <2>1 DEF RenameTemp, Finish, Goto
  <2> QED
    BY <1>3, <2>2 DEF Swept, TypeOK
<1>4. Inv /\ [Next]_vars =>
        [\A r \in Runs :
           /\ result'[r] = "recorded" /\ result[r] # "recorded"
           /\ ~faulty /\ ~overlap
           => \A q \in Runs : temp'[q] = Absent]_vars
  BY <1>3
<1> QED
  BY <1>1, <1>2, <1>4, Typed, PTL DEF Spec, TidyRecord
================================================================================
