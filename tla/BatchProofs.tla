------------------------------ MODULE BatchProofs ------------------------------
(***************************************************************************)
(* Theorems about Batch, for every number of jobs, workers and hardware    *)
(* threads: the types, that the shared counter hands each job to exactly   *)
(* one thread, that the pool keeps the promises of BatchJobs, that a single *)
(* worker leaves the terminal as it was, and that the torrents of the jobs *)
(* that share no output stand complete in their files.                     *)
(***************************************************************************)
EXTENDS Batch, TLAPS

LEMMA ActualWorkersType ==
    ASSUME workers \in 1 .. MaxWorkers
    PROVE  ActualWorkers \in 0 .. MaxWorkers
BY BatchAssumption DEF ActualWorkers

LEMMA ActualWorkersPositive ==
    ASSUME workers \in 1 .. MaxWorkers, NJobs > 0
    PROVE  ActualWorkers > 0
BY BatchAssumption DEF ActualWorkers

LEMMA NamesType ==
    ASSUME NEW r \in Requests
    PROVE  r.name \in Names
<1>1. CASE r \in [auto : {FALSE}, name : Names]
  BY <1>1
<1>2. CASE r \in [auto : {TRUE}, name : [base : Bases, number : {0}]]
  <2>1. r.name \in [base : Bases, number : {0}]
    BY <1>2
  <2>2. 0 \in 0 .. MaxCollision
    BY BatchAssumption
  <2> QED
    BY <2>1, <2>2 DEF Names
<1> QED
  BY <1>1, <1>2 DEF Requests

LEMMA TypeInit == Init => TypeOK
<1> SUFFICES ASSUME Init PROVE TypeOK
  OBVIOUS
<1>1. target \in [Jobs -> Names]
  BY NamesType DEF Init
<1>2. present \in SUBSET Names
  BY BatchAssumption DEF Init, Names
<1>3. authors \in [Names -> SUBSET (Jobs \cup {Old})]
  BY DEF Init
<1> QED
  BY <1>1, <1>2, <1>3, BatchAssumption DEF Init, TypeOK, Busy, BeforeGuard

--------------------------------------------------------------------------------
(* The inductive invariant.                                                 *)

IInv == TypeOK /\ ClaimedOnce /\ PoolOrder

LEMMA InitIInv == Init => IInv
<1> SUFFICES ASSUME Init PROVE IInv
  OBVIOUS
<1>1. TypeOK
  BY TypeInit
<1>2. ClaimedOnce
  BY DEF Init, ClaimedOnce, BusyHoldsJob, HoldersDiffer, DrawnIsHeld,
         AnsweredWasDrawn, Busy, BeforeGuard, UnderGuard, Jobs
<1>3. ActualWorkers \in 0 .. MaxWorkers
  BY ActualWorkersType DEF Init
<1>4. PoolOrder
  BY <1>3 DEF Init, PoolOrder, Threads
<1> QED
  BY <1>1, <1>2, <1>4 DEF IInv

(***************************************************************************)
(* Most steps of a worker happen inside execute_job: they draw no index,   *)
(* answer no job and start or end no thread.                               *)
(***************************************************************************)
InsideJob(t) ==
    /\ pc[t] \in Busy
    /\ \E to \in Busy : pc' = [pc EXCEPT ![t] = to]
    /\ UNCHANGED <<workers, requested, pool, outcome, exit_code>>

LEMMA InsideJobKeeps ==
    ASSUME IInv, NEW t \in Threads, InsideJob(t)
    PROVE  ClaimedOnce' /\ PoolOrder'
<1>1. \A u \in Threads : pc'[u] = pc[u] \/ (pc[u] \in Busy /\ pc'[u] \in Busy)
  BY DEF InsideJob, IInv, TypeOK
<1>2. \A u \in Threads : pc'[u] \in Busy <=> pc[u] \in Busy
  BY <1>1
<1>3. /\ UNCHANGED <<next_job, idx, spawned, joined, outcome, exit_code>>
      /\ ActualWorkers' = ActualWorkers
  BY DEF InsideJob, pool, ActualWorkers
<1>4. ClaimedOnce'
  BY <1>2, <1>3 DEF IInv, ClaimedOnce, BusyHoldsJob, HoldersDiffer,
                    DrawnIsHeld, AnsweredWasDrawn
<1>5. "unborn" \notin Busy /\ "exited" \notin Busy
  BY DEF Busy, BeforeGuard, UnderGuard
<1>6. \A u \in Threads : /\ pc'[u] = "unborn" <=> pc[u] = "unborn"
                         /\ pc'[u] = "exited" <=> pc[u] = "exited"
  BY <1>1, <1>5
<1>7. PoolOrder'
  BY <1>3, <1>6 DEF IInv, PoolOrder
<1> QED
  BY <1>4, <1>7

LEMMA InsideJobSteps ==
    ASSUME IInv, NEW t \in Threads,
           \/ ResolveJob(t) \/ ProbeFree(t) \/ ProbeTaken(t)
           \/ ProbeExhausted(t) \/ SeasonOk(t) \/ SaveTty(t) \/ SetRaw(t)
           \/ Hash(t) \/ WaitForKey(t) \/ KeyTyped(t)
           \/ OpenOutput(t) \/ WriteOutput(t)
           \/ ThrowBeforeGuard(t) \/ ThrowUnderGuard(t) \/ RestoreTty(t)
    PROVE  InsideJob(t)
<1> USE DEF InsideJob, Goto, Busy, BeforeGuard, UnderGuard
<1>1. CASE ResolveJob(t)
  BY <1>1 DEF ResolveJob
<1>2. CASE ProbeFree(t)
  BY <1>2 DEF ProbeFree
<1>3. CASE ProbeTaken(t)
  <2>1. pc' = [pc EXCEPT ![t] = pc[t]]
    BY <1>3 DEF ProbeTaken, IInv, TypeOK
  <2> QED
    BY <1>3, <2>1 DEF ProbeTaken
<1>4. CASE ProbeExhausted(t)
  BY <1>4 DEF ProbeExhausted
<1>5. CASE SeasonOk(t)
  BY <1>5 DEF SeasonOk
<1>6. CASE SaveTty(t)
  BY <1>6 DEF SaveTty
<1>7. CASE SetRaw(t)
  BY <1>7 DEF SetRaw
<1>8. CASE Hash(t) \/ WaitForKey(t) \/ KeyTyped(t)
  BY <1>8 DEF Hash, WaitForKey, KeyTyped
<1>9. CASE OpenOutput(t)
  BY <1>9 DEF OpenOutput
<1>10. CASE WriteOutput(t)
  BY <1>10 DEF WriteOutput
<1>11. CASE ThrowBeforeGuard(t)
  BY <1>11 DEF ThrowBeforeGuard
<1>12. CASE ThrowUnderGuard(t)
  BY <1>12 DEF ThrowUnderGuard
<1>13. CASE RestoreTty(t)
  BY <1>13 DEF RestoreTty
<1> QED
  BY <1>1, <1>2, <1>3, <1>4, <1>5, <1>6, <1>7, <1>8, <1>9, <1>10, <1>11,
     <1>12, <1>13

LEMMA ClaimJobKeeps ==
    ASSUME IInv, NEW t \in Threads, ClaimJob(t)
    PROVE  ClaimedOnce' /\ PoolOrder'
<1> USE DEF IInv, ClaimedOnce
<1>1. /\ pc[t] = "claim" /\ next_job' = next_job + 1 /\ next_job \in Nat
      /\ idx' = [idx EXCEPT ![t] = next_job]
      /\ outcome' = outcome
      /\ pc' = [pc EXCEPT ![t] = IF next_job < NJobs THEN "resolve" ELSE "exited"]
  BY DEF ClaimJob, Goto, TypeOK
<1>2. \A u \in Threads \ {t} : pc'[u] = pc[u] /\ idx'[u] = idx[u]
  BY <1>1 DEF TypeOK
<1>3. idx'[t] = next_job
  BY <1>1 DEF TypeOK
<1>4. pc'[t] = IF next_job < NJobs THEN "resolve" ELSE "exited"
  BY <1>1 DEF TypeOK
<1>5. /\ "resolve" \in Busy /\ "claim" \notin Busy
      /\ "exited" \notin Busy /\ "unborn" \notin Busy
  BY DEF Busy, BeforeGuard, UnderGuard
<1>6. next_job < NJobs => next_job \in Jobs /\ outcome[next_job] = "unset"
  BY <1>1, BatchAssumption DEF AnsweredWasDrawn, Jobs
<1>7. BusyHoldsJob'
  <2> SUFFICES ASSUME NEW u \in Threads, pc'[u] \in Busy
               PROVE  /\ idx'[u] \in Jobs /\ idx'[u] < next_job'
                      /\ outcome'[idx'[u]] = "unset"
    BY DEF BusyHoldsJob
  <2>1. CASE u = t
    BY <2>1, <1>1, <1>3, <1>4, <1>5, <1>6
  <2>2. CASE u # t
    BY <2>2, <1>1, <1>2 DEF BusyHoldsJob, TypeOK
  <2> QED
    BY <2>1, <2>2
<1>8. HoldersDiffer'
  <2>1. \A u \in Threads \ {t} : pc'[u] \in Busy => idx'[u] # next_job
    BY <1>1, <1>2 DEF BusyHoldsJob, TypeOK
  <2> QED
    BY <2>1, <1>2, <1>3 DEF HoldersDiffer
<1>9. DrawnIsHeld'
  <2> SUFFICES ASSUME NEW j \in Jobs, j < next_job', outcome'[j] = "unset"
               PROVE  \E u \in Threads : pc'[u] \in Busy /\ idx'[u] = j
    BY DEF DrawnIsHeld
  <2>1. j \in Nat /\ j < NJobs
    BY BatchAssumption DEF Jobs
  <2>2. CASE j < next_job
    <3>1. PICK u \in Threads : pc[u] \in Busy /\ idx[u] = j
      BY <2>2, <1>1 DEF DrawnIsHeld
    <3>2. u # t
      BY <3>1, <1>1, <1>5
    <3> QED
      BY <3>1, <3>2, <1>2
  <2>3. CASE j = next_job
    BY <2>1, <2>3, <1>3, <1>4, <1>5
  <2> QED
    BY <2>1, <2>2, <2>3, <1>1
<1>10. AnsweredWasDrawn'
  <2> SUFFICES ASSUME NEW j \in Jobs, outcome'[j] # "unset"
               PROVE  j < next_job'
    BY DEF AnsweredWasDrawn
  <2>1. j < next_job /\ j \in Int
    BY <1>1 DEF AnsweredWasDrawn, Jobs
  <2> QED
    BY <2>1, <1>1
<1>11. PoolOrder'
  <2>1. UNCHANGED <<spawned, joined, exit_code>> /\ ActualWorkers' = ActualWorkers
    BY DEF ClaimJob, ActualWorkers
  <2>2. \A u \in Threads : pc'[u] = "unborn" <=> pc[u] = "unborn"
    BY <1>1, <1>2, <1>4
  <2>3. \A u \in Threads : pc[u] = "exited" => pc'[u] = "exited"
    BY <1>1, <1>2, <1>4
  <2>4. \A u \in Threads : pc'[u] = "exited" => next_job' >= NJobs
    BY <1>1, <1>2, <1>4, BatchAssumption DEF PoolOrder
  <2> QED
    BY <2>1, <2>2, <2>3, <2>4 DEF PoolOrder
<1> QED
  BY <1>7, <1>8, <1>9, <1>10, <1>11

LEMMA StoreResultKeeps ==
    ASSUME IInv, NEW t \in Threads, StoreResult(t)
    PROVE  ClaimedOnce' /\ PoolOrder'
<1> USE DEF IInv, ClaimedOnce
<1>1. /\ pc[t] = "store" /\ pc' = [pc EXCEPT ![t] = "claim"]
      /\ UNCHANGED <<next_job, idx, spawned, joined, exit_code>>
      /\ ActualWorkers' = ActualWorkers
  BY DEF StoreResult, Goto, pool, ActualWorkers
<1>2. /\ "store" \in Busy /\ "claim" \notin Busy
      /\ "exited" \notin Busy /\ "unborn" \notin Busy
  BY DEF Busy, BeforeGuard, UnderGuard
<1>3. idx[t] \in Jobs /\ idx[t] < next_job
  BY <1>1, <1>2 DEF BusyHoldsJob
<1>4. outcome'[idx[t]] # "unset"
  BY <1>3 DEF StoreResult, TypeOK
<1>5. \A j \in Jobs \ {idx[t]} : outcome'[j] = outcome[j]
  BY <1>3 DEF StoreResult, TypeOK
<1>6. /\ pc'[t] = "claim"
      /\ \A u \in Threads \ {t} : pc'[u] = pc[u]
  BY <1>1 DEF TypeOK
<1>7. BusyHoldsJob'
  BY <1>1, <1>2, <1>5, <1>6 DEF BusyHoldsJob, HoldersDiffer
<1>8. HoldersDiffer'
  BY <1>1, <1>2, <1>6 DEF HoldersDiffer
<1>9. DrawnIsHeld'
  BY <1>1, <1>4, <1>5, <1>6 DEF DrawnIsHeld
<1>10. AnsweredWasDrawn'
  BY <1>1, <1>3, <1>5 DEF AnsweredWasDrawn
<1>11. PoolOrder'
  BY <1>1, <1>6 DEF PoolOrder
<1> QED
  BY <1>7, <1>8, <1>9, <1>10, <1>11

LEMMA MainStepKeeps ==
    ASSUME IInv, MainStep
    PROVE  ClaimedOnce' /\ PoolOrder'
<1> USE DEF IInv, ClaimedOnce
<1>1. /\ UNCHANGED <<next_job, idx, outcome>>
      /\ ActualWorkers' = ActualWorkers
  BY DEF MainStep, SpawnWorker, JoinWorker, ReturnExitCode, pool, ActualWorkers
<1>2. ActualWorkers \in 0 .. MaxWorkers
  BY ActualWorkersType DEF TypeOK
<1>3. \A u \in Threads : pc'[u] \in Busy <=> pc[u] \in Busy
  <2>1. CASE SpawnWorker
    <3>1. spawned + 1 \in Threads
      BY <2>1, <1>2, BatchAssumption DEF SpawnWorker, Threads, TypeOK
    <3>2. pc[spawned + 1] = "unborn"
      BY <3>1 DEF PoolOrder, TypeOK
    <3> QED
      BY <2>1, <3>1, <3>2
      DEF SpawnWorker, TypeOK, Busy, BeforeGuard, UnderGuard
  <2>2. CASE JoinWorker \/ ReturnExitCode
    BY <2>2 DEF JoinWorker, ReturnExitCode
  <2> QED
    BY <2>1, <2>2 DEF MainStep
<1>4. ClaimedOnce'
  BY <1>1, <1>3 DEF BusyHoldsJob, HoldersDiffer, DrawnIsHeld, AnsweredWasDrawn
<1>5. PoolOrder'
  <2>1. CASE SpawnWorker
    <3>1. \A u \in Threads : pc'[u] = IF u = spawned + 1 THEN "claim" ELSE pc[u]
      BY <2>1 DEF SpawnWorker, TypeOK
    <3>2. spawned' = spawned + 1 /\ spawned' <= ActualWorkers /\ joined = 0
      BY <2>1, <1>2 DEF SpawnWorker, PoolOrder, TypeOK
    <3>3. UNCHANGED <<joined, exit_code>> /\ exit_code = -1
      BY <2>1, <3>2, <1>2 DEF SpawnWorker, PoolOrder, TypeOK
    <3>4. \A u \in Threads : pc'[u] = "unborn" <=> u > spawned'
      BY <3>1, <3>2 DEF PoolOrder, TypeOK, Threads
    <3>5. \A u \in Threads : u <= joined' => pc'[u] = "exited"
      BY <3>2, <3>3 DEF Threads
    <3>6. \A u \in Threads : pc'[u] = "exited" => next_job' >= NJobs
      BY <3>1, <1>1 DEF PoolOrder
    <3> QED
      BY <1>1, <1>2, <3>2, <3>3, <3>4, <3>5, <3>6 DEF PoolOrder, TypeOK
  <2>2. CASE JoinWorker
    <3>1. UNCHANGED <<pc, spawned, exit_code>>
      BY <2>2 DEF JoinWorker
    <3>2. /\ joined' = joined + 1 /\ joined < ActualWorkers
          /\ pc[joined + 1] = "exited" /\ spawned = ActualWorkers
      BY <2>2 DEF JoinWorker
    <3>3. \A u \in Threads : u <= joined' => pc'[u] = "exited"
      BY <3>1, <3>2 DEF PoolOrder, TypeOK, Threads
    <3>4. exit_code = -1
      BY <3>2, <1>2 DEF PoolOrder, TypeOK
    <3> QED
      BY <1>1, <1>2, <3>1, <3>2, <3>3, <3>4 DEF PoolOrder, TypeOK
  <2>3. CASE ReturnExitCode
    BY <2>3, <1>1 DEF ReturnExitCode, PoolOrder, pool
  <2> QED
    BY <2>1, <2>2, <2>3 DEF MainStep
<1> QED
  BY <1>4, <1>5

(***************************************************************************)
(* Types.  Only jobs in Jobs are looked up and answered because a busy     *)
(* thread holds one: the types need ClaimedOnce.                           *)
(***************************************************************************)
LEMMA WorkerStepType ==
    ASSUME IInv, NEW t \in Threads, WorkerStep(t) \/ KeyTyped(t)
    PROVE  TypeOK'
<1> USE DEF IInv, TypeOK, pool, files, terminal
<1>1. pc[t] \in Busy => idx[t] \in Jobs
  BY DEF ClaimedOnce, BusyHoldsJob
<1>2. UNCHANGED <<workers, requested, spawned, joined, exit_code>>
  BY DEF WorkerStep, ClaimJob, ResolveJob, ProbeFree, ProbeTaken,
         ProbeExhausted, SeasonOk, SaveTty, SetRaw, Hash, WaitForKey,
         KeyTyped, OpenOutput, WriteOutput, ThrowBeforeGuard,
         ThrowUnderGuard, RestoreTty, StoreResult
<1>3. CASE ClaimJob(t)
  BY <1>2, <1>3 DEF ClaimJob, Goto, Busy, BeforeGuard
<1>4. CASE ResolveJob(t)
  <2>1. pc[t] = "resolve" /\ idx[t] \in Jobs
    BY <1>1, <1>4 DEF ResolveJob, Goto, Busy, BeforeGuard
  <2>2. requested[idx[t]].name \in Names
    BY <2>1, NamesType
  <2>3. target' \in [Jobs -> Names]
    BY <2>2, <1>4 DEF ResolveJob
  <2> QED
    BY <1>2, <1>4, <2>3 DEF ResolveJob, Goto, Busy, BeforeGuard, UnderGuard
<1>5. CASE ProbeTaken(t)
  <2>1. idx[t] \in Jobs
    BY <1>1, <1>5 DEF ProbeTaken, Busy, BeforeGuard
  <2> DEFINE next == [target[idx[t]] EXCEPT !.number = @ + 1]
  <2>2. target[idx[t]] \in Names /\ target[idx[t]].number < MaxCollision
    BY <2>1, <1>5 DEF ProbeTaken
  <2>3. next \in Names
    BY <2>2, BatchAssumption DEF Names
  <2>4. target' = [target EXCEPT ![idx[t]] = next]
    BY <1>5 DEF ProbeTaken
  <2>5. target' \in [Jobs -> Names]
    BY <2>3, <2>4
  <2> QED
    BY <1>2, <1>5, <2>5 DEF ProbeTaken
<1>6. CASE ProbeFree(t) \/ ProbeExhausted(t) \/ SeasonOk(t) \/ Hash(t)
             \/ WaitForKey(t) \/ KeyTyped(t)
             \/ ThrowBeforeGuard(t) \/ ThrowUnderGuard(t)
  BY <1>2, <1>6
  DEF ProbeFree, ProbeExhausted, SeasonOk, Hash, WaitForKey, KeyTyped,
      ThrowBeforeGuard, ThrowUnderGuard, Goto, Busy, BeforeGuard, UnderGuard
<1>7. CASE SaveTty(t) \/ SetRaw(t) \/ RestoreTty(t)
  BY <1>2, <1>7
  DEF SaveTty, SetRaw, RestoreTty, Goto, Busy, BeforeGuard, UnderGuard
<1>8. CASE OpenOutput(t)
  <2>1. idx[t] \in Jobs
    BY <1>1, <1>8 DEF OpenOutput, Goto, Busy, UnderGuard
  <2> QED
    BY <1>2, <1>8, <2>1 DEF OpenOutput, Goto, Busy, BeforeGuard, UnderGuard
<1>9. CASE WriteOutput(t)
  <2>1. idx[t] \in Jobs
    BY <1>1, <1>9 DEF WriteOutput, Goto, Busy, UnderGuard
  <2> QED
    BY <1>2, <1>9, <2>1 DEF WriteOutput, Goto, Busy, BeforeGuard, UnderGuard
<1>10. CASE StoreResult(t)
  BY <1>2, <1>10 DEF StoreResult, Goto
<1> QED
  BY <1>3, <1>4, <1>5, <1>6, <1>7, <1>8, <1>9, <1>10 DEF WorkerStep

LEMMA MainStepType ==
    ASSUME IInv, MainStep
    PROVE  TypeOK'
<1> USE DEF IInv, TypeOK, pool, files, terminal
<1>1. ActualWorkers \in 0 .. MaxWorkers
  BY ActualWorkersType
<1>2. CASE SpawnWorker
  <2>1. /\ spawned' = spawned + 1 /\ spawned < ActualWorkers
        /\ pc' = [pc EXCEPT ![spawned + 1] = "claim"]
    BY <1>2 DEF SpawnWorker
  <2>2. spawned' \in 0 .. MaxWorkers
    BY <1>1, <2>1, BatchAssumption
  <2>3. pc' \in [Threads -> Busy \cup {"unborn", "claim", "exited"}]
    BY <2>1
  <2> QED
    BY <1>2, <2>2, <2>3 DEF SpawnWorker
<1>3. CASE JoinWorker
  BY <1>1, <1>3, BatchAssumption DEF JoinWorker
<1>4. CASE ReturnExitCode
  BY <1>4 DEF ReturnExitCode
<1> QED
  BY <1>2, <1>3, <1>4 DEF MainStep

LEMMA StutterKeeps ==
    ASSUME IInv, UNCHANGED vars
    PROVE  IInv'
BY DEF vars, pool, files, terminal, IInv, TypeOK, ClaimedOnce, BusyHoldsJob,
       HoldersDiffer, DrawnIsHeld, AnsweredWasDrawn, PoolOrder, ActualWorkers

LEMMA NextIInv == IInv /\ [Next]_vars => IInv'
<1> SUFFICES ASSUME IInv, [Next]_vars PROVE IInv'
  OBVIOUS
<1>1. CASE MainStep
  BY <1>1, MainStepType, MainStepKeeps DEF IInv
<1>2. ASSUME NEW t \in Threads, WorkerStep(t) \/ KeyTyped(t) PROVE IInv'
  <2>1. TypeOK'
    BY <1>2, WorkerStepType
  <2>2. ClaimedOnce' /\ PoolOrder'
    <3>1. CASE ClaimJob(t)
      BY <3>1, ClaimJobKeeps
    <3>2. CASE StoreResult(t)
      BY <3>2, StoreResultKeeps
    <3>3. CASE ~ClaimJob(t) /\ ~StoreResult(t)
      BY <1>2, <3>3, InsideJobSteps, InsideJobKeeps DEF WorkerStep
    <3> QED
      BY <3>1, <3>2, <3>3
  <2> QED
    BY <2>1, <2>2 DEF IInv
<1>3. CASE UNCHANGED vars
  BY <1>3, StutterKeeps
<1> QED
  BY <1>1, <1>2, <1>3 DEF Next, Exited

LEMMA Invariance == Spec => []IInv
BY InitIInv, NextIInv, PTL DEF Spec

\* The results vector, the thread-local indices and the collision numbers stay
\* in their ranges in every run of the pool.
THEOREM Typed == Spec => []TypeOK
BY Invariance, PTL DEF IInv

\* next_job.fetch_add hands every job to exactly one worker thread, which
\* keeps it until it has stored the result.
THEOREM JobsClaimedOnce == Spec => []ClaimedOnce
BY Invariance, PTL DEF IInv

--------------------------------------------------------------------------------
(* Refinement: the pool keeps the promises of BatchJobs.                     *)

LEMMA InitPromise == Init => Promise!Init
BY BatchAssumption DEF Init, JobState, Promise!Init, Promise!Jobs, Jobs

\* The draw of an index starts that job; a draw past the end is invisible.
LEMMA ClaimJobPromise ==
    ASSUME IInv, NEW t \in Threads, ClaimJob(t)
    PROVE  [Promise!Next]_(Promise!vars)
<1>1. /\ next_job' = next_job + 1 /\ next_job \in Nat /\ outcome' = outcome
      /\ exit_code' = exit_code
  BY DEF ClaimJob, IInv, TypeOK
<1>2. \A j \in Jobs : j \in Int
  BY DEF Jobs
<1>3. CASE next_job < NJobs
  <2>1. next_job \in Jobs /\ outcome[next_job] = "unset"
    BY <1>1, <1>3, BatchAssumption DEF IInv, ClaimedOnce, AnsweredWasDrawn, Jobs
  <2>2. JobState[next_job] = "waiting"
    BY <2>1, <1>1 DEF JobState
  <2>3. \A k \in Jobs : k < next_job => JobState[k] # "waiting"
    BY <1>1 DEF JobState, IInv, TypeOK
  <2>4. \A j \in Jobs :
          JobState'[j] = IF j = next_job THEN "running" ELSE JobState[j]
    BY <1>1, <1>2, <2>1 DEF JobState
  <2>5. JobState' = [JobState EXCEPT ![next_job] = "running"]
    BY <2>4 DEF JobState
  <2>6. Promise!Start(next_job)
    BY <1>1, <2>2, <2>3, <2>5 DEF Promise!Start, Promise!Jobs, Jobs
  <2>7. Promise!Next
    BY <2>1, <2>6 DEF Promise!Next, Promise!Jobs, Jobs
  <2> QED
    BY <2>7
<1>4. CASE ~(next_job < NJobs)
  <2>1. \A j \in Jobs : j < next_job /\ j < next_job'
    BY <1>1, <1>4, BatchAssumption DEF Jobs
  <2>2. JobState' = JobState
    BY <1>1, <2>1 DEF JobState
  <2> QED
    BY <1>1, <2>2 DEF Promise!vars
<1> QED
  BY <1>3, <1>4

\* Storing the result ends the job the thread holds.
LEMMA StoreResultPromise ==
    ASSUME IInv, NEW t \in Threads, StoreResult(t)
    PROVE  Promise!Next
<1> DEFINE result == IF verdict[t] THEN "ok" ELSE "failed"
<1>1. /\ next_job' = next_job /\ exit_code' = exit_code
      /\ outcome' = [outcome EXCEPT ![idx[t]] = result]
  BY DEF StoreResult, pool
<1>2. /\ idx[t] \in Jobs /\ idx[t] < next_job /\ outcome[idx[t]] = "unset"
  BY DEF StoreResult, Goto, Busy, IInv, ClaimedOnce, BusyHoldsJob
<1>3. JobState[idx[t]] = "running"
  BY <1>2 DEF JobState
<1>4. \A j \in Jobs : JobState'[j] = IF j = idx[t] THEN result ELSE JobState[j]
  BY <1>1, <1>2 DEF JobState, IInv, TypeOK
<1>5. JobState' = [JobState EXCEPT ![idx[t]] = result]
  BY <1>4 DEF JobState
<1>6. result \in Promise!Ended
  BY DEF Promise!Ended
<1>7. Promise!Finish(idx[t])
  BY <1>1, <1>3, <1>5, <1>6 DEF Promise!Finish
<1> QED
  BY <1>2, <1>7 DEF Promise!Next, Promise!Jobs, Jobs

\* When the last thread has been joined every job has been answered.
LEMMA ReturnExitCodePromise ==
    ASSUME IInv, ReturnExitCode
    PROVE  Promise!Next
<1> USE DEF IInv
<1>1. \A t \in Threads : pc[t] \in {"exited", "unborn"}
  BY DEF ReturnExitCode, PoolOrder, TypeOK, Threads
<1>2. ASSUME NEW j \in Jobs PROVE outcome[j] # "unset"
  <2>1. ActualWorkers > 0 /\ ActualWorkers \in 0 .. MaxWorkers /\ j < NJobs
    BY ActualWorkersPositive, ActualWorkersType, BatchAssumption DEF TypeOK, Jobs
  <2>2. 1 \in Threads /\ pc[1] = "exited"
    BY <2>1, BatchAssumption DEF ReturnExitCode, PoolOrder, Threads
  <2>3. j < next_job
    BY <2>1, <2>2, BatchAssumption DEF PoolOrder, TypeOK, Jobs
  <2>4. \A t \in Threads : pc[t] \notin Busy
    BY <1>1 DEF Busy, BeforeGuard, UnderGuard
  <2> QED
    BY <2>3, <2>4 DEF ClaimedOnce, DrawnIsHeld
<1>3. \A j \in Jobs : /\ JobState[j] = outcome[j]
                      /\ outcome[j] \in {"ok", "failed"}
  BY <1>2 DEF JobState, TypeOK
<1>4. JobState' = JobState
  BY DEF ReturnExitCode, JobState, pool
<1>5. exit_code = -1
      /\ exit_code' = IF \E j \in Jobs : JobState[j] = "failed" THEN 1 ELSE 0
  BY <1>3 DEF ReturnExitCode
<1>6. Promise!Report
  BY <1>3, <1>4, <1>5
  DEF Promise!Report, Promise!Jobs, Jobs, Promise!Ended
<1> QED
  BY <1>6 DEF Promise!Next

LEMMA HiddenStep ==
    ASSUME UNCHANGED <<next_job, outcome, exit_code>>
    PROVE  UNCHANGED Promise!vars
BY DEF Promise!vars, JobState

LEMMA NextPromise == IInv /\ [Next]_vars => [Promise!Next]_(Promise!vars)
<1> SUFFICES ASSUME IInv, [Next]_vars PROVE [Promise!Next]_(Promise!vars)
  OBVIOUS
<1>1. ASSUME NEW t \in Threads, WorkerStep(t) \/ KeyTyped(t)
      PROVE  [Promise!Next]_(Promise!vars)
  <2>1. CASE ClaimJob(t)
    BY <2>1, ClaimJobPromise
  <2>2. CASE StoreResult(t)
    BY <2>2, StoreResultPromise
  <2>3. CASE ~ClaimJob(t) /\ ~StoreResult(t)
    <3>1. InsideJob(t)
      BY <1>1, <2>3, InsideJobSteps DEF WorkerStep
    <3> QED
      BY <3>1, HiddenStep DEF InsideJob, pool
  <2> QED
    BY <2>1, <2>2, <2>3
<1>2. CASE SpawnWorker \/ JoinWorker
  BY <1>2, HiddenStep DEF SpawnWorker, JoinWorker
<1>3. CASE ReturnExitCode
  BY <1>3, ReturnExitCodePromise
<1>4. CASE UNCHANGED vars
  BY <1>4, HiddenStep DEF vars, pool
<1> QED
  BY <1>1, <1>2, <1>3, <1>4 DEF Next, MainStep, Exited

\* The worker threads implement the abstract batch: jobs start once and in
\* order, failures stay with their job, and the exit code is computed from
\* complete results, for every number of jobs, workers and hardware threads.
THEOREM PoolKeepsPromise == Spec => Implements
<1>1. Spec => Promise!Init /\ [][Promise!Next]_(Promise!vars)
  BY Invariance, InitPromise, NextPromise, PTL DEF Spec
<1> QED
  BY <1>1 DEF Implements, Promise!Spec
--------------------------------------------------------------------------------
(***************************************************************************)
(* The terminal of a single worker.  Guards cannot overlap, so that each   *)
(* saves a mode that is not raw, and restores it before its job is         *)
(* answered: raw mode never outlives the job that set it.                  *)
(***************************************************************************)
GuardSaved == {"set_raw", "hash", "wait_key", "open", "write", "restore"}
MayBeRaw   == GuardSaved \ {"set_raw"}

SavedIsTidy == \A t \in Threads : pc[t] \in GuardSaved => saved[t] # "raw"

RawIsGuarded == tty = "raw" => \E t \in Threads : pc[t] \in MayBeRaw

TidyAlone == workers = 1 => SavedIsTidy /\ RawIsGuarded

LEMMA OnlyOneRuns ==
    ASSUME IInv, workers = 1,
           NEW t \in Threads, pc[t] # "unborn", NEW u \in Threads, pc[u] # "unborn"
    PROVE  t = u
<1>1. ActualWorkers <= 1
  BY BatchAssumption DEF ActualWorkers
<1>2. spawned <= 1
  BY <1>1, ActualWorkersType DEF IInv, PoolOrder, TypeOK
<1>3. t <= spawned /\ u <= spawned
  BY DEF IInv, PoolOrder, TypeOK, Threads
<1> QED
  BY <1>2, <1>3 DEF IInv, TypeOK, Threads

LEMMA TidyInit == Init => TidyAlone
BY BatchAssumption
DEF Init, TidyAlone, SavedIsTidy, RawIsGuarded, GuardSaved

\* A step of the worker that leaves the terminal and what was saved alone, and
\* does not leave the guard.
LEMMA GuardStands ==
    ASSUME IInv, TidyAlone, NEW t \in Threads,
           UNCHANGED <<workers, tty, saved>>,
           NEW to, pc' = [pc EXCEPT ![t] = to],
           to \in GuardSaved => pc[t] \in GuardSaved,
           pc[t] \in MayBeRaw => to \in MayBeRaw
    PROVE  TidyAlone'
<1>1. /\ pc'[t] = to
      /\ \A u \in Threads \ {t} : pc'[u] = pc[u]
  BY DEF IInv, TypeOK
<1>2. workers = 1 => SavedIsTidy'
  BY <1>1 DEF TidyAlone, SavedIsTidy
<1>3. workers = 1 => RawIsGuarded'
  BY <1>1 DEF TidyAlone, RawIsGuarded
<1> QED
  BY <1>2, <1>3 DEF TidyAlone

LEMMA TidyWorkerStep ==
    ASSUME IInv, TidyAlone, NEW t \in Threads, WorkerStep(t) \/ KeyTyped(t)
    PROVE  TidyAlone'
<1> USE DEF Goto, terminal, GuardSaved, MayBeRaw
<1>1. CASE ClaimJob(t)
  BY <1>1, GuardStands DEF ClaimJob
<1>2. CASE ResolveJob(t)
  BY <1>2, GuardStands DEF ResolveJob
<1>3. CASE ProbeTaken(t)
  <2>1. pc' = [pc EXCEPT ![t] = pc[t]]
    BY <1>3 DEF ProbeTaken, IInv, TypeOK
  <2> QED
    BY <1>3, <2>1, GuardStands DEF ProbeTaken
<1>4. CASE ProbeFree(t) \/ ProbeExhausted(t) \/ SeasonOk(t)
  BY <1>4, GuardStands DEF ProbeFree, ProbeExhausted, SeasonOk
<1>5. CASE SaveTty(t)
  <2>1. /\ UNCHANGED <<workers, tty>> /\ pc[t] = "save_tty"
        /\ pc' = [pc EXCEPT ![t] = "set_raw"] /\ saved' = [saved EXCEPT ![t] = tty]
    BY <1>5 DEF SaveTty
  <2> SUFFICES ASSUME workers = 1
               PROVE  (SavedIsTidy /\ RawIsGuarded)'
    BY <2>1 DEF TidyAlone
  <2>2. \A u \in Threads : pc[u] \in MayBeRaw => u = t
    BY <2>1, OnlyOneRuns
  <2>3. tty # "raw"
    BY <2>1, <2>2 DEF TidyAlone, RawIsGuarded
  <2>4. SavedIsTidy'
    BY <2>1, <2>3 DEF TidyAlone, SavedIsTidy, IInv, TypeOK
  <2> QED
    BY <2>1, <2>3, <2>4 DEF RawIsGuarded
<1>6. CASE SetRaw(t)
  <2>1. /\ UNCHANGED <<workers, saved>> /\ pc[t] = "set_raw"
        /\ pc' = [pc EXCEPT ![t] = "hash"]
    BY <1>6 DEF SetRaw
  <2>2. pc'[t] = "hash"
    BY <2>1 DEF IInv, TypeOK
  <2>3. workers = 1 => SavedIsTidy'
    BY <2>1 DEF TidyAlone, SavedIsTidy, IInv, TypeOK
  <2> QED
    BY <2>1, <2>2, <2>3 DEF TidyAlone, RawIsGuarded
<1>7. CASE Hash(t) \/ WaitForKey(t) \/ KeyTyped(t)
  BY <1>7, GuardStands DEF Hash, WaitForKey, KeyTyped
<1>8. CASE OpenOutput(t)
  BY <1>8, GuardStands DEF OpenOutput
<1>9. CASE WriteOutput(t)
  BY <1>9, GuardStands DEF WriteOutput
<1>10. CASE ThrowBeforeGuard(t)
  BY <1>10, GuardStands DEF ThrowBeforeGuard
<1>11. CASE ThrowUnderGuard(t)
  BY <1>11, GuardStands DEF ThrowUnderGuard
<1>12. CASE RestoreTty(t)
  <2>1. /\ UNCHANGED <<workers, saved>> /\ pc[t] = "restore"
        /\ pc' = [pc EXCEPT ![t] = "store"] /\ tty' = saved[t]
    BY <1>12 DEF RestoreTty
  <2> SUFFICES ASSUME workers = 1
               PROVE  (SavedIsTidy /\ RawIsGuarded)'
    BY <2>1 DEF TidyAlone
  <2>2. tty' # "raw"
    BY <2>1 DEF TidyAlone, SavedIsTidy
  <2>3. SavedIsTidy'
    BY <2>1 DEF TidyAlone, SavedIsTidy, IInv, TypeOK
  <2> QED
    BY <2>2, <2>3 DEF RawIsGuarded
<1>13. CASE StoreResult(t)
  BY <1>13, GuardStands DEF StoreResult
<1> QED
  BY <1>1, <1>2, <1>3, <1>4, <1>5, <1>6, <1>7, <1>8, <1>9, <1>10, <1>11,
     <1>12, <1>13 DEF WorkerStep

LEMMA TidyNext == IInv /\ TidyAlone /\ [Next]_vars => TidyAlone'
<1> SUFFICES ASSUME IInv, TidyAlone, [Next]_vars
             PROVE  TidyAlone'
  OBVIOUS
<1>1. ASSUME NEW t \in Threads, WorkerStep(t) \/ KeyTyped(t)
      PROVE  TidyAlone'
  BY <1>1, TidyWorkerStep
<1>2. CASE SpawnWorker
  <2>1. ActualWorkers \in 0 .. MaxWorkers
    BY ActualWorkersType DEF IInv, TypeOK
  <2>2. spawned + 1 \in Threads
    BY <1>2, <2>1, BatchAssumption DEF SpawnWorker, Threads, IInv, TypeOK
  <2>3. pc[spawned + 1] = "unborn"
    BY <2>2 DEF IInv, PoolOrder, TypeOK
  <2> QED
    BY <1>2, <2>2, <2>3, GuardStands
    DEF SpawnWorker, terminal, GuardSaved, MayBeRaw
<1>3. CASE JoinWorker \/ ReturnExitCode \/ UNCHANGED vars
  BY <1>3
  DEF JoinWorker, ReturnExitCode, vars, terminal, TidyAlone, SavedIsTidy,
      RawIsGuarded
<1> QED
  BY <1>1, <1>2, <1>3 DEF Next, MainStep, Exited

\* With one worker, the command never returns with the terminal in raw mode.
THEOREM TerminalIsRestored == Spec => []TerminalRestoredSerial
<1>1. Init => IInv /\ TidyAlone
  BY InitIInv, TidyInit
<1>2. IInv /\ TidyAlone /\ [Next]_vars => (IInv /\ TidyAlone)'
  BY NextIInv, TidyNext
<1>3. IInv /\ TidyAlone => TerminalRestoredSerial
  <2> SUFFICES ASSUME IInv, TidyAlone, workers = 1, exit_code # -1
               PROVE  tty # "raw"
    BY DEF TerminalRestoredSerial
  <2>1. joined = ActualWorkers /\ joined = spawned
    BY ActualWorkersType DEF IInv, PoolOrder, TypeOK
  <2>2. \A t \in Threads : pc[t] \in {"unborn", "exited"}
    BY <2>1 DEF IInv, PoolOrder, TypeOK, Threads
  <2> QED
    BY <2>2 DEF TidyAlone, RawIsGuarded, MayBeRaw, GuardSaved
<1> QED
  BY <1>1, <1>2, <1>3, PTL DEF Spec
--------------------------------------------------------------------------------
(***************************************************************************)
(* The output files.  Until a job has left "probe" its target may still    *)
(* move, so that what is known of a file speaks of settled jobs only: all  *)
(* its authors are settled on it; the job that wrote it last is among      *)
(* them, or another job that is settled on it has truncated it since.      *)
(* Under one worker an automatic job opens a file nobody has.              *)
(***************************************************************************)
Settled(k) ==
    \/ outcome[k] # "unset"
    \/ \E t \in Threads : idx[t] = k /\ pc[t] \in Busy \ {"resolve", "probe"}

Written(j) ==
    \/ outcome[j] = "ok"
    \/ \E t \in Threads : idx[t] = j /\ pc[t] \in Busy /\ verdict[t]

\* What DistinctOutputsIntact allows to share an output.
Harmless(k) == workers = 1 /\ requested[k].auto

Choosing == {"season", "save_tty", "set_raw", "hash", "wait_key", "open"}

VerdictIsLate ==
    \A t \in Threads :
        pc[t] \in Busy /\ verdict[t] => pc[t] \in {"restore", "store"}

AuthorsSettled ==
    \A n \in Names : \A k \in authors[n] \ {Old} : Settled(k) /\ target[k] = n

\* j's file once it has been opened for j.
Stands(j) ==
    /\ target[j] \in present
    /\ Old \notin authors[target[j]]
    /\ \A k \in authors[target[j]] \ {j} : ~Harmless(k)

Replaced(j) ==
    \E k \in Jobs \ {j} : Settled(k) /\ target[k] = target[j] /\ ~Harmless(k)

OpenStand == \A t \in Threads : pc[t] = "write" => Stands(idx[t])

WrittenStand ==
    \A j \in Jobs :
        Written(j) => Stands(j) /\ (j \in authors[target[j]] \/ Replaced(j))

AutoAlone ==
    \A t \in Threads :
        /\ pc[t] \in Choosing /\ Harmless(idx[t]) => target[idx[t]] \notin present
        /\ pc[t] = "write" /\ Harmless(idx[t]) =>
               \A j \in Jobs \ {idx[t]} : Written(j) => target[j] # target[idx[t]]

OutputInv ==
    VerdictIsLate /\ AuthorsSettled /\ OpenStand /\ WrittenStand /\ AutoAlone

LEMMA OutputInit == Init => OutputInv
<1> SUFFICES ASSUME Init PROVE OutputInv
  OBVIOUS
<1>1. \A t \in Threads : pc[t] = "unborn" /\ ~verdict[t]
  BY DEF Init
<1>2. \A j \in Jobs : ~Written(j)
  BY <1>1 DEF Init, Written
<1>3. \A n \in Names : authors[n] \ {Old} = {}
  BY DEF Init
<1> QED
  BY <1>1, <1>2, <1>3
  DEF OutputInv, VerdictIsLate, AuthorsSettled, OpenStand, WrittenStand,
      AutoAlone, Choosing

LEMMA JobHeld ==
    ASSUME IInv, NEW t \in Threads, pc[t] \in Busy
    PROVE  /\ idx[t] \in Jobs /\ outcome[idx[t]] = "unset"
           /\ target[idx[t]] \in Names
           /\ \A u \in Threads : pc[u] \in Busy /\ idx[u] = idx[t] => u = t
BY DEF IInv, TypeOK, ClaimedOnce, BusyHoldsJob, HoldersDiffer

\* A settled job keeps its target: only its holder moves it, before it settles.
LEMMA HolderUnsettled ==
    ASSUME IInv, NEW t \in Threads, pc[t] \in {"resolve", "probe"}
    PROVE  ~Settled(idx[t])
<1>1. pc[t] \in Busy
  BY DEF Busy, BeforeGuard
<1> QED
  BY <1>1, JobHeld DEF Settled

LEMMA WrittenSettled ==
    ASSUME OutputInv, NEW j, Written(j)
    PROVE  Settled(j)
BY DEF Written, Settled, OutputInv, VerdictIsLate

\* A step that leaves files and targets alone: what has to be shown of the
\* threads.
LEMMA FilesUntouched ==
    ASSUME IInv, OutputInv, UNCHANGED <<workers, requested, files>>,
           VerdictIsLate',
           \A k \in Jobs : Settled(k) => Settled(k)',
           \A j \in Jobs : Written(j)' => Written(j),
           \A u \in Threads :
               pc'[u] = "write" => pc[u] = "write" /\ idx'[u] = idx[u],
           \A u \in Threads :
               pc'[u] \in Choosing /\ Harmless(idx'[u])
                 => target[idx'[u]] \notin present
    PROVE  OutputInv'
<1> USE DEF OutputInv, files
<1>1. AuthorsSettled'
  <2>1. \A n \in Names : authors[n] \ {Old} \subseteq Jobs
    BY DEF IInv, TypeOK
  <2> QED
    BY <2>1 DEF AuthorsSettled
<1>2. \A k : Harmless(k)' <=> Harmless(k)
  BY DEF Harmless
<1>3. \A j : Stands(j)' <=> Stands(j)
  BY <1>2 DEF Stands
<1>4. OpenStand'
  BY <1>3 DEF OpenStand
<1>5. \A j : Replaced(j) => Replaced(j)'
  BY <1>2 DEF Replaced
<1>6. WrittenStand'
  BY <1>3, <1>5 DEF WrittenStand
<1>7. AutoAlone'
  BY <1>2 DEF AutoAlone
<1> QED
  BY <1>1, <1>4, <1>6, <1>7

\* The steps inside execute_job that leave files and targets alone.
LEMMA OutputKeptInside ==
    ASSUME IInv, OutputInv, NEW t \in Threads, NEW to \in Busy,
           pc[t] \in Busy, pc' = [pc EXCEPT ![t] = to],
           UNCHANGED <<workers, requested, idx, verdict, outcome, files>>,
           to \notin {"write", "resolve", "probe"},
           pc[t] \in {"restore", "store"} => to \in {"restore", "store"},
           to \in Choosing => pc[t] \in Choosing \/ target[idx[t]] \notin present
    PROVE  OutputInv'
<1>1. /\ pc'[t] = to
      /\ \A u \in Threads \ {t} : pc'[u] = pc[u]
  BY DEF IInv, TypeOK
<1>2. VerdictIsLate'
  BY <1>1 DEF OutputInv, VerdictIsLate
<1>3. \A k \in Jobs : Settled(k) => Settled(k)'
  BY <1>1 DEF Settled
<1>4. \A j \in Jobs : Written(j)' => Written(j)
  BY <1>1 DEF Written
<1>5. \A u \in Threads : pc'[u] \in Choosing /\ Harmless(idx'[u])
                           => target[idx'[u]] \notin present
  BY <1>1 DEF OutputInv, AutoAlone
<1> QED
  BY <1>1, <1>2, <1>3, <1>4, <1>5, FilesUntouched

LEMMA ClaimJobOutput ==
    ASSUME IInv, OutputInv, NEW t \in Threads, ClaimJob(t)
    PROVE  OutputInv'
<1>1. /\ pc[t] = "claim" /\ pc[t] \notin Busy
      /\ pc'[t] \in {"resolve", "exited"} /\ ~verdict'[t]
      /\ \A u \in Threads \ {t} :
             pc'[u] = pc[u] /\ idx'[u] = idx[u] /\ verdict'[u] = verdict[u]
      /\ UNCHANGED <<workers, requested, outcome, files>>
  BY DEF ClaimJob, Goto, IInv, TypeOK, Busy, BeforeGuard, UnderGuard
<1>2. VerdictIsLate'
  BY <1>1 DEF OutputInv, VerdictIsLate
<1>3. \A k \in Jobs : Settled(k) => Settled(k)'
  BY <1>1 DEF Settled
<1>4. \A j \in Jobs : Written(j)' => Written(j)
  BY <1>1 DEF Written
<1>5. \A u \in Threads : pc'[u] \in Choosing /\ Harmless(idx'[u])
                           => target[idx'[u]] \notin present
  BY <1>1 DEF OutputInv, AutoAlone, Choosing
<1> QED
  BY <1>1, <1>2, <1>3, <1>4, <1>5, FilesUntouched

LEMMA StoreResultOutput ==
    ASSUME IInv, OutputInv, NEW t \in Threads, StoreResult(t)
    PROVE  OutputInv'
<1> DEFINE result == IF verdict[t] THEN "ok" ELSE "failed"
<1>1. /\ pc[t] = "store" /\ pc[t] \in Busy /\ pc'[t] = "claim"
      /\ "claim" \notin Busy /\ "claim" \notin Choosing
      /\ \A u \in Threads \ {t} : pc'[u] = pc[u]
      /\ UNCHANGED <<workers, requested, idx, verdict, files>>
  BY DEF StoreResult, Goto, pool, IInv, TypeOK, Busy, BeforeGuard, UnderGuard,
         Choosing
<1>2. idx[t] \in Jobs
  BY <1>1, JobHeld
<1>3. /\ outcome'[idx[t]] = result
      /\ \A j \in Jobs \ {idx[t]} : outcome'[j] = outcome[j]
  BY <1>2 DEF StoreResult, IInv, TypeOK
<1>4. VerdictIsLate'
  BY <1>1 DEF OutputInv, VerdictIsLate
<1>5. \A k \in Jobs : Settled(k) => Settled(k)'
  BY <1>1, <1>3 DEF Settled
<1>6. \A j \in Jobs : Written(j)' => Written(j)
  BY <1>1, <1>3 DEF Written
<1>7. \A u \in Threads : pc'[u] \in Choosing /\ Harmless(idx'[u])
                           => target[idx'[u]] \notin present
  BY <1>1 DEF OutputInv, AutoAlone
<1> QED
  BY <1>1, <1>4, <1>5, <1>6, <1>7, FilesUntouched

\* The search for a name moves the target of a job that is not settled.
LEMMA SearchOutput ==
    ASSUME IInv, OutputInv, NEW t \in Threads, ResolveJob(t) \/ ProbeTaken(t)
    PROVE  OutputInv'
<1> DEFINE k == idx[t]
<1>1. /\ pc[t] \in {"resolve", "probe"} /\ pc[t] \in Busy
      /\ pc'[t] \in {"probe", "season"}
      /\ pc'[t] = "season" => ~requested[k].auto
      /\ \A u \in Threads \ {t} : pc'[u] = pc[u]
      /\ UNCHANGED <<workers, requested, idx, verdict, outcome, present, authors>>
  BY DEF ResolveJob, ProbeTaken, Goto, pool, IInv, TypeOK, Busy, BeforeGuard
<1>2. \A j \in Jobs \ {k} : target'[j] = target[j]
  BY DEF ResolveJob, ProbeTaken, IInv, TypeOK
<1>3. ~Settled(k) /\ ~Written(k)
  BY <1>1, HolderUnsettled, WrittenSettled
<1>4. VerdictIsLate' /\ ~verdict[t]
  BY <1>1 DEF OutputInv, VerdictIsLate
<1>5. \A j \in Jobs : Settled(j) => Settled(j)' /\ target'[j] = target[j]
  BY <1>1, <1>2, <1>3 DEF Settled
<1>6. \A j \in Jobs : Written(j)' => Written(j) /\ target'[j] = target[j]
  BY <1>1, <1>2, <1>3, <1>4 DEF Written
<1>7. \A j : Harmless(j)' <=> Harmless(j)
  BY <1>1 DEF Harmless
<1>8. \A u \in Threads : pc'[u] \in Busy /\ u # t =>
          idx[u] \in Jobs /\ idx[u] # k /\ target'[idx[u]] = target[idx[u]]
  BY <1>1, <1>2, JobHeld
<1>9. AuthorsSettled'
  <2>1. \A n \in Names : authors[n] \ {Old} \subseteq Jobs
    BY DEF IInv, TypeOK
  <2> QED
    BY <2>1, <1>1, <1>5 DEF OutputInv, AuthorsSettled
<1>10. \A j \in Jobs : Stands(j) /\ target'[j] = target[j] => Stands(j)'
  BY <1>1, <1>7 DEF Stands
<1>11. OpenStand'
  <2>1. \A u \in Threads : pc'[u] = "write" =>
            u # t /\ pc[u] = "write" /\ pc'[u] \in Busy
    BY <1>1 DEF Busy, UnderGuard
  <2> QED
    BY <2>1, <1>1, <1>8, <1>10 DEF OutputInv, OpenStand
<1>12. \A j \in Jobs : Replaced(j) /\ target'[j] = target[j] => Replaced(j)'
  BY <1>5, <1>7 DEF Replaced
<1>13. WrittenStand'
  BY <1>1, <1>6, <1>10, <1>12 DEF OutputInv, WrittenStand
<1>14. AutoAlone'
  <2>1. \A u \in Threads :
            pc'[u] \in Choosing \/ pc'[u] = "write" => pc'[u] \in Busy
    BY DEF Choosing, Busy, BeforeGuard, UnderGuard
  <2>2. ASSUME NEW u \in Threads, pc'[u] \in Choosing, Harmless(idx[u])
        PROVE  target'[idx[u]] \notin present
    <3>1. CASE u = t
      BY <3>1, <2>2, <1>1 DEF Harmless, Choosing
    <3>2. CASE u # t
      BY <3>2, <2>1, <2>2, <1>1, <1>8 DEF OutputInv, AutoAlone
    <3> QED
      BY <3>1, <3>2
  <2>3. ASSUME NEW u \in Threads, pc'[u] = "write", Harmless(idx[u]),
               NEW j \in Jobs \ {idx[u]}, Written(j)'
        PROVE  target'[j] # target'[idx[u]]
    <3>1. u # t /\ pc[u] = "write"
      BY <2>3, <1>1
    <3> QED
      BY <3>1, <2>1, <2>3, <1>6, <1>8 DEF OutputInv, AutoAlone
  <2> QED
    BY <2>2, <2>3, <1>1, <1>7 DEF AutoAlone
<1> QED
  BY <1>4, <1>9, <1>11, <1>13, <1>14 DEF OutputInv

\* The file is truncated: whoever had it before has been replaced by a job that
\* is settled on it, which under one worker is not an automatic one.
LEMMA OpenOutputOutput ==
    ASSUME IInv, OutputInv, NEW t \in Threads, OpenOutput(t)
    PROVE  OutputInv'
<1> DEFINE k == idx[t]
           n == target[k]
<1>1. /\ pc[t] = "open" /\ pc[t] \in Busy /\ pc'[t] = "write"
      /\ "write" \in Busy /\ "write" \notin Choosing
      /\ \A u \in Threads \ {t} : pc'[u] = pc[u]
      /\ UNCHANGED <<workers, requested, idx, verdict, outcome, target>>
      /\ present' = present \cup {n}
  BY DEF OpenOutput, Goto, pool, IInv, TypeOK, Busy, BeforeGuard, UnderGuard,
         Choosing
<1>2. k \in Jobs /\ n \in Names
  BY <1>1, JobHeld
<1>3. /\ authors'[n] = {}
      /\ \A m \in Names \ {n} : authors'[m] = authors[m]
  BY <1>2 DEF OpenOutput, IInv, TypeOK
<1>4. VerdictIsLate' /\ ~verdict[t]
  BY <1>1 DEF OutputInv, VerdictIsLate
<1>5. \A j \in Jobs : Settled(j) => Settled(j)'
  BY <1>1 DEF Settled
<1>6. Settled(k)'
  BY <1>1 DEF Settled
<1>7. \A j \in Jobs : Written(j)' => Written(j) /\ j # k
  BY <1>1, <1>2, <1>4, JobHeld DEF Written
<1>8. \A j : Harmless(j)' <=> Harmless(j)
  BY <1>1 DEF Harmless
<1>9. AuthorsSettled'
  <2>1. \A m \in Names : authors[m] \ {Old} \subseteq Jobs
    BY DEF IInv, TypeOK
  <2> QED
    BY <2>1, <1>1, <1>3, <1>5 DEF OutputInv, AuthorsSettled
<1>10. \A j \in Jobs : target[j] = n \/ Stands(j) => Stands(j)'
  <2>1. \A j \in Jobs : target[j] \in Names
    BY DEF IInv, TypeOK
  <2> QED
    BY <2>1, <1>1, <1>3, <1>8 DEF Stands
<1>11. OpenStand'
  <2>1. \A u \in Threads : pc[u] = "write" => idx[u] \in Jobs
    BY <1>1, JobHeld
  <2> QED
    BY <2>1, <1>1, <1>2, <1>10 DEF OutputInv, OpenStand
<1>12. WrittenStand'
  <2> SUFFICES ASSUME NEW j \in Jobs, Written(j), j # k
               PROVE  /\ Stands(j)'
                      /\ j \in authors'[target[j]] \/ Replaced(j)'
    BY <1>1, <1>7 DEF WrittenStand
  <2>1. Stands(j) /\ (j \in authors[target[j]] \/ Replaced(j))
    BY DEF OutputInv, WrittenStand
  <2>2. target[j] = n => ~Harmless(k)
    BY <2>1, <1>1 DEF OutputInv, AutoAlone, Choosing, Stands
  <2>3. CASE target[j] = n
    BY <2>2, <2>3, <1>1, <1>2, <1>6, <1>8, <1>10 DEF Replaced
  <2>4. CASE target[j] # n
    <3>1. Replaced(j) => Replaced(j)'
      BY <1>1, <1>5, <1>8 DEF Replaced
    <3>2. authors'[target[j]] = authors[target[j]]
      BY <2>4, <1>3 DEF IInv, TypeOK
    <3> QED
      BY <2>1, <3>1, <3>2, <1>10
  <2> QED
    BY <2>3, <2>4
<1>13. AutoAlone'
  <2>1. ASSUME NEW u \in Threads, pc'[u] \in Choosing, Harmless(idx[u])
        PROVE  target[idx[u]] \notin present'
    <3>1. u # t /\ pc[u] # "unborn" /\ pc[t] # "unborn" /\ workers = 1
      BY <2>1, <1>1 DEF Harmless, Choosing
    <3> QED
      BY <3>1, OnlyOneRuns
  <2>2. ASSUME NEW u \in Threads, pc'[u] = "write", Harmless(idx[u]),
               NEW j \in Jobs \ {idx[u]}, Written(j)'
        PROVE  target[j] # target[idx[u]]
    <3>1. CASE u = t
      <4>1. target[k] \notin present
        BY <3>1, <2>2, <1>1 DEF OutputInv, AutoAlone, Choosing
      <4>2. target[j] \in present
        BY <2>2, <1>7 DEF OutputInv, WrittenStand, Stands
      <4> QED
        BY <3>1, <4>1, <4>2
    <3>2. CASE u # t
      BY <3>2, <2>2, <1>1, <1>7 DEF OutputInv, AutoAlone
    <3> QED
      BY <3>1, <3>2
  <2> QED
    BY <2>1, <2>2, <1>1, <1>8 DEF AutoAlone
<1> QED
  BY <1>4, <1>9, <1>11, <1>12, <1>13 DEF OutputInv

LEMMA WriteOutputOutput ==
    ASSUME IInv, OutputInv, NEW t \in Threads, WriteOutput(t)
    PROVE  OutputInv'
<1> DEFINE k == idx[t]
           n == target[k]
<1>1. /\ pc[t] = "write" /\ pc[t] \in Busy /\ pc'[t] = "restore"
      /\ "restore" \in Busy /\ "restore" \notin Choosing /\ verdict'[t]
      /\ \A u \in Threads \ {t} : pc'[u] = pc[u] /\ verdict'[u] = verdict[u]
      /\ UNCHANGED <<workers, requested, idx, outcome, target, present>>
  BY DEF WriteOutput, Goto, pool, IInv, TypeOK, Busy, BeforeGuard, UnderGuard,
         Choosing
<1>2. k \in Jobs /\ n \in Names
  BY <1>1, JobHeld
<1>3. /\ authors'[n] = authors[n] \cup {k}
      /\ \A m \in Names \ {n} : authors'[m] = authors[m]
  BY <1>2 DEF WriteOutput, IInv, TypeOK
<1>4. VerdictIsLate'
  BY <1>1 DEF OutputInv, VerdictIsLate
<1>5. \A j \in Jobs : Settled(j) => Settled(j)'
  BY <1>1 DEF Settled
<1>6. Settled(k)'
  BY <1>1 DEF Settled
<1>7. \A j \in Jobs \ {k} : Written(j)' => Written(j)
  BY <1>1 DEF Written
<1>8. \A j : Harmless(j)' <=> Harmless(j)
  BY <1>1 DEF Harmless
<1>9. k # Old
  BY <1>2, BatchAssumption DEF Jobs, Old
<1>10. AuthorsSettled'
  <2>1. \A m \in Names : authors[m] \ {Old} \subseteq Jobs
    BY DEF IInv, TypeOK
  <2> QED
    BY <2>1, <1>1, <1>3, <1>5, <1>6 DEF OutputInv, AuthorsSettled
<1>11. \A j \in Jobs :
           Stands(j) /\ (target[j] = n => j = k \/ ~Harmless(k)) => Stands(j)'
  <2>1. \A j \in Jobs : target[j] \in Names
    BY DEF IInv, TypeOK
  <2> QED
    BY <2>1, <1>1, <1>3, <1>8, <1>9 DEF Stands
<1>12. OpenStand'
  <2> SUFFICES ASSUME NEW u \in Threads, pc'[u] = "write"
               PROVE  Stands(idx[u])'
    BY <1>1 DEF OpenStand
  <2>1. u # t /\ pc[u] = "write" /\ pc[u] # "unborn" /\ pc[t] # "unborn"
    BY <1>1
  <2>2. idx[u] \in Jobs /\ Stands(idx[u])
    BY <2>1, <1>1, JobHeld DEF OutputInv, OpenStand
  <2>3. ~Harmless(k)
    BY <2>1, OnlyOneRuns DEF Harmless
  <2> QED
    BY <2>2, <2>3, <1>1, <1>11 DEF Stands
<1>13. WrittenStand'
  <2> SUFFICES ASSUME NEW j \in Jobs, Written(j)'
               PROVE  /\ Stands(j)'
                      /\ j \in authors'[target[j]] \/ Replaced(j)'
    BY <1>1 DEF WrittenStand
  <2>1. CASE j = k
    BY <2>1, <1>1, <1>3, <1>11 DEF OutputInv, OpenStand
  <2>2. CASE j # k
    <3>1. /\ Written(j) /\ Stands(j)
          /\ j \in authors[target[j]] \/ Replaced(j)
      BY <2>2, <1>7 DEF OutputInv, WrittenStand
    <3>2. target[j] = n => ~Harmless(k)
      BY <2>2, <3>1, <1>1 DEF OutputInv, AutoAlone
    <3>3. Replaced(j) => Replaced(j)'
      BY <1>1, <1>5, <1>8 DEF Replaced
    <3>4. authors[target[j]] \subseteq authors'[target[j]]
      BY <1>3 DEF IInv, TypeOK
    <3> QED
      BY <3>1, <3>2, <3>3, <3>4, <1>11
  <2> QED
    BY <2>1, <2>2
<1>14. AutoAlone'
  <2>1. ASSUME NEW u \in Threads, pc'[u] \in Choosing, Harmless(idx[u])
        PROVE  target[idx[u]] \notin present
    BY <2>1, <1>1 DEF OutputInv, AutoAlone
  <2>2. ASSUME NEW u \in Threads, pc'[u] = "write"
        PROVE  ~Harmless(idx[u])
    <3>1. u # t /\ pc[u] # "unborn" /\ pc[t] # "unborn"
      BY <2>2, <1>1
    <3> QED
      BY <3>1, OnlyOneRuns DEF Harmless
  <2> QED
    BY <2>1, <2>2, <1>1, <1>8 DEF AutoAlone
<1> QED
  BY <1>4, <1>10, <1>12, <1>13, <1>14 DEF OutputInv

LEMMA OutputWorkerStep ==
    ASSUME IInv, OutputInv, NEW t \in Threads, WorkerStep(t) \/ KeyTyped(t)
    PROVE  OutputInv'
<1> USE DEF Goto, pool, Busy, BeforeGuard, UnderGuard, Choosing
<1>1. CASE ClaimJob(t)
  BY <1>1, ClaimJobOutput
<1>2. CASE ResolveJob(t) \/ ProbeTaken(t)
  BY <1>2, SearchOutput
<1>3. CASE ProbeFree(t)
  BY <1>3, OutputKeptInside DEF ProbeFree
<1>4. CASE ProbeExhausted(t)
  BY <1>4, OutputKeptInside DEF ProbeExhausted
<1>5. CASE SeasonOk(t)
  BY <1>5, OutputKeptInside DEF SeasonOk
<1>6. CASE SaveTty(t)
  BY <1>6, OutputKeptInside DEF SaveTty
<1>7. CASE SetRaw(t)
  BY <1>7, OutputKeptInside DEF SetRaw
<1>8. CASE Hash(t)
  BY <1>8, OutputKeptInside DEF Hash
<1>9. CASE WaitForKey(t)
  BY <1>9, OutputKeptInside DEF WaitForKey
<1>10. CASE KeyTyped(t)
  BY <1>10, OutputKeptInside DEF KeyTyped
<1>11. CASE OpenOutput(t)
  BY <1>11, OpenOutputOutput
<1>12. CASE WriteOutput(t)
  BY <1>12, WriteOutputOutput
<1>13. CASE ThrowBeforeGuard(t)
  BY <1>13, OutputKeptInside DEF ThrowBeforeGuard
<1>14. CASE ThrowUnderGuard(t)
  BY <1>14, OutputKeptInside DEF ThrowUnderGuard
<1>15. CASE RestoreTty(t)
  BY <1>15, OutputKeptInside DEF RestoreTty
<1>16. CASE StoreResult(t)
  BY <1>16, StoreResultOutput
<1> QED
  BY <1>1, <1>2, <1>3, <1>4, <1>5, <1>6, <1>7, <1>8, <1>9, <1>10, <1>11,
     <1>12, <1>13, <1>14, <1>15, <1>16 DEF WorkerStep

LEMMA OutputNext == IInv /\ OutputInv /\ [Next]_vars => OutputInv'
<1> SUFFICES ASSUME IInv, OutputInv, [Next]_vars PROVE OutputInv'
  OBVIOUS
<1>1. ASSUME NEW t \in Threads, WorkerStep(t) \/ KeyTyped(t)
      PROVE  OutputInv'
  BY <1>1, OutputWorkerStep
<1>2. CASE ~\E t \in Threads : WorkerStep(t) \/ KeyTyped(t)
  <2>1. UNCHANGED <<workers, requested, idx, verdict, outcome, files>>
    BY <1>2 DEF Next, MainStep, SpawnWorker, JoinWorker, ReturnExitCode, Exited,
                vars, pool
  <2>2. \A u \in Threads :
            \/ pc'[u] = pc[u]
            \/ pc[u] = "unborn" /\ pc'[u] = "claim"
    <3>1. CASE SpawnWorker
      <4>1. pc' = [pc EXCEPT ![spawned + 1] = "claim"]
        BY <3>1 DEF SpawnWorker
      <4>2. \A u \in Threads : u = spawned + 1 => pc[u] = "unborn"
        BY DEF IInv, PoolOrder, TypeOK, Threads
      <4> QED
        BY <4>1, <4>2 DEF IInv, TypeOK
    <3>2. CASE ~SpawnWorker
      BY <1>2, <3>2 DEF Next, MainStep, JoinWorker, ReturnExitCode, Exited, vars
    <3> QED
      BY <3>1, <3>2
  <2>3. \A p \in {"unborn", "claim"} : p \notin Busy \cup Choosing
    BY DEF Busy, BeforeGuard, UnderGuard, Choosing
  <2>4. VerdictIsLate'
    BY <2>1, <2>2, <2>3 DEF OutputInv, VerdictIsLate
  <2>5. \A k \in Jobs : Settled(k) => Settled(k)'
    BY <2>1, <2>2, <2>3 DEF Settled
  <2>6. \A j \in Jobs : Written(j)' => Written(j)
    BY <2>1, <2>2, <2>3 DEF Written
  <2>7. \A u \in Threads : pc'[u] \in Choosing /\ Harmless(idx'[u])
                             => target[idx'[u]] \notin present
    BY <2>1, <2>2, <2>3 DEF OutputInv, AutoAlone
  <2> QED
    BY <2>1, <2>2, <2>4, <2>5, <2>6, <2>7, FilesUntouched
<1> QED
  BY <1>1, <1>2

\* Whoever shares no output has its torrent, alone and complete, in its file.
THEOREM OutputsIntact == Spec => []DistinctOutputsIntact
<1>1. Init => IInv /\ OutputInv
  BY InitIInv, OutputInit
<1>2. IInv /\ OutputInv /\ [Next]_vars => (IInv /\ OutputInv)'
  BY NextIInv, OutputNext
<1>3. IInv /\ OutputInv => DistinctOutputsIntact
  <2> SUFFICES ASSUME IInv, OutputInv, NEW j \in Jobs, outcome[j] = "ok",
                      \A k \in Jobs \ {j} : target[k] = target[j] => Harmless(k)
               PROVE  target[j] \in present /\ authors[target[j]] = {j}
    BY DEF DistinctOutputsIntact, Harmless
  <2>1. Stands(j) /\ (j \in authors[target[j]] \/ Replaced(j))
    BY DEF OutputInv, WrittenStand, Written
  <2>2. j \in authors[target[j]]
    BY <2>1 DEF Replaced
  <2>3. target[j] \in Names /\ authors[target[j]] \subseteq Jobs \cup {Old}
    BY DEF IInv, TypeOK
  <2>4. \A k \in authors[target[j]] \ {j} : FALSE
    BY <2>1, <2>3 DEF OutputInv, AuthorsSettled, Stands
  <2> QED
    BY <2>1, <2>2, <2>4 DEF Stands
<1> QED
  BY <1>1, <1>2, <1>3, PTL DEF Spec
================================================================================
