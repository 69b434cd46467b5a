--------------------------------- MODULE Batch ---------------------------------
(***************************************************************************)
(* The worker pool of `torrent-builder batch`: BatchProcessor::run spawns  *)
(* worker threads that draw job indices from one atomic counter, run       *)
(* execute_job on each, and are joined before handle_batch_command turns   *)
(* the results into an exit code.                                          *)
(*                                                                         *)
(* The threads share three things beside the counter: the vector of        *)
(* results, the output directory (an automatic output name is the first    *)
(* that does not exist; it is created only after hashing), and the         *)
(* controlling terminal, which every create_torrent puts into raw mode and *)
(* puts back to whatever it found.  While it hashes, create_torrent reads  *)
(* from stdin after every piece or buffer to see whether 'q' was pressed.  *)
(*                                                                         *)
(* What a job computes (presets, rules, piece size, hashes) is abstracted  *)
(* to whether it throws; an output name is a base with a collision number. *)
(***************************************************************************)
EXTENDS Integers

CONSTANTS NJobs,            \* number of jobs in the batch file
          MaxWorkers,       \* bound: the largest config_.workers considered
          HardwareThreads,  \* std::thread::hardware_concurrency(), 0 if unknown
          Bases,            \* file names before the collision suffix
          MaxCollision,     \* attempts of resolve_collision (1000 in the code)
          Stdins            \* what stdin may be when the command starts

ASSUME BatchAssumption ==
    /\ NJobs \in Nat
    /\ MaxWorkers \in Nat \ {0}
    /\ HardwareThreads \in Nat
    /\ MaxCollision \in Nat
    /\ Stdins \subseteq {"none", "pipe", "cooked"}

Jobs    == 0 .. NJobs - 1
Threads == 1 .. MaxWorkers

\* base.torrent is number 0, base(1).torrent number 1, ...
Names == [base : Bases, number : 0 .. MaxCollision]

\* A job either names its output or leaves it to generate_auto_output_path,
\* which derives the base from the content path and the first tracker.
Requests == [auto : {FALSE}, name : Names]
              \cup [auto : {TRUE}, name : [base : Bases, number : {0}]]

Old == -1                       \* the author of files older than the batch

BeforeGuard == {"resolve", "probe", "season"}       \* no TerminalGuard alive
UnderGuard  == {"save_tty", "set_raw", "hash", "wait_key", "open", "write"}
Busy        == BeforeGuard \cup UnderGuard \cup {"restore", "store"}

VARIABLES
    workers,    \* config_.workers after the --workers override
    requested,  \* [Jobs -> Requests]
    next_job,   \* the shared atomic counter
    pc,         \* [Threads -> where the thread is]
    idx,        \* [Threads -> Nat], the thread's local idx
    verdict,    \* [Threads -> BOOLEAN], result.success inside execute_job
    target,     \* [Jobs -> Names], TorrentConfig::output
    outcome,    \* [Jobs -> {"unset", "ok", "failed"}], the results vector
    present,    \* the names that exist in the output directory
    authors,    \* [Names -> who wrote into the file since it was truncated]
    tty,        \* stdin: a terminal in "cooked" or "raw" mode, an idle "pipe",
                \* or "none" when it is at its end, as /dev/null is
    saved,      \* [Threads -> mode], TerminalGuard's original_termios
    spawned,    \* threads started so far
    joined,     \* threads joined so far
    exit_code   \* -1 until the command returns

pool     == <<next_job, idx, spawned, joined>>
files    == <<target, present, authors>>
terminal == <<tty, saved>>
vars     == <<workers, requested, pool, pc, verdict, outcome, files, terminal,
              exit_code>>

\* min(workers, jobs), capped by twice the hardware threads when known.
ActualWorkers ==
    LET wanted == IF workers <= NJobs THEN workers ELSE NJobs
        cap    == 2 * HardwareThreads
    IN  IF wanted > cap /\ cap > 0 THEN cap ELSE wanted

Init ==
    /\ workers \in 1 .. MaxWorkers
    /\ requested \in [Jobs -> Requests]
    /\ next_job = 0
    /\ pc = [t \in Threads |-> "unborn"]
    /\ idx = [t \in Threads |-> 0]
    /\ verdict = [t \in Threads |-> FALSE]
    /\ target = [j \in Jobs |-> requested[j].name]
    /\ outcome = [j \in Jobs |-> "unset"]
    /\ present \in SUBSET [base : Bases, number : {0}]
    /\ authors = [n \in Names |-> IF n \in present THEN {Old} ELSE {}]
    /\ tty \in Stdins
    /\ saved = [t \in Threads |-> tty]
    /\ spawned = 0
    /\ joined = 0
    /\ exit_code = -1
--------------------------------------------------------------------------------
(* The worker threads. *)

Goto(t, from, to) == pc[t] = from /\ pc' = [pc EXCEPT ![t] = to]

\* FAULT: the counter is read and written back in two steps, not fetched and
\* incremented in one.
ClaimJobStale(t) ==
    /\ Goto(t, "claim", IF next_job < NJobs THEN "resolve" ELSE "exited")
    /\ idx' = [idx EXCEPT ![t] = next_job]
    /\ next_job' = idx[t] + 1
    /\ verdict' = [verdict EXCEPT ![t] = FALSE]
    /\ UNCHANGED <<workers, requested, spawned, joined, outcome, files,
                   terminal, exit_code>>

\* next_job.fetch_add(1); a worker that draws past the end leaves its loop.
ClaimJob(t) ==
    /\ Goto(t, "claim", IF next_job < NJobs THEN "resolve" ELSE "exited")
    /\ idx' = [idx EXCEPT ![t] = next_job]
    /\ next_job' = next_job + 1
    /\ verdict' = [verdict EXCEPT ![t] = FALSE]
    /\ UNCHANGED <<workers, requested, spawned, joined, outcome, files,
                   terminal, exit_code>>

\* Preset, piece size, rules and output directory are settled; an explicit
\* output is taken as it stands, an automatic one has to be searched for.
ResolveJob(t) ==
    /\ Goto(t, "resolve", IF requested[idx[t]].auto THEN "probe" ELSE "season")
    /\ target' = [target EXCEPT ![idx[t]] = requested[idx[t]].name]
    /\ UNCHANGED <<workers, requested, pool, verdict, outcome, present, authors,
                   terminal, exit_code>>

\* FAULT: the candidate is taken without looking.
ProbeFreeBlind(t) ==
    /\ Goto(t, "probe", "season")
    /\ UNCHANGED <<workers, requested, pool, verdict, outcome, files, terminal,
                   exit_code>>

\* One exists() of resolve_collision: the candidate is taken when it is free.
ProbeFree(t) ==
    /\ Goto(t, "probe", "season")
    /\ target[idx[t]] \notin present
    /\ UNCHANGED <<workers, requested, pool, verdict, outcome, files, terminal,
                   exit_code>>

\* FAULT: the number of attempts is not limited.
ProbeTakenUnlimited(t) ==
    /\ pc[t] = "probe"
    /\ target[idx[t]] \in present
    /\ target' = [target EXCEPT ![idx[t]].number = @ + 1]
    /\ UNCHANGED <<workers, requested, pool, pc, verdict, outcome, present,
                   authors, terminal, exit_code>>

\* The candidate exists: the next suffix is tried.
ProbeTaken(t) ==
    /\ pc[t] = "probe"
    /\ target[idx[t]] \in present
    /\ target[idx[t]].number < MaxCollision
    /\ target' = [target EXCEPT ![idx[t]].number = @ + 1]
    /\ UNCHANGED <<workers, requested, pool, pc, verdict, outcome, present,
                   authors, terminal, exit_code>>

\* "Could not resolve filename collision"
ProbeExhausted(t) ==
    /\ Goto(t, "probe", "store")
    /\ target[idx[t]] \in present
    /\ target[idx[t]].number = MaxCollision
    /\ UNCHANGED <<workers, requested, pool, verdict, outcome, files, terminal,
                   exit_code>>

\* evaluate_season_warning found nothing to fail the job for.
SeasonOk(t) ==
    /\ Goto(t, "season", "save_tty")
    /\ UNCHANGED <<workers, requested, pool, verdict, outcome, files, terminal,
                   exit_code>>

\* TerminalGuard's constructor: tcgetattr ...
SaveTty(t) ==
    /\ Goto(t, "save_tty", "set_raw")
    /\ saved' = [saved EXCEPT ![t] = tty]
    /\ UNCHANGED <<workers, requested, pool, verdict, outcome, files, tty,
                   exit_code>>

\* ... then tcsetattr, on a terminal only.
SetRaw(t) ==
    /\ Goto(t, "set_raw", "hash")
    /\ tty' = IF tty \in {"cooked", "raw"} THEN "raw" ELSE tty
    /\ UNCHANGED <<workers, requested, pool, verdict, outcome, files, saved,
                   exit_code>>

\* check_key_press reads from stdin, which returns at once only in raw mode or
\* at the end of a file.
ReadReturns == tty \in {"raw", "none"}

\* The pieces are hashed, the last look for a key included.
Hash(t) ==
    /\ Goto(t, "hash", "open")
    /\ ReadReturns
    /\ UNCHANGED <<workers, requested, pool, verdict, outcome, files, terminal,
                   exit_code>>

\* The read begins in a mode, or on a pipe, that makes it wait for a line; it
\* goes on waiting when another guard sets raw mode.
WaitForKey(t) ==
    /\ Goto(t, "hash", "wait_key")
    /\ ~ReadReturns
    /\ UNCHANGED <<workers, requested, pool, verdict, outcome, files, terminal,
                   exit_code>>

\* The user, or the writer of the pipe, provides a character that is not 'q'.
KeyTyped(t) ==
    /\ Goto(t, "wait_key", "hash")
    /\ UNCHANGED <<workers, requested, pool, verdict, outcome, files, terminal,
                   exit_code>>

\* std::ofstream creates the file or truncates the one that is there.
OpenOutput(t) ==
    LET n == target[idx[t]]
    IN  /\ Goto(t, "open", "write")
        /\ present' = present \cup {n}
        /\ authors' = [authors EXCEPT ![n] = {}]
        /\ UNCHANGED <<workers, requested, pool, verdict, outcome, target,
                       terminal, exit_code>>

\* bencode fills the stream, whose check passes, and the destructor writes the
\* buffer out (the output directory has room: an error there goes unnoticed).
WriteOutput(t) ==
    LET n == target[idx[t]]
    IN  /\ Goto(t, "write", "restore")
        /\ authors' = [authors EXCEPT ![n] = @ \cup {idx[t]}]
        /\ verdict' = [verdict EXCEPT ![t] = TRUE]
        /\ UNCHANGED <<workers, requested, pool, outcome, target, present,
                       terminal, exit_code>>

\* Anything that throws before the guard exists: missing path, bad preset,
\* conflicting piece sizes, season warning made fatal.
ThrowBeforeGuard(t) ==
    /\ pc[t] \in {"resolve", "season"}
    /\ pc' = [pc EXCEPT ![t] = "store"]
    /\ UNCHANGED <<workers, requested, pool, verdict, outcome, files, terminal,
                   exit_code>>

\* FAULT: an exception leaves the terminal to the next guard.
ThrowUnderGuardRaw(t) ==
    /\ pc[t] \in {"hash", "open", "write"}
    /\ pc' = [pc EXCEPT ![t] = "store"]
    /\ UNCHANGED <<workers, requested, pool, verdict, outcome, files, terminal,
                   exit_code>>

\* Anything create_torrent throws: unreadable content, 'q' pressed, a file
\* that cannot be opened or written.  Unwinding destroys the guard; a file
\* already opened stays behind truncated.
ThrowUnderGuard(t) ==
    /\ pc[t] \in {"hash", "open", "write"}
    /\ pc' = [pc EXCEPT ![t] = "restore"]
    /\ UNCHANGED <<workers, requested, pool, verdict, outcome, files, terminal,
                   exit_code>>

\* TerminalGuard's destructor puts back what its constructor saved.
RestoreTty(t) ==
    /\ Goto(t, "restore", "store")
    /\ tty' = saved[t]
    /\ UNCHANGED <<workers, requested, pool, verdict, outcome, files, saved,
                   exit_code>>

\* FAULT: a failed job ends its worker.
StoreResultAndStop(t) ==
    /\ Goto(t, "store", IF verdict[t] THEN "claim" ELSE "exited")
    /\ outcome' = [outcome EXCEPT
                     ![idx[t]] = IF verdict[t] THEN "ok" ELSE "failed"]
    /\ UNCHANGED <<workers, requested, pool, verdict, files, terminal,
                   exit_code>>

\* results[idx] = execute_job(...), whose catch has swallowed any exception.
StoreResult(t) ==
    /\ Goto(t, "store", "claim")
    /\ outcome' = [outcome EXCEPT
                     ![idx[t]] = IF verdict[t] THEN "ok" ELSE "failed"]
    /\ UNCHANGED <<workers, requested, pool, verdict, files, terminal,
                   exit_code>>

WorkerStep(t) ==
    \/ ClaimJob(t)  \/ ResolveJob(t) \/ ProbeFree(t) \/ ProbeTaken(t)
    \/ ProbeExhausted(t) \/ SeasonOk(t) \/ SaveTty(t) \/ SetRaw(t) \/ Hash(t)
    \/ WaitForKey(t) \/ OpenOutput(t) \/ WriteOutput(t) \/ ThrowBeforeGuard(t)
    \/ ThrowUnderGuard(t) \/ RestoreTty(t) \/ StoreResult(t)
--------------------------------------------------------------------------------
(* The main thread. *)

SpawnWorker ==
    /\ spawned < ActualWorkers
    /\ spawned' = spawned + 1
    /\ pc' = [pc EXCEPT ![spawned + 1] = "claim"]
    /\ UNCHANGED <<workers, requested, next_job, idx, joined, verdict, outcome,
                   files, terminal, exit_code>>

\* FAULT: the threads are detached, not joined.
JoinWorkerDetached ==
    /\ spawned = ActualWorkers
    /\ joined < ActualWorkers
    /\ joined' = joined + 1
    /\ UNCHANGED <<workers, requested, next_job, idx, spawned, pc, verdict,
                   outcome, files, terminal, exit_code>>

JoinWorker ==
    /\ spawned = ActualWorkers
    /\ joined < ActualWorkers
    /\ pc[joined + 1] = "exited"
    /\ joined' = joined + 1
    /\ UNCHANGED <<workers, requested, next_job, idx, spawned, pc, verdict,
                   outcome, files, terminal, exit_code>>

\* The results vector starts with success = false, so an unset one fails too.
ReturnExitCode ==
    /\ spawned = ActualWorkers
    /\ joined = ActualWorkers
    /\ exit_code = -1
    /\ exit_code' = IF \E j \in Jobs : outcome[j] # "ok" THEN 1 ELSE 0
    /\ UNCHANGED <<workers, requested, pool, pc, verdict, outcome, files,
                   terminal>>

MainStep == SpawnWorker \/ JoinWorker \/ ReturnExitCode

\* The process is gone: the only state without a next step of the program.
Exited == exit_code # -1 /\ UNCHANGED vars

Next == MainStep \/ (\E t \in Threads : WorkerStep(t) \/ KeyTyped(t)) \/ Exited

\* Every thread is scheduled by the operating system until it ends, and no
\* step waits for another thread but the joins; nobody has to type anything.
Fairness == WF_vars(MainStep) /\ \A t \in Threads : WF_vars(WorkerStep(t))

Spec == Init /\ [][Next]_vars

FairSpec == Spec /\ Fairness
--------------------------------------------------------------------------------
(* Properties. *)

\* Types: the vector of results and the thread-local indices stay in range,
\* and a name never gets a collision number beyond the last attempt.
TypeOK ==
    /\ workers \in 1 .. MaxWorkers
    /\ requested \in [Jobs -> Requests]
    /\ next_job \in Nat
    /\ pc \in [Threads -> Busy \cup {"unborn", "claim", "exited"}]
    /\ idx \in [Threads -> Nat]
    /\ verdict \in [Threads -> BOOLEAN]
    /\ target \in [Jobs -> Names]
    /\ outcome \in [Jobs -> {"unset", "ok", "failed"}]
    /\ present \in SUBSET Names
    /\ authors \in [Names -> SUBSET (Jobs \cup {Old})]
    /\ tty \in Stdins \cup {"raw"}
    /\ saved \in [Threads -> Stdins \cup {"raw"}]
    /\ spawned \in 0 .. MaxWorkers
    /\ joined \in 0 .. MaxWorkers
    /\ exit_code \in {-1, 0, 1}

\* A thread inside execute_job works on a job already drawn and not answered.
BusyHoldsJob ==
    \A t \in Threads : pc[t] \in Busy =>
        idx[t] \in Jobs /\ idx[t] < next_job /\ outcome[idx[t]] = "unset"

\* No two threads work on the same job.
HoldersDiffer ==
    \A t, u \in Threads :
        t # u /\ pc[t] \in Busy /\ pc[u] \in Busy => idx[t] # idx[u]

\* A job drawn and not answered is in the hands of a thread.
DrawnIsHeld ==
    \A j \in Jobs : j < next_job /\ outcome[j] = "unset" =>
        \E t \in Threads : pc[t] \in Busy /\ idx[t] = j

AnsweredWasDrawn == \A j \in Jobs : outcome[j] # "unset" => j < next_job

\* The counter hands every job to exactly one thread: no job is executed by
\* two workers, lost between drawing and answering, or answered undrawn
\* (next_job.fetch_add and results[idx] in BatchProcessor::run).
ClaimedOnce ==
    BusyHoldsJob /\ HoldersDiffer /\ DrawnIsHeld /\ AnsweredWasDrawn

\* The life of the pool, which makes the promises inductive: threads are born
\* in order, leave only when every job has been drawn, and are joined in order
\* after the last one was spawned, before the exit code is computed.
PoolOrder ==
    /\ joined <= spawned
    /\ spawned <= ActualWorkers
    /\ joined > 0 => spawned = ActualWorkers
    /\ exit_code # -1 => joined = ActualWorkers
    /\ \A t \in Threads : pc[t] = "unborn" <=> t > spawned
    /\ \A t \in Threads : t <= joined => pc[t] = "exited"
    /\ \A t \in Threads : pc[t] = "exited" => next_job >= NJobs

\* The batch promises of BatchJobs.tla hold of the threads: in-order single
\* execution, failures kept to their job, and an exit code that is computed
\* from the complete results and is 1 exactly when some job failed.
JobState ==
    [j \in Jobs |-> IF outcome[j] # "unset" THEN outcome[j]
                    ELSE IF j < next_job THEN "running" ELSE "waiting"]

Promise == INSTANCE BatchJobs WITH state <- JobState

Implements == Promise!Spec

\* A job reported as successful has its torrent, alone and complete, in its
\* output file, however the jobs interleave, unless another job resolved to
\* the same output; and with one worker no job whose output is named for it does
\* that.  Truncation, overwriting of older files and torrents of failed jobs must
\* not get in the way.
DistinctOutputsIntact ==
    \A j \in Jobs :
        /\ outcome[j] = "ok"
        /\ \A k \in Jobs \ {j} :
               target[k] = target[j] => (workers = 1 /\ requested[k].auto)
        => target[j] \in present /\ authors[target[j]] = {j}

\* A step of t that opens the output of an automatically named job.
OpensAutoNamed(t) ==
    pc[t] = "open" /\ pc'[t] = "write" /\ requested[idx[t]].auto

\* README "Collision-safe naming": an automatically named job never truncates the
\* torrent of another automatically named job of the batch, which resolve_collision
\* was to see and to step aside for (utils.cpp:495, torrent_creator.cpp:525).
AutoNamesFresh ==
    [][\A t \in Threads : OpensAutoNamed(t) =>
         ~\E k \in authors[target[idx[t]]] \cap Jobs :
             k # idx[t] /\ requested[k].auto]_vars

\* terminal.hpp: a guard restores the original settings unconditionally. With one
\* worker the command leaves the terminal in the mode it found it, whichever jobs
\* throw and wherever they throw; two guards that overlap may restore the raw mode.
TerminalRestoredSerial == workers = 1 /\ exit_code # -1 => tty # "raw"

Answered == exit_code # -1 /\ \A j \in Jobs : outcome[j] # "unset"

\* terminal.hpp "Returns immediately when no input is available": every job is
\* answered and the command returns, whatever fails and whether or not anybody
\* touches the keyboard.
EveryJobAnswered == <>Answered

\* The command does return when it has one worker on a terminal, or when stdin
\* is at its end.
AnsweredWhenReadsReturn ==
    \/ tty = "pipe"
    \/ tty = "cooked" /\ workers > 1
    \/ <>Answered
================================================================================
