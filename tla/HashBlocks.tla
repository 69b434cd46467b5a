------------------------------- MODULE HashBlocks -------------------------------
(***************************************************************************)
(* TorrentCreator::hash_large_file_parallel and hash_block: a file of more *)
(* than 1 GiB is cut in one block for each thread, every worker hashes its *)
(* block, a monitor thread looks for a 'q' and raises `cancel`, and the    *)
(* calling thread joins them all.                                          *)
(*                                                                         *)
(* The inner loop of hash_block does not lower `remaining`, and its offset *)
(* runs past the buffer.  What a read out there does is undefined: the     *)
(* process dies, or the thread goes on with what it finds.  Each set_hash  *)
(* is made under a mutex and is part of a chunk's step.                    *)
(***************************************************************************)
EXTENDS Integers

CONSTANTS NumThreads,   \* hardware_concurrency(), taken to be known: positive
          FileSize,     \* a natural number
          PieceSize,    \* positive
          BufferSize    \* positive: 16 MiB in the code

Workers == 0 .. NumThreads - 1

VARIABLES
    main,         \* where the calling thread is
    created,      \* workers started so far
    monitor,      \* "off", "polling" or "gone"
    pc,           \* [Workers -> where the worker is]
    processed,    \* [Workers -> bytes_processed], counted as far as the buffer
    good,         \* [Workers -> the state of its stream]
    remaining,    \* [Workers -> bytes_read of its last read]
    offset,       \* [Workers -> the next byte of its buffer]
    bytes_in_current_piece,
    cancel,       \* the atomic flag
    typed,        \* a 'q' was typed and not yet read
    outcome       \* "running", then how the call or the process ended

flags == <<cancel, typed, outcome>>
block == <<processed, good, remaining, offset, bytes_in_current_piece>>
vars  == <<main, created, monitor, pc, block, flags>>

Least(a, b) == IF a <= b THEN a ELSE b

block_size     == FileSize \div NumThreads + 1
StartOffset(w) == w * block_size
EndOffset(w)   == Least(StartOffset(w) + block_size, FileSize)
Left(w)        == EndOffset(w) - (StartOffset(w) + processed[w])

Init ==
    /\ main = "spawn"
    /\ created = 0
    /\ monitor = "off"
    /\ pc = [w \in Workers |-> "unborn"]
    /\ processed = [w \in Workers |-> 0]
    /\ good = [w \in Workers |-> TRUE]
    /\ remaining = [w \in Workers |-> 0]
    /\ offset = [w \in Workers |-> 0]
    /\ bytes_in_current_piece = [w \in Workers |-> 0]
    /\ cancel = FALSE
    /\ typed = FALSE
    /\ outcome = "running"

Running == outcome = "running"
--------------------------------------------------------------------------------
(* A worker. *)

Goto(w, from, to) ==
    /\ Running
    /\ pc[w] = from
    /\ pc' = [pc EXCEPT ![w] = to]
    /\ UNCHANGED <<main, created, monitor>>

Open(w) == Goto(w, "open", "loop") /\ UNCHANGED <<block, flags>>

\* The exception leaves the thread function: std::terminate.
OpenFails(w) ==
    /\ Goto(w, "open", "dead")
    /\ outcome' = "terminated"
    /\ UNCHANGED <<block, cancel, typed>>

\* A read of a healthy disk is complete; one that fails ends the outer loop.
Read(w) ==
    /\ Goto(w, "loop", "chunk")
    /\ good[w] /\ Left(w) > 0
    /\ \E n \in 0 .. Least(BufferSize, Left(w)) :
         /\ remaining' = [remaining EXCEPT ![w] = n]
         /\ good' = [good EXCEPT ![w] = n = Least(BufferSize, Left(w))]
    /\ offset' = [offset EXCEPT ![w] = 0]
    /\ UNCHANGED <<processed, bytes_in_current_piece, flags>>

Chunk(w) == Least(remaining[w], PieceSize - bytes_in_current_piece[w])

\* The hasher takes a chunk; a full piece is stored.
Feed(w) ==
    bytes_in_current_piece' =
        [bytes_in_current_piece EXCEPT ![w] = (@ + Chunk(w)) % PieceSize]

HashChunk(w) ==
    /\ Goto(w, "chunk", "chunk")
    /\ remaining[w] > 0
    /\ offset[w] + Chunk(w) <= BufferSize
    /\ Feed(w)
    /\ offset' = [offset EXCEPT ![w] = @ + Chunk(w)]
    /\ processed' = [processed EXCEPT ![w] = @ + Chunk(w)]
    /\ UNCHANGED <<good, remaining, flags>>

\* The chunk reaches past the buffer; the offsets are not counted any further.
ReadPastBuffer(w) ==
    /\ Goto(w, "chunk", "chunk")
    /\ remaining[w] > 0
    /\ offset[w] + Chunk(w) > BufferSize
    /\ Feed(w)
    /\ UNCHANGED <<processed, good, remaining, offset, flags>>

DiePastBuffer(w) ==
    /\ Goto(w, "chunk", "dead")
    /\ remaining[w] > 0
    /\ offset[w] + Chunk(w) > BufferSize
    /\ outcome' = "crashed"
    /\ UNCHANGED <<block, cancel, typed>>

\* The inner loop is left only when nothing was read.
BufferDone(w) ==
    /\ Goto(w, "chunk", "check")
    /\ remaining[w] = 0
    /\ UNCHANGED <<block, flags>>

Continue(w) == Goto(w, "check", "loop") /\ ~cancel /\ UNCHANGED <<block, flags>>

Cancelled(w) == Goto(w, "check", "done") /\ cancel /\ UNCHANGED <<block, flags>>

FinishBlock(w) ==
    /\ Goto(w, "loop", "done")
    /\ ~good[w] \/ Left(w) <= 0
    /\ UNCHANGED <<block, flags>>

Worker(w) ==
    \/ Open(w) \/ OpenFails(w) \/ Read(w) \/ HashChunk(w) \/ ReadPastBuffer(w)
    \/ DiePastBuffer(w) \/ BufferDone(w) \/ Continue(w) \/ Cancelled(w)
    \/ FinishBlock(w)
--------------------------------------------------------------------------------
(* The monitor, the calling thread and the user at a terminal in raw mode. *)

\* cancel is looked at, then the keyboard; a quit key raises cancel.
SeeQuit ==
    /\ Running /\ monitor = "polling" /\ ~cancel /\ typed
    /\ cancel' = TRUE
    /\ typed' = FALSE
    /\ monitor' = "gone"
    /\ UNCHANGED <<main, created, pc, block, outcome>>

SeeCancel ==
    /\ Running /\ monitor = "polling" /\ cancel
    /\ monitor' = "gone"
    /\ UNCHANGED <<main, created, pc, block, flags>>

Spawn ==
    /\ Running /\ main = "spawn" /\ created < NumThreads
    /\ pc' = [pc EXCEPT ![created] = "open"]
    /\ created' = created + 1
    /\ UNCHANGED <<main, monitor, block, flags>>

SpawnMonitor ==
    /\ Running /\ main = "spawn" /\ created = NumThreads
    /\ monitor' = "polling"
    /\ main' = "join"
    /\ UNCHANGED <<created, pc, block, flags>>

\* After the last join: bool interrupted = cancel.exchange(true).
JoinWorkers ==
    /\ Running /\ main = "join" /\ \A w \in Workers : pc[w] = "done"
    /\ main' = IF cancel THEN "interrupted" ELSE "hashed"
    /\ cancel' = TRUE
    /\ UNCHANGED <<created, monitor, pc, block, typed, outcome>>

JoinMonitor ==
    /\ Running /\ main \in {"interrupted", "hashed"} /\ monitor = "gone"
    /\ outcome' = main
    /\ UNCHANGED <<main, created, monitor, pc, block, cancel, typed>>

TypeQuit ==
    /\ Running /\ ~typed /\ ~cancel
    /\ typed' = TRUE
    /\ UNCHANGED <<main, created, monitor, pc, block, cancel, outcome>>

Monitor == SeeQuit \/ SeeCancel
Main    == Spawn \/ SpawnMonitor \/ JoinWorkers \/ JoinMonitor

Next == Monitor \/ Main \/ TypeQuit \/ \E w \in Workers : Worker(w)

\* Every thread is scheduled until it ends.
FairSpec ==
    /\ Init /\ [][Next]_vars
    /\ WF_vars(Monitor) /\ WF_vars(Main)
    /\ \A w \in Workers : WF_vars(Worker(w))
--------------------------------------------------------------------------------
(* Properties. *)

\* "signals shutdown via cancel atomic so workers can exit cleanly"
\* (torrent_creator.cpp:129-130): once cancel is raised the call comes to its end,
\* unless a worker could not open the file.
QuitHeeded == cancel ~> outcome \in {"interrupted", "hashed", "terminated"}
================================================================================
