-------------------------------- MODULE HashFile --------------------------------
(***************************************************************************)
(* TorrentCreator::hash_large_file: a file of at most 1 GiB is read in     *)
(* buffers, fed to the hasher in chunks that end at piece boundaries, and  *)
(* each piece's hash is stored in the torrent.  After every buffer the     *)
(* time since the start and the keyboard are looked at.                    *)
(*                                                                         *)
(* A byte is its position in the file, so that a hash is the sequence of   *)
(* the positions fed to the hasher.  Beside the hashing thread there are   *)
(* the clock, the user and a disk that may fail.                           *)
(***************************************************************************)
EXTENDS Integers, Sequences

CONSTANTS BufferSize,   \* 16 MiB in the code
          PieceSizes,   \* piece sizes considered: smaller, equal and larger
          MaxSize,      \* bound: the largest file considered
          Limit,        \* 30 seconds in the code
          MaxElapsed,   \* bound: the clock stops there
          MaxKeys       \* bound: keys the user presses

ASSUME HashAssumption ==
    /\ BufferSize \in Nat \ {0}
    /\ PieceSizes \subseteq Nat \ {0}
    /\ MaxSize \in Nat
    /\ Limit \in Nat
    /\ MaxElapsed \in Nat
    /\ MaxKeys \in Nat

VARIABLES
    size,        \* of the file when the torrent was laid out
    piece_size,
    idle,        \* stdin is a pipe into which nobody writes: reads do not return
    pc,          \* where the hashing thread is
    position,    \* bytes read from the stream so far
    good,        \* the state of the stream
    remaining,   \* bytes of the buffer not yet hashed
    hasher,      \* the positions fed to piece_hasher since its reset
    bytes_in_current_piece,
    piece_index,
    hashes,      \* [Pieces -> the positions hashed], empty while not set
    result,      \* "running", then how the call ended
    cut,         \* history: the disk returned less than there was
    elapsed,     \* seconds since the start
    keys,        \* keys typed and not yet read: a 'q' is "q", others "x"
    late         \* history: reads begun since a 'q' was typed

file   == <<size, piece_size, idle>>
stream == <<position, good, cut>>
pieces == <<hasher, bytes_in_current_piece, piece_index, hashes>>
user   == <<keys, late>>
vars   == <<file, stream, pieces, user, pc, remaining, result, elapsed>>

PieceStart(i) == i * piece_size

\* lt::file_storage: the last piece may be shorter.
Pieces == {i \in 0 .. size : PieceStart(i) < size}

Least(a, b) == IF a <= b THEN a ELSE b

\* The bytes from position `from` up to `to`, exclusive.
Bytes(from, to) == [k \in 1 .. to - from |-> from + k - 1]

Init ==
    /\ size \in 0 .. MaxSize
    /\ piece_size \in PieceSizes
    /\ idle \in BOOLEAN
    /\ pc = "loop"
    /\ position = 0
    /\ good = TRUE
    /\ remaining = 0
    /\ hasher = <<>>
    /\ bytes_in_current_piece = 0
    /\ piece_index = 0
    /\ hashes = [i \in Pieces |-> <<>>]
    /\ result = "running"
    /\ cut = FALSE
    /\ elapsed = 0
    /\ keys = <<>>
    /\ late = 0
--------------------------------------------------------------------------------
(* The hashing thread. *)

Goto(from, to) == pc = from /\ pc' = to

QuitTyped == \E k \in DOMAIN keys : keys[k] = "q"

\* while (file): n bytes arrive; end says that the stream has met its end.
Deliver(n, end) ==
    /\ Goto("loop", "chunk")
    /\ good
    /\ position' = position + n
    /\ good' = ~end
    /\ remaining' = n
    /\ late' = IF QuitTyped THEN late + 1 ELSE late
    /\ UNCHANGED <<file, pieces, result, elapsed, keys>>

\* FAULT: the end of the file is taken for a failed read, and its bytes dropped.
ReadWholeBuffers ==
    LET full == size - position >= BufferSize
    IN  /\ Deliver(IF full THEN BufferSize ELSE 0, ~full)
        /\ UNCHANGED cut

\* file.read: a read that meets the end sets eofbit and failbit.
Read ==
    LET n == Least(BufferSize, size - position)
    IN  /\ Deliver(n, n < BufferSize)
        /\ UNCHANGED cut

\* The disk fails, or the file has been cut short since its size was taken: the
\* stream goes bad, which the loop takes for the end of the file.
ReadFails ==
    /\ \E n \in 0 .. BufferSize - 1 : n < size - position /\ Deliver(n, TRUE)
    /\ cut' = TRUE

\* FAULT: as in hash_block, `remaining` is not lowered.
HashChunkForever ==
    /\ Goto("chunk", "chunk")
    /\ remaining > 0
    /\ UNCHANGED <<file, stream, pieces, user, remaining, result, elapsed>>

\* FAULT: all of the buffer is one chunk, also where a piece ends inside it.
HashChunkPastPiece ==
    LET fed  == hasher \o Bytes(position - remaining, position)
        full == bytes_in_current_piece + remaining = piece_size
    IN  /\ Goto("chunk", "chunk")
        /\ remaining > 0
        /\ remaining' = 0
        /\ hasher' = IF full THEN <<>> ELSE fed
        /\ bytes_in_current_piece' =
             IF full THEN 0 ELSE bytes_in_current_piece + remaining
        /\ hashes' = IF full THEN [hashes EXCEPT ![piece_index] = fed] ELSE hashes
        /\ piece_index' = IF full THEN piece_index + 1 ELSE piece_index
        /\ UNCHANGED <<file, stream, user, result, elapsed>>

\* One round of the inner loop: a chunk that does not reach past the piece.
HashChunk ==
    LET chunk == Least(remaining, piece_size - bytes_in_current_piece)
        from  == position - remaining
        fed   == hasher \o Bytes(from, from + chunk)
        full  == bytes_in_current_piece + chunk = piece_size
    IN  /\ Goto("chunk", "chunk")
        /\ remaining > 0
        /\ remaining' = remaining - chunk
        /\ hasher' = IF full THEN <<>> ELSE fed
        /\ bytes_in_current_piece' =
             IF full THEN 0 ELSE bytes_in_current_piece + chunk
        /\ hashes' = IF full THEN [hashes EXCEPT ![piece_index] = fed] ELSE hashes
        /\ piece_index' = IF full THEN piece_index + 1 ELSE piece_index
        /\ UNCHANGED <<file, stream, user, result, elapsed>>

BufferDone ==
    /\ Goto("chunk", "time")
    /\ remaining = 0
    /\ UNCHANGED <<file, stream, pieces, user, remaining, result, elapsed>>

InTime ==
    /\ Goto("time", "key")
    /\ elapsed <= Limit
    /\ UNCHANGED <<file, stream, pieces, user, remaining, result, elapsed>>

\* "Hashing timeout after 30 seconds"
TimedOut ==
    /\ Goto("time", "done")
    /\ elapsed > Limit
    /\ result' = "timeout"
    /\ UNCHANGED <<file, stream, pieces, user, remaining, elapsed>>

\* FAULT: a key typed in the middle of a piece may be passed over.
NoKeyBetweenPieces ==
    /\ Goto("key", "loop")
    /\ keys = <<>> \/ bytes_in_current_piece > 0
    /\ ~idle
    /\ UNCHANGED <<file, stream, pieces, user, remaining, result, elapsed>>

\* check_key_press returns at once without a key.
NoKey ==
    /\ Goto("key", "loop")
    /\ keys = <<>>
    /\ ~idle
    /\ UNCHANGED <<file, stream, pieces, user, remaining, result, elapsed>>

\* One character is read, and one that does not mean 'quit' is dropped.
OtherKey ==
    /\ Goto("key", "loop")
    /\ keys # <<>> /\ Head(keys) # "q"
    /\ keys' = Tail(keys)
    /\ UNCHANGED <<file, stream, pieces, late, remaining, result, elapsed>>

\* "Process interrupted by user"
QuitKey ==
    /\ Goto("key", "done")
    /\ keys # <<>> /\ Head(keys) = "q"
    /\ keys' = Tail(keys)
    /\ result' = "interrupted"
    /\ UNCHANGED <<file, stream, pieces, late, remaining, elapsed>>

\* The stream is not good any more: the last piece is stored if it is short.
FinishPieces ==
    /\ Goto("loop", "done")
    /\ ~good
    /\ hashes' = IF bytes_in_current_piece > 0
                 THEN [hashes EXCEPT ![piece_index] = hasher] ELSE hashes
    /\ result' = "hashed"
    /\ UNCHANGED <<file, stream, user, hasher, bytes_in_current_piece,
                   piece_index, remaining, elapsed>>

HashStep ==
    \/ Read \/ ReadFails \/ HashChunk \/ BufferDone \/ InTime \/ TimedOut
    \/ NoKey \/ OtherKey \/ QuitKey \/ FinishPieces
--------------------------------------------------------------------------------
(* The clock and the user. *)

Tick ==
    /\ result = "running"
    /\ elapsed < MaxElapsed
    /\ elapsed' = elapsed + 1
    /\ UNCHANGED <<file, stream, pieces, user, pc, remaining, result>>

PressKey ==
    /\ result = "running"
    /\ ~idle
    /\ Len(keys) < MaxKeys
    /\ ~QuitTyped
    /\ \E key \in {"q", "x"} : keys' = Append(keys, key)
    /\ UNCHANGED <<file, stream, pieces, late, pc, remaining, result, elapsed>>

Next == HashStep \/ Tick \/ PressKey

Spec == Init /\ [][Next]_vars
--------------------------------------------------------------------------------
(* Properties. *)

\* Types: the sizes stay within the file and a piece is never overfilled.
TypeOK ==
    /\ size \in 0 .. MaxSize
    /\ piece_size \in PieceSizes
    /\ idle \in BOOLEAN
    /\ pc \in {"loop", "chunk", "time", "key", "done"}
    /\ position \in 0 .. size
    /\ good \in BOOLEAN
    /\ remaining \in 0 .. Least(BufferSize, position)
    /\ hasher \in Seq(0 .. size - 1)
    /\ bytes_in_current_piece \in 0 .. piece_size - 1
    /\ piece_index \in Nat
    /\ hashes \in [Pieces -> Seq(0 .. size - 1)]
    /\ result \in {"running", "hashed", "timeout", "interrupted"}
    /\ cut \in BOOLEAN
    /\ elapsed \in 0 .. MaxElapsed
    /\ keys \in Seq({"q", "x"})
    /\ late \in Nat

\* What the torrent must say of piece i.
PieceContent(i) == Bytes(PieceStart(i), Least(PieceStart(i) + piece_size, size))

Prefix(s, t) == Len(s) <= Len(t) /\ \A k \in DOMAIN s : s[k] = t[k]

\* Wherever buffers and pieces begin and end, a hash in the torrent is that of
\* exactly the bytes of its piece, and a call that returns has set all of them,
\* unless the disk delivered less than the file had (then the last piece that was
\* begun has the hash of its beginning).
HashesRight ==
    /\ \A i \in Pieces : \/ hashes[i] \in {<<>>, PieceContent(i)}
                         \/ cut /\ Prefix(hashes[i], PieceContent(i))
    /\ result = "hashed" /\ ~cut =>
         \A i \in Pieces : hashes[i] = PieceContent(i)

\* Why that is so: what has been taken from the buffers is the stored pieces and
\* the hasher's content, without a gap, and the stream ends early only when cut.
Consumed == position - remaining

NoGap ==
    /\ PieceStart(piece_index) + bytes_in_current_piece = Consumed
    /\ hasher = Bytes(PieceStart(piece_index), Consumed)

StoredInOrder ==
    \A i \in Pieces :
        /\ i < piece_index => hashes[i] = PieceContent(i)
        /\ i >= piece_index /\ pc # "done" => hashes[i] = <<>>

EndReached ==
    /\ ~good /\ ~cut => position = size
    /\ pc # "chunk" => remaining = 0
    /\ pc = "done" <=> result # "running"

IInv == TypeOK /\ NoGap /\ StoredInOrder /\ EndReached /\ HashesRight

\* A 'q' ends the call after at most one more buffer for every key typed ahead
\* of it, and one that was being begun.
QuitHeeded == late <= MaxKeys
================================================================================
