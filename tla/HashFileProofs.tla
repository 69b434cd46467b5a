----------------------------- MODULE HashFileProofs -----------------------------
(***************************************************************************)
(* Theorems about HashFile, for every size of the file, the buffer and the *)
(* pieces: each hash covers exactly the bytes of its piece.                *)
(***************************************************************************)
EXTENDS HashFile, SequenceTheorems, TLAPS

LEMMA LeastFacts ==
    ASSUME NEW a \in Int, NEW b \in Int
    PROVE  /\ Least(a, b) \in Int
           /\ Least(a, b) <= a /\ Least(a, b) <= b
           /\ Least(a, b) = a \/ Least(a, b) = b
BY DEF Least

LEMMA BytesFacts ==
    ASSUME NEW a \in Nat, NEW b \in Nat, a <= b
    PROVE  /\ Bytes(a, b) \in Seq(Nat)
           /\ Len(Bytes(a, b)) = b - a
           /\ DOMAIN Bytes(a, b) = 1 .. b - a
           /\ \A k \in 1 .. b - a : Bytes(a, b)[k] = a + k - 1
BY DEF Bytes

LEMMA BytesBelow ==
    ASSUME NEW a \in Nat, NEW b \in Nat, a <= b, NEW n \in Nat, b <= n
    PROVE  Bytes(a, b) \in Seq(0 .. n - 1)
BY DEF Bytes

LEMMA BytesConcat ==
    ASSUME NEW a \in Nat, NEW b \in Nat, NEW c \in Nat, a <= b, b <= c
    PROVE  Bytes(a, b) \o Bytes(b, c) = Bytes(a, c)
BY DEF Bytes

LEMMA BytesEmpty ==
    ASSUME NEW a \in Nat
    PROVE  Bytes(a, a) = <<>>
BY DEF Bytes

LEMMA StartFacts ==
    ASSUME NEW i \in Nat, piece_size \in Nat \ {0}
    PROVE  /\ PieceStart(i) \in Nat
           /\ PieceStart(i + 1) = PieceStart(i) + piece_size
           /\ i <= PieceStart(i)
BY DEF PieceStart

LEMMA StartOrder ==
    ASSUME NEW i \in Nat, NEW j \in Nat, i < j, piece_size \in Nat \ {0}
    PROVE  PieceStart(i) + piece_size <= PieceStart(j)
BY DEF PieceStart

LEMMA InitIInv == Init => IInv
<1> SUFFICES ASSUME Init PROVE IInv
  OBVIOUS
<1>1. size \in Nat /\ piece_size \in Nat \ {0}
  BY HashAssumption DEF Init
<1>2. <<>> \in Seq(0 .. size - 1)
  OBVIOUS
<1>3. Least(BufferSize, 0) = 0
  BY HashAssumption DEF Least
<1>4. TypeOK
  <2>1. hashes \in [Pieces -> Seq(0 .. size - 1)] /\ hasher \in Seq(0 .. size - 1)
    BY <1>2 DEF Init
  <2>2. keys \in Seq({"q", "x"})
    BY DEF Init
  <2>3. /\ bytes_in_current_piece \in 0 .. piece_size - 1
        /\ remaining \in 0 .. Least(BufferSize, position)
        /\ position \in 0 .. size
    BY <1>1, <1>3 DEF Init
  <2>4. 0 \in 0 .. MaxElapsed
    BY HashAssumption
  <2> QED
    BY <2>1, <2>2, <2>3, <2>4 DEF Init, TypeOK
<1>5. NoGap
  <2>1. PieceStart(0) = 0
    BY <1>1 DEF PieceStart
  <2> QED
    BY <2>1, BytesEmpty DEF Init, NoGap, Consumed
<1>6. StoredInOrder
  BY DEF Init, StoredInOrder, Pieces
<1> QED
  BY <1>4, <1>5, <1>6 DEF Init, IInv, EndReached, HashesRight

--------------------------------------------------------------------------------
(* What the invariant says of the next chunk. *)

Chunk == Least(remaining, piece_size - bytes_in_current_piece)
Fed   == hasher \o Bytes(Consumed, Consumed + Chunk)

LEMMA Numbers ==
    ASSUME IInv
    PROVE  /\ size \in Nat /\ piece_size \in Nat \ {0}
           /\ piece_index \in Nat /\ PieceStart(piece_index) \in Nat
           /\ position \in Nat /\ position <= size
           /\ remaining \in Nat /\ remaining <= position
           /\ Consumed \in Nat
           /\ bytes_in_current_piece \in Nat
           /\ bytes_in_current_piece < piece_size
           /\ PieceStart(piece_index) + bytes_in_current_piece = Consumed
<1>1. /\ size \in Nat /\ piece_size \in Nat \ {0}
      /\ piece_index \in Nat
      /\ position \in Nat /\ position <= size
      /\ bytes_in_current_piece \in Nat
      /\ bytes_in_current_piece < piece_size
  BY HashAssumption DEF IInv, TypeOK
<1>2. /\ Least(BufferSize, position) \in Int
      /\ Least(BufferSize, position) <= position
  BY <1>1, HashAssumption, LeastFacts
<1>3. remaining \in Nat /\ remaining <= position
  BY <1>1, <1>2 DEF IInv, TypeOK
<1>4. Consumed \in Nat
  BY <1>1, <1>3 DEF Consumed
<1> QED
  BY <1>1, <1>3, <1>4, StartFacts DEF IInv, NoGap

LEMMA ChunkNumbers ==
    ASSUME IInv
    PROVE  /\ Chunk \in Nat /\ Chunk <= remaining
           /\ bytes_in_current_piece + Chunk <= piece_size
           /\ Consumed + Chunk <= size
           /\ PieceStart(piece_index) + bytes_in_current_piece + Chunk
                = Consumed + Chunk
<1>1. /\ Chunk \in Nat /\ Chunk <= remaining
      /\ bytes_in_current_piece + Chunk <= piece_size
  BY Numbers DEF Chunk, Least
<1>2. Consumed + Chunk <= size
  BY <1>1, Numbers DEF Consumed
<1> QED
  BY <1>1, <1>2, Numbers

LEMMA NextChunk ==
    ASSUME IInv
    PROVE  /\ Fed = Bytes(PieceStart(piece_index), Consumed + Chunk)
           /\ Fed \in Seq(0 .. size - 1)
<1>1. Chunk \in Nat
  BY ChunkNumbers
<1>2. Consumed + Chunk <= size
  BY ChunkNumbers
<1>3. Fed = Bytes(PieceStart(piece_index), Consumed + Chunk)
  <2>1. /\ PieceStart(piece_index) \in Nat /\ Consumed \in Nat
        /\ Consumed + Chunk \in Nat
        /\ PieceStart(piece_index) <= Consumed /\ Consumed <= Consumed + Chunk
    BY <1>1, Numbers
  <2>2. hasher = Bytes(PieceStart(piece_index), Consumed)
    BY DEF IInv, NoGap
  <2> QED
    BY <2>1, <2>2, BytesConcat DEF Fed
<1> QED
  BY <1>1, <1>2, <1>3, Numbers, BytesBelow

\* A piece that is full has its content, and is one of the torrent's.
LEMMA FullPiece ==
    ASSUME IInv, bytes_in_current_piece + Chunk = piece_size
    PROVE  piece_index \in Pieces /\ Fed = PieceContent(piece_index)
<1>1. PieceStart(piece_index) + piece_size = Consumed + Chunk
  BY ChunkNumbers, Numbers
<1>2. PieceStart(piece_index) + piece_size <= size
  BY <1>1, ChunkNumbers
<1>3. piece_index \in Pieces
  BY <1>2, Numbers, StartFacts DEF Pieces
<1>4. Least(PieceStart(piece_index) + piece_size, size) = Consumed + Chunk
  BY <1>1, <1>2, Numbers DEF Least
<1> QED
  BY <1>3, <1>4, NextChunk DEF PieceContent

--------------------------------------------------------------------------------
(* Every step keeps the invariant. *)

\* Steps that leave pieces, stream and buffer alone.
LEMMA OtherSteps ==
    ASSUME IInv, UNCHANGED <<file, stream, pieces, remaining>>,
           pc' \in {"loop", "chunk", "time", "key", "done"},
           pc = "chunk" /\ pc' # "chunk" => remaining = 0,
           pc = "done" => pc' = "done",
           result' \in {"running", "hashed", "timeout", "interrupted"},
           result' = "hashed" => result = "hashed",
           pc' = "done" <=> result' # "running",
           elapsed' \in 0 .. MaxElapsed,
           keys' \in Seq({"q", "x"}), late' \in Nat
    PROVE  IInv'
<1> USE DEF file, stream, pieces
<1>1. TypeOK'
  BY DEF IInv, TypeOK, Pieces, PieceStart, Least
<1>2. NoGap'
  BY DEF IInv, NoGap, Consumed, PieceStart, Bytes
<1>3. StoredInOrder'
  BY DEF IInv, StoredInOrder, Pieces, PieceContent, PieceStart, Least, Bytes
<1>4. EndReached'
  BY DEF IInv, EndReached
<1>5. HashesRight'
  <2>1. Pieces' = Pieces /\ UNCHANGED <<hashes, cut>>
    BY DEF Pieces, PieceStart
  <2>2. \A i \in Pieces : PieceContent(i)' = PieceContent(i)
    BY DEF PieceContent, PieceStart
  <2> QED
    BY <2>1, <2>2 DEF IInv, HashesRight
<1> QED
  BY <1>1, <1>2, <1>3, <1>4, <1>5 DEF IInv

LEMMA ReadIInv ==
    ASSUME IInv, Read \/ ReadFails
    PROVE  IInv'
<1> USE DEF file, stream, pieces, Goto
<1>1. remaining = 0 /\ Consumed = position /\ pc = "loop" /\ pc' = "chunk"
  BY Numbers DEF IInv, EndReached, Read, ReadFails, Deliver, Consumed
<1>2. PICK n \in Nat :
        /\ n <= BufferSize /\ n <= size - position
        /\ position' = position + n
        /\ remaining' = n
        /\ good' \in BOOLEAN
        /\ ~good' => n = size - position \/ cut'
  <2>1. CASE Read
    <3> DEFINE n == Least(BufferSize, size - position)
    <3>1. n \in Nat /\ n <= BufferSize /\ n <= size - position
      BY Numbers, HashAssumption DEF Least
    <3>2. n < BufferSize => n = size - position
      BY Numbers, HashAssumption DEF Least
    <3> QED
      BY <2>1, <3>1, <3>2 DEF Read, Deliver
  <2>2. CASE ReadFails
    <3>1. PICK n \in 0 .. BufferSize - 1 : n < size - position /\ Deliver(n, TRUE)
      BY <2>2 DEF ReadFails
    <3>2. n \in Nat /\ n <= BufferSize /\ n <= size - position /\ cut'
      BY <2>2, <3>1, Numbers, HashAssumption DEF ReadFails
    <3> QED
      BY <3>1, <3>2 DEF Deliver
  <2> QED
    BY <2>1, <2>2
<1>3. /\ UNCHANGED <<file, pieces, result, elapsed, keys>>
      /\ cut' \in BOOLEAN /\ late' \in Nat
      /\ cut => cut'
  <2>1. PICK bytes, end : Deliver(bytes, end)
    BY DEF Read, ReadFails
  <2>2. cut' = cut \/ cut' = TRUE
    BY DEF Read, ReadFails
  <2>3. /\ UNCHANGED <<file, pieces, result, elapsed, keys>>
        /\ late' \in Nat
    BY <2>1 DEF Deliver, IInv, TypeOK
  <2> QED
    BY <2>2, <2>3 DEF IInv, TypeOK
<1>4. Consumed' = Consumed
  BY <1>1, <1>2, Numbers DEF Consumed
<1>5. Pieces' = Pieces
  BY <1>3 DEF Pieces, PieceStart
<1>6. \A i \in Pieces : PieceContent(i)' = PieceContent(i)
  BY <1>3 DEF PieceContent, PieceStart
<1>7. TypeOK'
  <2>1. position' \in 0 .. size
    BY <1>2, Numbers
  <2>2. remaining' \in 0 .. Least(BufferSize, position')
    BY <1>2, Numbers, HashAssumption DEF Least
  <2> QED
    BY <1>1, <1>2, <1>3, <1>5, <2>1, <2>2 DEF IInv, TypeOK
<1>8. NoGap'
  BY <1>3, <1>4 DEF IInv, NoGap, PieceStart
<1>9. StoredInOrder'
  BY <1>1, <1>3, <1>5, <1>6 DEF IInv, StoredInOrder
<1>10. EndReached'
  BY <1>1, <1>2, <1>3, Numbers DEF IInv, EndReached
<1>11. HashesRight'
  <2>1. result' = "running"
    BY <1>1, <1>3 DEF IInv, EndReached
  <2> QED
    BY <1>3, <1>5, <1>6, <2>1 DEF IInv, HashesRight
<1> QED
  BY <1>7, <1>8, <1>9, <1>10, <1>11 DEF IInv

LEMMA HashChunkIInv ==
    ASSUME IInv, HashChunk
    PROVE  IInv'
<1> DEFINE full == bytes_in_current_piece + Chunk = piece_size
<1>1. /\ pc = "chunk" /\ pc' = "chunk"
      /\ remaining' = remaining - Chunk
      /\ hasher' = IF full THEN <<>> ELSE Fed
      /\ bytes_in_current_piece' =
           IF full THEN 0 ELSE bytes_in_current_piece + Chunk
      /\ hashes' = IF full THEN [hashes EXCEPT ![piece_index] = Fed] ELSE hashes
      /\ piece_index' = IF full THEN piece_index + 1 ELSE piece_index
      /\ UNCHANGED <<size, piece_size, idle, position, good, cut, result, elapsed,
                     keys, late>>
  BY DEF HashChunk, Goto, Chunk, Fed, Consumed, file, stream, user
<1>2. Pieces' = Pieces
  BY <1>1 DEF Pieces, PieceStart
<1>3. \A i \in Pieces : PieceContent(i)' = PieceContent(i)
  BY <1>1 DEF PieceContent, PieceStart
<1>4. Consumed' = Consumed + Chunk
  BY <1>1, Numbers, ChunkNumbers DEF Consumed
<1>5. TypeOK'
  <2>1. remaining' \in 0 .. Least(BufferSize, position)
    <3>1. remaining \in 0 .. Least(BufferSize, position)
      BY DEF IInv, TypeOK
    <3>2. Least(BufferSize, position) \in Int
      BY Numbers, HashAssumption DEF Least
    <3> QED
      BY <1>1, <3>1, <3>2, Numbers, ChunkNumbers
  <2>2. hasher' \in Seq(0 .. size - 1)
    <3>1. <<>> \in Seq(0 .. size - 1)
      OBVIOUS
    <3> QED
      BY <1>1, <3>1, NextChunk
  <2>3. bytes_in_current_piece' \in 0 .. piece_size - 1
    BY <1>1, Numbers, ChunkNumbers
  <2>4. piece_index' \in Nat
    BY <1>1, Numbers
  <2>5. hashes' \in [Pieces -> Seq(0 .. size - 1)]
    BY <1>1, NextChunk DEF IInv, TypeOK
  <2> QED
    BY <1>1, <1>2, <2>1, <2>2, <2>3, <2>4, <2>5 DEF IInv, TypeOK
<1>6. NoGap'
  <2>1. CASE full
    <3>1. PieceStart(piece_index)' = Consumed + Chunk
      <4>1. PieceStart(piece_index)' = PieceStart(piece_index + 1)
        BY <1>1, <2>1 DEF PieceStart
      <4>2. PieceStart(piece_index + 1) = PieceStart(piece_index) + piece_size
        BY Numbers, StartFacts
      <4> QED
        BY <2>1, <4>1, <4>2, Numbers, ChunkNumbers
    <3>2. hasher' = Bytes(Consumed + Chunk, Consumed + Chunk)
      BY <1>1, <2>1, Numbers, ChunkNumbers, BytesEmpty
    <3>3. Bytes(PieceStart(piece_index), Consumed)'
            = Bytes(PieceStart(piece_index)', Consumed')
      BY DEF Bytes
    <3>4. PieceStart(piece_index)' + bytes_in_current_piece' = Consumed'
      BY <1>1, <1>4, <2>1, <3>1, Numbers, ChunkNumbers
    <3> QED
      BY <1>4, <3>1, <3>2, <3>3, <3>4 DEF NoGap
  <2>2. CASE ~full
    <3>1. PieceStart(piece_index)' = PieceStart(piece_index)
      BY <1>1, <2>2 DEF PieceStart
    <3>2. Bytes(PieceStart(piece_index), Consumed)'
            = Bytes(PieceStart(piece_index)', Consumed')
      BY DEF Bytes
    <3>3. hasher' = Bytes(PieceStart(piece_index), Consumed + Chunk)
      BY <1>1, <2>2, NextChunk
    <3>4. PieceStart(piece_index)' + bytes_in_current_piece' = Consumed'
      BY <1>1, <1>4, <2>2, <3>1, Numbers, ChunkNumbers
    <3> QED
      BY <1>4, <3>1, <3>2, <3>3, <3>4 DEF NoGap
  <2> QED
    BY <2>1, <2>2
<1>7. StoredInOrder'
  <2> SUFFICES ASSUME NEW i \in Pieces
               PROVE  /\ i < piece_index' => hashes'[i] = PieceContent(i)
                      /\ i >= piece_index' => hashes'[i] = <<>>
    BY <1>2, <1>3 DEF StoredInOrder
  <2>1. i \in Nat
    BY Numbers DEF Pieces
  <2>2. /\ i < piece_index => hashes[i] = PieceContent(i)
        /\ i >= piece_index => hashes[i] = <<>>
    BY <1>1 DEF IInv, StoredInOrder
  <2>3. CASE full
    <3>1. piece_index \in Pieces /\ Fed = PieceContent(piece_index)
      BY <2>3, FullPiece
    <3>2. hashes'[i] = IF i = piece_index THEN Fed ELSE hashes[i]
      BY <1>1, <2>3, <3>1 DEF IInv, TypeOK
    <3> QED
      BY <1>1, <2>1, <2>2, <2>3, <3>1, <3>2, Numbers
  <2>4. CASE ~full
    BY <1>1, <2>2, <2>4
  <2> QED
    BY <2>3, <2>4
<1>8. EndReached'
  BY <1>1 DEF IInv, EndReached
<1>9. HashesRight'
  <2>1. result' = "running"
    BY <1>1 DEF IInv, EndReached
  <2>2. \A i \in Pieces : hashes'[i] \in {<<>>, PieceContent(i)}
    <3> SUFFICES ASSUME NEW i \in Pieces
                 PROVE  hashes'[i] \in {<<>>, PieceContent(i)}
      OBVIOUS
    <3>1. i \in Nat /\ piece_index' \in Nat
      BY <1>1, Numbers DEF Pieces
    <3>2. i < piece_index' \/ i >= piece_index'
      BY <3>1
    <3> QED
      BY <1>1, <1>2, <1>3, <1>7, <3>2 DEF StoredInOrder
  <2> QED
    BY <1>2, <1>3, <2>1, <2>2 DEF HashesRight
<1> QED
  BY <1>5, <1>6, <1>7, <1>8, <1>9 DEF IInv

LEMMA FinishIInv ==
    ASSUME IInv, FinishPieces
    PROVE  IInv'
<1>1. /\ pc = "loop" /\ pc' = "done" /\ ~good /\ result' = "hashed"
      /\ hashes' = IF bytes_in_current_piece > 0
                   THEN [hashes EXCEPT ![piece_index] = hasher] ELSE hashes
      /\ UNCHANGED <<size, piece_size, idle, position, good, cut, hasher,
                     bytes_in_current_piece, piece_index, remaining, elapsed,
                     keys, late>>
  BY DEF FinishPieces, Goto, file, stream, user
<1>2. Pieces' = Pieces
  BY <1>1 DEF Pieces, PieceStart
<1>3. \A i \in Pieces : PieceContent(i)' = PieceContent(i)
  BY <1>1 DEF PieceContent, PieceStart
<1>4. Consumed = position /\ (~cut => position = size)
  BY <1>1, Numbers DEF IInv, EndReached, Consumed
<1>5. bytes_in_current_piece > 0 => piece_index \in Pieces
  <2> SUFFICES ASSUME bytes_in_current_piece > 0
               PROVE  piece_index \in Pieces
    OBVIOUS
  <2>1. PieceStart(piece_index) < size
    BY Numbers, <1>4
  <2> QED
    BY <2>1, Numbers, StartFacts DEF Pieces
<1>6. hashes' \in [Pieces -> Seq(0 .. size - 1)]
  BY <1>1 DEF IInv, TypeOK
<1>7. TypeOK'
  BY <1>1, <1>2, <1>6 DEF IInv, TypeOK
<1>8. NoGap'
  BY <1>1 DEF IInv, NoGap, Consumed, PieceStart, Bytes
<1>9. \A i \in Pieces : i # piece_index => hashes'[i] = hashes[i]
  BY <1>1 DEF IInv, TypeOK
<1>10. StoredInOrder'
  <2>1. \A i \in Pieces : i < piece_index => i # piece_index
    BY Numbers DEF Pieces
  <2> QED
    BY <1>1, <1>2, <1>3, <1>9, <2>1 DEF IInv, StoredInOrder
<1>11. EndReached'
  BY <1>1 DEF IInv, EndReached
<1>12. HashesRight'
  <2> SUFFICES ASSUME NEW i \in Pieces
               PROVE  /\ \/ hashes'[i] \in {<<>>, PieceContent(i)}
                         \/ cut /\ Prefix(hashes'[i], PieceContent(i))
                      /\ ~cut => hashes'[i] = PieceContent(i)
    BY <1>1, <1>2, <1>3 DEF HashesRight
  <2>1. i \in Nat /\ PieceStart(i) < size
    BY Numbers DEF Pieces
  <2>2. CASE i < piece_index
    BY <1>9, <2>1, <2>2, Numbers DEF IInv, StoredInOrder
  <2>3. CASE i = piece_index /\ bytes_in_current_piece > 0
    <3>1. hashes'[i] = Bytes(PieceStart(i), position)
      BY <1>1, <1>4, <2>3 DEF IInv, TypeOK, NoGap
    <3>2. /\ PieceStart(i) \in Nat /\ PieceStart(i) <= position
          /\ position <= PieceStart(i) + piece_size /\ position <= size
      BY <1>4, <2>3, Numbers
    <3>3. CASE cut
      <4> DEFINE end == Least(PieceStart(i) + piece_size, size)
      <4>1. end \in Nat /\ position <= end /\ PieceStart(i) <= end
        BY <3>2, Numbers DEF Least
      <4>2. Prefix(Bytes(PieceStart(i), position), Bytes(PieceStart(i), end))
        <5>1. /\ Len(Bytes(PieceStart(i), position)) = position - PieceStart(i)
              /\ DOMAIN Bytes(PieceStart(i), position)
                   = 1 .. position - PieceStart(i)
              /\ \A k \in 1 .. position - PieceStart(i) :
                   Bytes(PieceStart(i), position)[k] = PieceStart(i) + k - 1
          BY <3>2, Numbers, BytesFacts
        <5>2. /\ Len(Bytes(PieceStart(i), end)) = end - PieceStart(i)
              /\ \A k \in 1 .. end - PieceStart(i) :
                   Bytes(PieceStart(i), end)[k] = PieceStart(i) + k - 1
          BY <3>2, <4>1, BytesFacts
        <5> HIDE DEF end
        <5> QED
          BY <3>2, <4>1, <5>1, <5>2, Numbers DEF Prefix
      <4> QED
        BY <3>1, <3>3, <4>2 DEF PieceContent
    <3>4. CASE ~cut
      <4>1. Least(PieceStart(i) + piece_size, size) = position
        BY <1>4, <3>2, <3>4, Numbers DEF Least
      <4> QED
        BY <3>1, <3>4, <4>1 DEF PieceContent
    <3> QED
      BY <3>3, <3>4
  <2>4. CASE i > piece_index \/ (i = piece_index /\ ~(bytes_in_current_piece > 0))
    <3>1. hashes'[i] = <<>>
      BY <1>1, <1>9, <2>1, <2>4, Numbers DEF IInv, StoredInOrder
    <3>2. CASE cut
      BY <3>1, <3>2
    <3>3. CASE ~cut
      <4>1. PieceStart(piece_index) + bytes_in_current_piece = size
        BY <1>4, <3>3, Numbers
      <4>2. CASE i = piece_index
        BY <2>1, <2>4, <4>1, <4>2, Numbers
      <4>3. CASE i > piece_index
        <5>1. PieceStart(piece_index) + piece_size <= PieceStart(i)
          BY <2>1, <4>3, Numbers, StartOrder
        <5>2. PieceStart(i) \in Nat
          BY <2>1, Numbers, StartFacts
        <5> QED
          BY <2>1, <4>1, <5>1, <5>2, Numbers
      <4> QED
        BY <2>4, <4>2, <4>3
    <3> QED
      BY <3>2, <3>3
  <2> QED
    BY <2>1, <2>2, <2>3, <2>4, Numbers
<1> QED
  BY <1>7, <1>8, <1>10, <1>11, <1>12 DEF IInv

LEMMA NextIInv == IInv /\ [Next]_vars => IInv'
<1> SUFFICES ASSUME IInv, [Next]_vars PROVE IInv'
  OBVIOUS
<1>1. CASE Read \/ ReadFails
  BY <1>1, ReadIInv
<1>2. CASE HashChunk
  BY <1>2, HashChunkIInv
<1>3. CASE FinishPieces
  BY <1>3, FinishIInv
<1>4. /\ pc \in {"loop", "chunk", "time", "key", "done"}
      /\ result \in {"running", "hashed", "timeout", "interrupted"}
      /\ pc = "done" <=> result # "running"
      /\ elapsed \in 0 .. MaxElapsed
      /\ keys \in Seq({"q", "x"}) /\ late \in Nat
  BY DEF IInv, TypeOK, EndReached
<1>5. CASE BufferDone
  <2>1. /\ UNCHANGED <<file, stream, pieces, remaining>>
        /\ UNCHANGED <<keys, late, elapsed, result>>
        /\ pc = "chunk" /\ pc' = "time" /\ remaining = 0
    BY <1>5 DEF BufferDone, Goto, user
  <2>2. result' = "running"
    BY <1>4, <2>1
  <2> QED
    BY <1>4, <2>1, <2>2, OtherSteps
<1>6. CASE InTime \/ NoKey
  <2>1. /\ UNCHANGED <<file, stream, pieces, remaining>>
        /\ UNCHANGED <<keys, late, elapsed, result>>
        /\ pc \in {"time", "key"} /\ pc' \in {"key", "loop"}
    BY <1>6 DEF InTime, NoKey, Goto, user
  <2>2. result' = "running"
    BY <1>4, <2>1
  <2> QED
    BY <1>4, <2>1, <2>2, OtherSteps
<1>7. CASE TimedOut
  <2>1. /\ UNCHANGED <<file, stream, pieces, remaining>>
        /\ UNCHANGED <<keys, late, elapsed>>
        /\ pc = "time" /\ pc' = "done" /\ result' = "timeout"
    BY <1>7 DEF TimedOut, Goto, user
  <2> QED
    BY <1>4, <2>1, OtherSteps
<1>8. CASE OtherKey \/ QuitKey
  <2>1. keys # <<>> /\ keys' = Tail(keys)
    BY <1>8 DEF OtherKey, QuitKey
  <2>2. keys' \in Seq({"q", "x"})
    BY <1>4, <2>1, HeadTailProperties
  <2>3. CASE OtherKey
    <3>1. /\ UNCHANGED <<file, stream, pieces, remaining>>
          /\ UNCHANGED <<late, elapsed, result>>
          /\ pc = "key" /\ pc' = "loop"
      BY <2>3 DEF OtherKey, Goto
    <3>2. result' = "running"
      BY <1>4, <3>1
    <3> QED
      BY <1>4, <2>2, <3>1, <3>2, OtherSteps
  <2>4. CASE QuitKey
    <3>1. /\ UNCHANGED <<file, stream, pieces, remaining>>
          /\ UNCHANGED <<late, elapsed>>
          /\ pc = "key" /\ pc' = "done" /\ result' = "interrupted"
      BY <2>4 DEF QuitKey, Goto
    <3> QED
      BY <1>4, <2>2, <3>1, OtherSteps
  <2> QED
    BY <1>8, <2>3, <2>4
<1>9. CASE Tick
  <2>1. elapsed' \in 0 .. MaxElapsed
    BY <1>4, <1>9, HashAssumption DEF Tick
  <2> QED
    BY <1>4, <1>9, <2>1, OtherSteps DEF Tick, user
<1>10. CASE PressKey
  <2>1. keys' \in Seq({"q", "x"})
    BY <1>4, <1>10 DEF PressKey
  <2> QED
    BY <1>4, <1>10, <2>1, OtherSteps DEF PressKey
<1>11. CASE UNCHANGED vars
  BY <1>4, <1>11, OtherSteps DEF vars, user
<1> QED
  BY <1>1, <1>2, <1>3, <1>5, <1>6, <1>7, <1>8, <1>9, <1>10, <1>11
  DEF Next, HashStep

LEMMA AlwaysIInv == Spec => []IInv
<1>1. Init => IInv
  BY InitIInv
<1>2. IInv /\ [Next]_vars => IInv'
  BY NextIInv
<1> QED
  BY <1>1, <1>2, PTL DEF Spec

--------------------------------------------------------------------------------
\* hash_large_file stays within the file and never overfills a piece, for every
\* size of the file, the buffer and the pieces.
THEOREM Typed == Spec => []TypeOK
<1>1. IInv => TypeOK
  BY DEF IInv
<1> QED
  BY <1>1, AlwaysIInv, PTL

\* Each hash stored by hash_large_file covers exactly the bytes of its piece, and
\* a call that returns has stored all of them unless the disk cut the file short.
THEOREM EveryHashRight == Spec => []HashesRight
<1>1. IInv => HashesRight
  BY DEF IInv
<1> QED
  BY <1>1, AlwaysIInv, PTL
--------------------------------------------------------------------------------
(* How long a 'q' may wait.  Every read begun since it was typed is followed by *)
(* one look at the keys, and no key is typed behind a 'q'.                      *)

Waiting ==
    /\ late <= MaxKeys
    /\ QuitTyped => late + Len(keys) <= MaxKeys + IF pc = "loop" THEN 0 ELSE 1
    /\ ~QuitTyped => late = 0 \/ pc = "done"

LEMMA WaitingInit == Init => Waiting
BY HashAssumption DEF Init, Waiting, QuitTyped

LEMMA WaitingNext == IInv /\ Waiting /\ [Next]_vars => Waiting'
<1> SUFFICES ASSUME IInv, Waiting, [Next]_vars PROVE Waiting'
  OBVIOUS
<1>1. /\ keys \in Seq({"q", "x"}) /\ late \in Nat /\ MaxKeys \in Nat
      /\ Len(keys) \in Nat
      /\ result = "running" => pc # "done"
  BY HashAssumption DEF IInv, TypeOK, EndReached
<1>2. QuitTyped => Len(keys) >= 1
  BY <1>1 DEF QuitTyped
<1>3. CASE Read \/ ReadFails
  <2>1. /\ pc = "loop" /\ pc' = "chunk" /\ keys' = keys
        /\ late' = IF QuitTyped THEN late + 1 ELSE late
    BY <1>3 DEF Read, ReadFails, Deliver, Goto
  <2> QED
    BY <1>1, <1>2, <2>1 DEF Waiting, QuitTyped
<1>4. CASE HashChunk \/ BufferDone \/ InTime \/ TimedOut \/ FinishPieces
  <2>1. /\ keys' = keys /\ late' = late
        /\ pc' # "loop" /\ pc # "done"
    BY <1>4
    DEF HashChunk, BufferDone, InTime, TimedOut, FinishPieces, Goto, user
  <2> QED
    BY <1>1, <1>2, <2>1 DEF Waiting, QuitTyped
<1>5. CASE NoKey
  <2>1. /\ keys = <<>> /\ keys' = keys /\ late' = late /\ pc = "key"
    BY <1>5 DEF NoKey, Goto, user
  <2>2. ~QuitTyped /\ ~QuitTyped'
    BY <2>1 DEF QuitTyped
  <2> QED
    BY <1>1, <2>1, <2>2 DEF Waiting
<1>6. CASE OtherKey \/ QuitKey
  <2>1. /\ keys # <<>> /\ keys' = Tail(keys) /\ late' = late /\ pc = "key"
        /\ pc' \in {"loop", "done"}
    BY <1>6 DEF OtherKey, QuitKey, Goto
  <2>2. /\ keys' \in Seq({"q", "x"}) /\ Len(keys') = Len(keys) - 1
        /\ \A k \in 1 .. Len(keys) - 1 : keys'[k] = keys[k + 1]
    BY <1>1, <2>1
  <2>3. QuitTyped' => QuitTyped
    BY <1>1, <2>2 DEF QuitTyped
  <2>4. QuitTyped' \/ late = 0 \/ pc' = "done"
    <3>1. CASE QuitKey
      BY <3>1 DEF QuitKey, Goto
    <3>2. CASE OtherKey /\ QuitTyped
      <4>1. Head(keys) # "q"
        BY <3>2 DEF OtherKey
      <4>2. keys[1] # "q"
        BY <2>1, <4>1, <1>1
      <4>3. PICK k \in 1 .. Len(keys) : keys[k] = "q"
        BY <1>1, <3>2 DEF QuitTyped
      <4>4. k - 1 \in 1 .. Len(keys) - 1 /\ keys'[k - 1] = "q"
        BY <1>1, <2>2, <4>2, <4>3
      <4> QED
        BY <2>2, <4>4 DEF QuitTyped
    <3>3. CASE ~QuitTyped
      BY <2>1, <3>3 DEF Waiting
    <3> QED
      BY <1>6, <3>1, <3>2, <3>3
  <2> QED
    BY <1>1, <2>1, <2>2, <2>3, <2>4 DEF Waiting
<1>7. CASE Tick
  BY <1>7 DEF Tick, user, Waiting, QuitTyped
<1>8. CASE PressKey
  <2>1. /\ late' = late /\ pc' = pc /\ ~QuitTyped
        /\ pc # "done"
        /\ Len(keys) < MaxKeys
    BY <1>1, <1>8 DEF PressKey
  <2>2. late = 0
    BY <2>1 DEF Waiting
  <2>3. Len(keys') = Len(keys) + 1
    BY <1>1, <1>8 DEF PressKey
  <2> QED
    BY <1>1, <2>1, <2>2, <2>3 DEF Waiting
<1>9. CASE UNCHANGED vars
  BY <1>9 DEF vars, user, Waiting, QuitTyped
<1> QED
  BY <1>3, <1>4, <1>5, <1>6, <1>7, <1>8, <1>9 DEF Next, HashStep

\* Of the buffers that hash_large_file reads after a 'q' was typed there are no more
\* than keys are typed ahead, for every size of the file and the buffer.
THEOREM QuitSoon == Spec => []QuitHeeded
<1>1. Init => Waiting
  BY WaitingInit
<1>2. IInv /\ Waiting /\ [Next]_vars => Waiting'
  BY WaitingNext
<1>3. Waiting => QuitHeeded
  BY DEF Waiting, QuitHeeded
<1> QED
  BY <1>1, <1>2, <1>3, AlwaysIInv, PTL DEF Spec
================================================================================
