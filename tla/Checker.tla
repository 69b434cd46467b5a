--------------------------------- MODULE Checker ---------------------------------
(***************************************************************************)
(* TorrentChecker: which pieces of a content on disk does `check` report   *)
(* as corrupted, and does the content pass?                                *)
(*                                                                         *)
(* A torrent is [files, piece_length, v1, v2, content]: files in the order *)
(* of their offsets, each [size, pad], and the byte at each position.      *)
(* On disk a file is missing, [exists |-> FALSE, bytes |-> <<>>], or has   *)
(* bytes.  A hash stands for what was hashed.                              *)
(***************************************************************************)
EXTENDS Integers, FiniteSetsExt, SequencesExt

CONSTANT BlockSize      \* bytes of a leaf of a v2 hash tree: 16 KiB

\* Every file begins where the one before it ends.
FileStart(torrent, i) ==
    LET start[j \in 1..(Len(torrent.files) + 1)] ==
            IF j = 1 THEN 0 ELSE start[j - 1] + torrent.files[j - 1].size
    IN  start[i]
FileEnd(torrent, i)   == FileStart(torrent, i) + torrent.files[i].size
TotalSize(torrent)    == FileStart(torrent, Len(torrent.files) + 1)

PieceStart(torrent, k) == k * torrent.piece_length
PieceEnd(torrent, k) ==
    Min({PieceStart(torrent, k + 1), TotalSize(torrent)})
PieceIndices(torrent) ==
    {k \in 0..TotalSize(torrent) : PieceStart(torrent, k) < TotalSize(torrent)}

\* In version 2 every file begins a piece, and padding holds zeros.
IsContent(torrent) ==
    /\ torrent.files \in Seq([size : Nat, pad : BOOLEAN])
    /\ torrent.piece_length \in Nat \ {0}
    /\ {torrent.v1, torrent.v2} \subseteq BOOLEAN /\ (torrent.v1 \/ torrent.v2)
    /\ torrent.content \in [0..(TotalSize(torrent) - 1) -> Nat]
    /\ torrent.v2 => \A i \in DOMAIN torrent.files :
        IF torrent.files[i].pad
        THEN \A p \in FileStart(torrent, i)..(FileEnd(torrent, i) - 1) : torrent.content[p] = 0
        ELSE FileStart(torrent, i) % torrent.piece_length = 0

IsDisk(torrent, disk) ==
    \A i \in DOMAIN torrent.files :
        /\ disk[i] \in [exists : BOOLEAN, bytes : Seq(Nat)]
        /\ ~disk[i].exists => disk[i].bytes = <<>>

\* A state of the bisection: where it still looks, and the last file that would do.
Searches(torrent) ==
    LET n == Len(torrent.files) IN [lo : 1..(n + 1), hi : 0..n, result : 0..n]

\* FAULT: a file that ends where the piece begins is taken for its first file, and
\* the search goes on to the right of it.
FindFilePast(torrent, at) ==
    LET search[s \in Searches(torrent)] ==
            LET mid == s.lo + (s.hi - s.lo) \div 2
            IN  IF s.lo > s.hi THEN s.result
                ELSE IF FileEnd(torrent, mid) <= at + 1 THEN search[[s EXCEPT !.lo = mid + 1]]
                ELSE search[[s EXCEPT !.hi = mid - 1, !.result = mid]]
    IN  search[[lo |-> 1, hi |-> Len(torrent.files), result |-> 0]]

\* The first file that ends behind `at`, found by bisection; 0 if there is none.
find_file_for_piece(torrent, at) ==
    LET search[s \in Searches(torrent)] ==
            LET mid == s.lo + (s.hi - s.lo) \div 2
            IN  IF s.lo > s.hi THEN s.result
                ELSE IF FileEnd(torrent, mid) <= at THEN search[[s EXCEPT !.lo = mid + 1]]
                ELSE search[[s EXCEPT !.hi = mid - 1, !.result = mid]]
    IN  search[[lo |-> 1, hi |-> Len(torrent.files), result |-> 0]]

\* The files that are read for a piece: from the first one found to the last that
\* begins inside.
ReadFiles(torrent, k) ==
    LET first == find_file_for_piece(torrent, PieceStart(torrent, k))
    IN  {i \in DOMAIN torrent.files :
            /\ first # 0 /\ i >= first
            /\ FileStart(torrent, i) < PieceEnd(torrent, k)
            /\ FileEnd(torrent, i) > PieceStart(torrent, k)
            /\ ~torrent.files[i].pad}

\* The buffer holds zeros where no file could be opened or a file was too short.
read_piece_data(torrent, disk, k) ==
    LET Holds(i, p) == /\ disk[i].exists
                       /\ p \in FileStart(torrent, i)..(FileEnd(torrent, i) - 1)
                       /\ p - FileStart(torrent, i) < Len(disk[i].bytes)
    IN  [p \in PieceStart(torrent, k)..(PieceEnd(torrent, k) - 1) |->
            IF \E i \in ReadFiles(torrent, k) : Holds(i, p)
            THEN LET i == CHOOSE i \in ReadFiles(torrent, k) : Holds(i, p)
                 IN  disk[i].bytes[p - FileStart(torrent, i) + 1]
            ELSE 0]

verify_piece_v1(torrent, disk, k) ==
    read_piece_data(torrent, disk, k) =
        [p \in PieceStart(torrent, k)..(PieceEnd(torrent, k) - 1) |-> torrent.content[p]]

\* The file whose hashes cover a v2 piece: the one the piece begins in.
FileOfPiece(torrent, k) ==
    {i \in ReadFiles(torrent, k) : FileStart(torrent, i) <= PieceStart(torrent, k)}

Hash(bytes) == [tree |-> FALSE, bytes |-> bytes]

\* What a v2 torrent says of a piece of a file: SHA-256 of the bytes when a single
\* block is all there can be, else the root of a tree with a leaf for each block.
LayerHash(torrent, i, k) ==
    LET last == Min({PieceEnd(torrent, k), FileEnd(torrent, i)}) - 1
    IN  [tree |-> /\ torrent.files[i].size > BlockSize
                  /\ torrent.piece_length > BlockSize,
         bytes |-> [p \in PieceStart(torrent, k)..last |-> torrent.content[p]]]

\* The part of the buffer that belongs to the file is hashed as a whole; a piece
\* without a file is not looked at.
verify_piece_v2(torrent, disk, k) ==
    \A i \in FileOfPiece(torrent, k) :
        LET last == Min({PieceEnd(torrent, k), FileEnd(torrent, i)}) - 1
            buffer == read_piece_data(torrent, disk, k)
        IN  Hash([p \in PieceStart(torrent, k)..last |-> buffer[p]])
                = LayerHash(torrent, i, k)

verify_all_pieces(torrent, disk) ==
    {k \in PieceIndices(torrent) :
        ~ /\ torrent.v1 => verify_piece_v1(torrent, disk, k)
          /\ torrent.v2 => verify_piece_v2(torrent, disk, k)}

check_missing_files(torrent, disk) ==
    {i \in DOMAIN torrent.files : ~torrent.files[i].pad /\ ~disk[i].exists}

check(torrent, disk) ==
    LET corrupted == verify_all_pieces(torrent, disk)
        missing   == check_missing_files(torrent, disk)
    IN  [corrupted |-> corrupted, missing |-> missing,
         passed |-> corrupted = {} /\ missing = {}]
=================================================================================
