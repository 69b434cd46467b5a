------------------------------ MODULE CreateProofs ------------------------------
(***************************************************************************)
(* Theorems about Create: what is proved of the hashing carries over, an   *)
(* output is touched only with every hash made and with the user's leave,  *)
(* and a success is reported only for a torrent that is complete.          *)
(***************************************************************************)
EXTENDS Create, HashFileProofs

\* The order of the phases, and what is known in each.
InOrder ==
    /\ phase \in {"open", "write", "close", "report"} => result = "hashed"
    /\ phase \in {"ask", "hash", "open"} => out = before
    /\ phase \notin {"ask", "over"} =>
         before = "absent" \/ agreed \/ mode \in {"questions", "batch"}
    /\ phase = "report" => out = "whole" \/ (lost /\ out = "part")
    /\ status = "running" <=> phase # "over"

CInv == CreateTypeOK /\ InOrder /\ OutputKept /\ SuccessWhole

\* All that Create does beside hashing leaves the state of the hashing alone.
LEMMA StepHashes == [CreateNext]_<<hashing, created>> => [Next]_vars
<1> SUFFICES ASSUME [CreateNext]_<<hashing, created>> PROVE [Next]_vars
  OBVIOUS
<1>1. CASE Hash
  BY <1>1 DEF Hash
<1>2. CASE CreateStep
  BY <1>2 DEF CreateStep, NoQuestion, Agree, Decline, Hashed, GivenUp, Open, OpenFails,
              NoEntropy, WriteTorrent, WriteFails, Close, Report, Continue, Over, To,
              hashing
<1>3. CASE UNCHANGED <<hashing, created>>
  BY <1>3 DEF hashing
<1> QED
  BY <1>1, <1>2, <1>3 DEF CreateNext

LEMMA CInvInit == CreateInit => CInv
<1> SUFFICES ASSUME CreateInit PROVE CInv
  OBVIOUS
<1>1. result = "running"
  BY DEF CreateInit, Init
<1> QED
  BY <1>1 DEF CreateInit, CInv, CreateTypeOK, InOrder, OutputKept, SuccessWhole, Modes

LEMMA CInvNext == IInv /\ CInv /\ [CreateNext]_<<hashing, created>> => CInv'
<1> SUFFICES ASSUME IInv, CInv, [CreateNext]_<<hashing, created>> PROVE CInv'
  OBVIOUS
<1> USE DEF CInv
<1>1. CASE Hash
  <2>1. /\ phase = "hash" /\ out = before /\ status = "running"
        /\ UNCHANGED <<mode, before, agreed, out, lost, phase, status>>
    BY <1>1 DEF Hash, created, output, InOrder
  <2> QED
    BY <2>1 DEF CreateTypeOK, InOrder, OutputKept, SuccessWhole
<1>2. CASE UNCHANGED <<hashing, created>>
  <2>1. /\ UNCHANGED <<mode, before, agreed, out, lost, phase, status>>
        /\ UNCHANGED <<result, cut, hashes, size, piece_size>>
    BY <1>2 DEF hashing, created, output, vars, file, stream, pieces
  <2>2. (\A i \in Pieces : hashes[i] = PieceContent(i))'
          = \A i \in Pieces : hashes[i] = PieceContent(i)
    BY <2>1 DEF Pieces, PieceStart, PieceContent, Least, Bytes
  <2> QED
    BY <2>1, <2>2 DEF CreateTypeOK, InOrder, OutputKept, SuccessWhole
<1>3. CASE CreateStep
  <2>1. UNCHANGED <<mode, result, cut, hashes, size, piece_size>>
    BY <1>3 DEF CreateStep, NoQuestion, Agree, Decline, Hashed, GivenUp, Open, OpenFails,
                NoEntropy, WriteTorrent, WriteFails, Close, Report, Continue, Over, To,
                hashing, vars, file, stream, pieces
  <2>2. (\A i \in Pieces : hashes[i] = PieceContent(i))'
          = \A i \in Pieces : hashes[i] = PieceContent(i)
    BY <2>1 DEF Pieces, PieceStart, PieceContent, Least, Bytes
  <2>3. result = "hashed" /\ ~cut => \A i \in Pieces : hashes[i] = PieceContent(i)
    BY DEF IInv, HashesRight
  <2> USE <2>1, <2>2, <2>3 DEF CreateTypeOK, InOrder, OutputKept, SuccessWhole, Continue,
                               Over, To, output, Modes
  <2>4. CASE NoQuestion
    BY <2>4 DEF NoQuestion
  <2>5. CASE Agree
    BY <2>5 DEF Agree
  <2>6. CASE Decline
    BY <2>6 DEF Decline, Declined
  <2>7. CASE Hashed
    BY <2>7 DEF Hashed
  <2>8. CASE GivenUp
    BY <2>8 DEF GivenUp
  <2>9. CASE Open
    BY <2>9 DEF Open
  <2>10. CASE OpenFails
    BY <2>10 DEF OpenFails
  <2>11. CASE NoEntropy
    BY <2>11 DEF NoEntropy
  <2>12. CASE WriteTorrent
    BY <2>12 DEF WriteTorrent
  <2>13. CASE WriteFails
    BY <2>13 DEF WriteFails
  <2>14. CASE Close
    BY <2>14 DEF Close
  <2>15. CASE Report
    BY <2>15 DEF Report
  <2> QED
    BY <1>3, <2>4, <2>5, <2>6, <2>7, <2>8, <2>9, <2>10, <2>11, <2>12, <2>13, <2>14, <2>15
    DEF CreateStep
<1> QED
  BY <1>1, <1>2, <1>3 DEF CreateNext

--------------------------------------------------------------------------------
\* A run of create hashes as hash_large_file does, so that every theorem about
\* HashFile holds of it.
THEOREM CreateHashes == CreateSpec => Spec
<1>1. CreateInit => Init
  BY DEF CreateInit
<1>2. [CreateNext]_<<hashing, created>> => [Next]_vars
  BY StepHashes
<1> QED
  BY <1>1, <1>2, PTL DEF CreateSpec, Spec

LEMMA AlwaysCInv == CreateSpec => []CInv
<1>1. CreateInit => CInv
  BY CInvInit
<1>2. IInv /\ CInv /\ [CreateNext]_<<hashing, created>> => CInv'
  BY CInvNext
<1> QED
  BY <1>1, <1>2, CreateHashes, AlwaysIInv, PTL DEF CreateSpec

\* A run of create stays within the types of its own state and of the hashing.
THEOREM CreateTyped == CreateSpec => [](TypeOK /\ CreateTypeOK)
<1>1. IInv /\ CInv => TypeOK /\ CreateTypeOK
  BY DEF IInv, CInv
<1> QED
  BY <1>1, CreateHashes, AlwaysIInv, AlwaysCInv, PTL

\* The hashes that a run of create writes are right.
THEOREM CreatedHashesRight == CreateSpec => []HashesRight
BY CreateHashes, EveryHashRight, PTL

\* No output is touched before every hash is made, and none that was there by a
\* command that was not told to overwrite it.
THEOREM KeptUntilHashed == CreateSpec => []OutputKept
<1>1. CInv => OutputKept
  BY DEF CInv
<1> QED
  BY <1>1, AlwaysCInv, PTL

\* A success is reported only for a torrent with every hash in it, that is whole but
\* for the bytes a full disk refuses when the stream is destroyed.
THEOREM SuccessIsWhole == CreateSpec => []SuccessWhole
<1>1. CInv => SuccessWhole
  BY DEF CInv
<1> QED
  BY <1>1, AlwaysCInv, PTL
=================================================================================
