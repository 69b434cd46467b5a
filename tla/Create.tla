--------------------------------- MODULE Create ---------------------------------
(***************************************************************************)
(* A run of `create`, or a job of a batch, around the hashing of its file: *)
(* the question whether an existing output may be overwritten, the hashes, *)
(* the writing of the torrent into that output, and what is reported.      *)
(*                                                                         *)
(* The torrent is written into a stream: all but the bytes of the last     *)
(* buffer reach the disk when they are written, these when the stream is   *)
(* destroyed, after it has been looked at for the last time.               *)
(***************************************************************************)
EXTENDS HashFile

Modes == {"command", "quiet", "json", "questions", "batch"}

VARIABLES
    mode,       \* the command, also with --quiet or --json, the questions of -i, or a batch
    before,     \* the output path at the start: "absent", or "other", a file
    agreed,     \* the user has agreed to overwrite it
    phase,      \* "ask", "hash", "open", "write", "close", "report" or "over"
    out,        \* the output path: as before, then "empty", "part" or "whole"
    lost,       \* history: the last bytes have not reached the disk
    status      \* "running", then "success" or "failure"

output  == <<before, agreed, out, lost>>
created == <<mode, output, phase, status>>
hashing == vars

CreateInit ==
    /\ Init
    /\ mode \in Modes
    /\ before \in {"absent", "other"}
    /\ agreed = FALSE
    /\ phase = "ask"
    /\ out = before
    /\ lost = FALSE
    /\ status = "running"

To(from, to) == phase = from /\ phase' = to /\ UNCHANGED <<mode, hashing>>

Continue(from, to) == To(from, to) /\ UNCHANGED status

Over(from, result_) == To(from, "over") /\ status' = result_
--------------------------------------------------------------------------------
(* prompt_overwrite.  A job of a batch is not asked about; a path that is made *)
(* up for the torrent is one that is absent.                                   *)

NoQuestion ==
    /\ Continue("ask", "hash")
    /\ out = "absent" \/ mode = "batch"
    /\ UNCHANGED output

Agree ==
    /\ Continue("ask", "hash")
    /\ out = "other" /\ mode \in {"command", "questions"} /\ ~idle
    /\ agreed' = TRUE
    /\ UNCHANGED <<before, out, lost>>

\* With --json and --quiet the answer is no, without a question.
Declined ==
    /\ out = "other"
    /\ mode \in {"quiet", "json"} \/ (mode \in {"command", "questions"} /\ ~idle)

\* FAULT: every mode goes on, as -i does.
DeclineIgnored ==
    /\ Continue("ask", "hash")
    /\ Declined
    /\ UNCHANGED output

\* The questions of -i go on with the same output, the command is over.
Decline ==
    /\ Declined
    /\ IF mode = "questions" THEN Continue("ask", "hash") ELSE Over("ask", "failure")
    /\ UNCHANGED output
--------------------------------------------------------------------------------
(* TorrentCreator::create_torrent. *)

Hash == phase = "hash" /\ Next /\ UNCHANGED created

Hashed ==
    /\ Continue("hash", "open")
    /\ result = "hashed"
    /\ UNCHANGED output

\* FAULT: what has been hashed so far is written.
WriteAnyway ==
    /\ Continue("hash", "open")
    /\ result \in {"timeout", "interrupted"}
    /\ UNCHANGED output

\* A timeout or a 'q' is reported; nothing has been written.
GivenUp ==
    /\ Over("hash", "failure")
    /\ result \in {"timeout", "interrupted"}
    /\ UNCHANGED output

\* What was there before is gone as soon as the output is open.
Open ==
    /\ Continue("open", "write")
    /\ out' = "empty"
    /\ UNCHANGED <<before, agreed, lost>>

OpenFails == Over("open", "failure") /\ UNCHANGED output

\* No random bytes for an entropy.
NoEntropy == Over("write", "failure") /\ UNCHANGED output

WriteTorrent ==
    /\ Continue("write", "close")
    /\ out' = "part"
    /\ UNCHANGED <<before, agreed, lost>>

\* The disk is full, and the stream says so.
WriteFails ==
    /\ Over("write", "failure")
    /\ out' = "part"
    /\ UNCHANGED <<before, agreed, lost>>

\* The stream is destroyed, and nobody looks whether its last bytes are written.
Close ==
    /\ Continue("close", "report")
    /\ lost' \in BOOLEAN
    /\ out' = IF lost' THEN "part" ELSE "whole"
    /\ UNCHANGED <<before, agreed>>

\* With --json the torrent is read again and shown, which fails if it is not whole.
Report ==
    /\ Over("report", IF mode = "json" /\ out # "whole" THEN "failure" ELSE "success")
    /\ UNCHANGED output

CreateStep ==
    \/ NoQuestion \/ Agree \/ Decline \/ Hashed \/ GivenUp \/ Open \/ OpenFails
    \/ NoEntropy \/ WriteTorrent \/ WriteFails \/ Close \/ Report

CreateNext == Hash \/ CreateStep

\* The process is scheduled, the disk answers, and a question is answered.
CreateSpec ==
    /\ CreateInit /\ [][CreateNext]_<<hashing, created>>
    /\ WF_<<hashing, created>>(CreateStep)
    /\ WF_<<hashing, created>>(phase = "hash" /\ HashStep /\ UNCHANGED created)
--------------------------------------------------------------------------------
(* Properties. *)

\* Types of what Create adds to HashFile.
CreateTypeOK ==
    /\ mode \in Modes
    /\ before \in {"absent", "other"}
    /\ agreed \in BOOLEAN
    /\ phase \in {"ask", "hash", "open", "write", "close", "report", "over"}
    /\ out \in {before, "empty", "part", "whole"}
    /\ lost \in BOOLEAN
    /\ status \in {"running", "success", "failure"}

\* Nothing happens to the output before the last hash is there, so that a 'q' or a
\* timeout leaves a file that was there as it was; and a command that was not told
\* to overwrite it leaves it so whatever else happens (torrent_builder.cpp:599-606).
\* The questions of -i go on and overwrite it all the same (:174-177), so they are
\* left out; a batch does not ask.
OutputKept ==
    /\ result # "hashed" => out = before
    /\ before = "other" /\ mode \in {"command", "quiet", "json"} /\ ~agreed
         => out = "other"

\* Success is reported for a torrent that has every hash, those of a disk that
\* delivered all its bytes being right, and that is whole in its file: unless the
\* disk was full for the bytes that are written when the stream is destroyed, which
\* only --json finds out, by reading the torrent again (torrent_creator.cpp:523-561).
SuccessWhole ==
    status = "success" =>
        /\ result = "hashed"
        /\ ~cut => \A i \in Pieces : hashes[i] = PieceContent(i)
        /\ out = "whole" \/ (lost /\ mode # "json" /\ out = "part")

\* The run comes to its end, however slow the disk and whatever is typed, unless
\* stdin is a pipe into which nobody writes.
Ends == ~idle => <>(status # "running")
=================================================================================
