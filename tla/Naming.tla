--------------------------------- MODULE Naming ----------------------------------
(***************************************************************************)
(* The automatic name of an output: made of the tracker's domain and the   *)
(* name of the content, cut to what a directory entry can hold with a      *)
(* number behind it, and numbered if it is taken.                          *)
(*                                                                         *)
(* A string is the sequence of its bytes.  A byte that begins a character  *)
(* of UTF-8 is the number of the character's bytes, 1 for ASCII, and one   *)
(* that continues it is 0.  Parts of names are as sanitize_filename_part   *)
(* has left them.                                                          *)
(***************************************************************************)
EXTENDS Integers, Sequences, FiniteSetsExt

CONSTANTS MaxName,      \* 255 bytes of a directory entry
          Overhead,     \* 6 bytes, left for the number
          MaxNumber     \* 1000

Ascii(n) == [i \in 1..n |-> 1]

Extension == Ascii(8)

ASSUME NamingAssumption ==
    /\ MaxName \in Nat /\ Overhead \in Nat /\ MaxNumber \in Nat
    /\ MaxNumber < 10000 /\ Overhead >= 6
    /\ MaxName >= Overhead + Len(Extension) + 4

\* The name without its extension.  The default is "torrent".
generate_output_filename(in) ==
    LET name == IF in.content = <<>> THEN Ascii(7) ELSE in.content
    IN  IF in.skip_prefix \/ in.domain = <<>> THEN name ELSE in.domain \o Ascii(1) \o name

\* A character that does not fit is left out as a whole.
truncate_filename(stem) ==
    LET available == MaxName - Overhead - Len(Extension)
        last      == Max({i \in 1..available : stem[i] # 0})
        end       == last + stem[last] - 1
    IN  IF Len(stem) <= available THEN stem
        ELSE SubSeq(stem, 1, IF end <= available THEN end ELSE last - 1)

Suffix(number) ==
    CASE number = 0 -> <<>>
      [] number \in 1..9 -> Ascii(3)
      [] number \in 10..99 -> Ascii(4)
      [] number \in 100..999 -> Ascii(5)
      [] OTHER -> Ascii(6)

\* What is left of the stem beside a number; a character at its end is dropped even if
\* it would fit, unless it is ASCII.
Shortened(stem, number) ==
    LET room == MaxName - Len(Suffix(number)) - Len(Extension)
        last == Max({1} \cup {i \in 1..room : stem[i] # 0})
    IN  IF number = 0 \/ Len(stem) <= room THEN stem
        ELSE SubSeq(stem, 1, IF last > 1 /\ stem[last] > 1 THEN last - 1 ELSE last)

Candidate(stem, number) == [stem |-> Shortened(stem, number), number |-> number]

\* The files of the directory are stems with a number, 0 where there is none.
resolve_collision(stem, taken) ==
    LET Taken(n) == Candidate(stem, n) \in taken
        first == CHOOSE n \in 0..MaxNumber : ~Taken(n) /\ \A m \in 0..(n - 1) : Taken(m)
    IN  IF \A n \in 0..MaxNumber : Taken(n) THEN [refused |-> TRUE]
        ELSE [refused |-> FALSE, name |-> Candidate(stem, first)]

generate_auto_output_path(in) ==
    resolve_collision(truncate_filename(generate_output_filename(in)), in.taken)

\* What is written into the directory.
FileName(name) == name.stem \o Suffix(name.number) \o Extension

\* A byte begins a character that is there as a whole, or continues one.
WholeAt(s, i) ==
    /\ s[i] # 0 => /\ i + s[i] - 1 <= Len(s)
                   /\ \A j \in (i + 1)..(i + s[i] - 1) : s[j] = 0
    /\ s[i] = 0 => \E k \in 1..(i - 1) : s[k] # 0 /\ i <= k + s[k] - 1

\* A string of whole characters.
Whole(s) == s \in Seq(0..4) /\ \A i \in DOMAIN s : WholeAt(s, i)
=================================================================================
