------------------------------ MODULE TrackerRules ------------------------------
(***************************************************************************)
(* The choice of the piece size: utils::auto_piece_size and                *)
(* piece_size_for_target_count, TrackerRulesDatabase::enforce, and how a   *)
(* job of a batch or the create command puts them together.  Piece sizes   *)
(* are in units (KB), contents, caps and limits in bytes.                  *)
(***************************************************************************)
EXTENDS Integers, FiniteSetsExt

CONSTANTS Allowed,      \* AllowedPieceSizes: the powers of two 16 .. 32768
          Unit,         \* bytes in a KB: 1024
          MaxPieces,    \* 4096: a piece size serves contents of fewer pieces
          HashSize,     \* bytes of a hash in a torrent: 20
          Unset

ASSUME RulesAssumption ==
    /\ Allowed \subseteq Nat \ {0}
    /\ \E largest \in Allowed : \A a \in Allowed : a <= largest
    /\ Unit \in Nat \ {0} /\ MaxPieces \in Nat
    /\ HashSize \in Nat
    /\ Unset \notin Int

Pieces(total, kb) == (total + kb * Unit - 1) \div (kb * Unit)

\* 16 KB below 64 MiB, 32 KB below 128 MiB, ... 32 MB from 64 GiB on.
auto_piece_size(total) ==
    LET fitting == {kb \in Allowed : total < MaxPieces * kb * Unit}
    IN  IF fitting = {} THEN Max(Allowed) ELSE Min(fitting)

Distance(total, kb, target) ==
    LET count == Pieces(total, kb)
    IN  IF count >= target THEN count - target ELSE target - count

\* From the largest size down, a later one must be strictly better.
piece_size_for_target_count(total, target) ==
    Max({kb \in Allowed : \A other \in Allowed :
            Distance(total, kb, target) <= Distance(total, other, target)})
--------------------------------------------------------------------------------
(* TrackerRulesDatabase::enforce.  A rule is [cap, max_size, overrides]: the   *)
(* first two in bytes or Unset, the overrides a set of [below, kb] with        *)
(* different bounds.                                                           *)

Snapped(kb) ==
    LET above == {a \in Allowed : a >= kb}
    IN  IF above = {} THEN Max(Allowed) ELSE Min(above)

\* FAULT: the size of an override need not be an allowed one.
OverriddenUnchecked(rule, total, kb) ==
    LET matching == {o \in rule.overrides : total < o.below}
        first    == CHOOSE o \in matching : \A p \in matching : p.below <= o.below
    IN  IF total > 0 /\ matching # {} THEN first.kb ELSE kb

\* The overrides are sorted from the largest bound down, and the first whose
\* bound is above the total size is the last to be looked at.
Overridden(rule, total, kb) ==
    LET matching == {o \in rule.overrides : total < o.below}
        first    == CHOOSE o \in matching : \A p \in matching : p.below <= o.below
    IN  IF total > 0 /\ matching # {} /\ first.kb \in Allowed THEN first.kb ELSE kb

OverCap(rule, kb) == rule.cap # Unset /\ kb > rule.cap \div Unit

\* The largest allowed size within the cap, or the smallest of all.
Capped(rule, kb) ==
    LET within == {a \in Allowed : ~OverCap(rule, a)}
    IN  CASE ~OverCap(rule, kb) -> kb
          [] OverCap(rule, kb) /\ within # {} -> Max(within)
          [] OTHER -> Min(Allowed)

WithinCap(rule, kb) == rule.cap # Unset => kb * Unit <= rule.cap

Estimate(total, kb) == Pieces(total, kb) * HashSize + kb * Unit

TooLarge(rule, total, kb) ==
    rule.max_size # Unset /\ total > 0 /\ Estimate(total, kb) > rule.max_size

\* FAULT: the cap is forgotten when the pieces are made larger.
ShrunkPastCap(rule, total, kb) ==
    LET fits == {a \in Allowed : a >= kb /\ Estimate(total, a) <= rule.max_size}
    IN  IF TooLarge(rule, total, kb) /\ fits # {} THEN Min(fits) ELSE kb

\* FAULT: the largest size is taken, where a smaller one would do.
ShrunkTooFar(rule, total, kb) ==
    LET fits == {a \in Allowed : /\ a >= kb /\ WithinCap(rule, a)
                                 /\ Estimate(total, a) <= rule.max_size}
    IN  IF TooLarge(rule, total, kb) /\ fits # {} THEN Max(fits) ELSE kb

\* Larger pieces within the cap until the torrent is small enough.
Shrunk(rule, total, kb) ==
    LET fits == {a \in Allowed : /\ a >= kb /\ WithinCap(rule, a)
                                 /\ Estimate(total, a) <= rule.max_size}
    IN  IF TooLarge(rule, total, kb) /\ fits # {} THEN Min(fits) ELSE kb

enforce(rule, total, current) ==
    LET start  == Snapped(IF current # Unset THEN current ELSE auto_piece_size(total))
        ruled  == Overridden(rule, total, start)
        capped == Capped(rule, ruled)
        shrunk == Shrunk(rule, total, capped)
    IN  [kb |-> shrunk,
         adjusted |-> ruled # start \/ OverCap(rule, ruled) \/ shrunk # capped,
         violation |-> OverCap(rule, capped) \/ TooLarge(rule, total, shrunk)]
--------------------------------------------------------------------------------
(* A job asks for a piece size, for a number of pieces, or for neither.  The   *)
(* rule is applied to the size of everything under the path, `measured`; the   *)
(* creator knows the files that are left when patterns have excluded some,     *)
(* `hashed` bytes.                                                             *)

Requests == [piece_size : Allowed \cup {Unset}, target : (Nat \ {0}) \cup {Unset}]

Rules == [cap : Nat \cup {Unset}, max_size : Nat \cup {Unset},
          overrides : SUBSET [below : Nat, kb : Nat]]

Constrained(rule) ==
    rule.cap # Unset \/ rule.max_size # Unset \/ rule.overrides # {}

Current(job, measured) ==
    IF job.piece_size = Unset /\ job.target # Unset /\ measured > 0
    THEN piece_size_for_target_count(measured, job.target) ELSE job.piece_size

\* A size the user has asked for is kept and there is a warning; what nobody has
\* chosen is chosen by the rule or, last, by the creator.
ChoosePieceSize(job, rule, measured, hashed) ==
    LET current == Current(job, measured)
        answer  == enforce(rule, measured, current)
    IN  [kb |-> CASE current # Unset -> current
                  [] current = Unset /\ Constrained(rule) /\ answer.adjusted -> answer.kb
                  [] OTHER -> auto_piece_size(hashed),
         warned |-> Constrained(rule) /\
             (answer.violation \/ (current # Unset /\ answer.adjusted))]
=================================================================================
