------------------------------- MODULE ToolsProofs -------------------------------
(***************************************************************************)
(* The choice of a piece size: what `create` answers is an allowed size,   *)
(* keeps the rule of the tracker or warns, and is no larger than needed.   *)
(* An automatic name fits into its directory.  The files a torrent leaves  *)
(* out are the extra ones of its directory.  Settings come from the        *)
(* strongest layer, in every front end alike; edits do what they were      *)
(* asked; the damaged pieces and the missing episodes are reported.        *)
(***************************************************************************)
EXTENDS ToolsLemmas

--------------------------------------------------------------------------------
(* Sets of allowed sizes. *)

\* An allowed size is rounded to itself.
LEMMA SnappedAllowed ==
    ASSUME NEW kb \in Allowed
    PROVE  Snapped(kb) = kb
<1> DEFINE above == {a \in Allowed : a >= kb}
<1>1. kb \in above /\ \A a \in above : kb <= a /\ a \in Nat
  BY RulesAssumption
<1>2. kb \in Nat
  BY RulesAssumption
<1>3. Min(above) = kb
  BY <1>1, <1>2 DEF Min
<1> QED
  BY <1>1, <1>3 DEF Snapped

LEMMA LargestAllowed ==
    Max(Allowed) \in Allowed /\ \A a \in Allowed : a <= Max(Allowed)
<1>1. PICK m \in Allowed : \A a \in Allowed : a <= m
  BY RulesAssumption
<1>2. Allowed \in SUBSET Nat /\ m \in Nat /\ Allowed # {}
  BY <1>1, RulesAssumption
<1> QED
  BY <1>1, <1>2, GreatestExists

LEMMA SubsetGreatest ==
    ASSUME NEW S \in SUBSET Allowed, S # {}
    PROVE  Max(S) \in S /\ \A a \in S : a <= Max(S)
<1>1. S \in SUBSET Nat /\ Max(Allowed) \in Nat /\ \A a \in S : a <= Max(Allowed)
  BY LargestAllowed, RulesAssumption
<1> QED
  BY <1>1, GreatestExists

LEMMA SubsetLeast ==
    ASSUME NEW S \in SUBSET Allowed, S # {}
    PROVE  Min(S) \in S /\ \A a \in S : Min(S) <= a
<1>1. S \in SUBSET Nat
  BY RulesAssumption
<1> QED
  BY <1>1, LeastExists

--------------------------------------------------------------------------------
(* Every way of choosing a size leads to an allowed one. *)

LEMMA PiecesNat ==
    ASSUME NEW total \in Nat, NEW kb \in Allowed
    PROVE  Pieces(total, kb) \in Nat
<1> DEFINE d == kb * Unit
<1>1. d \in Nat \ {0}
  <2>1. kb \in Nat \ {0} /\ Unit \in Nat \ {0}
    BY RulesAssumption
  <2> QED
    BY <2>1
<1> HIDE DEF d
<1>2. (total + d - 1) \div d \in Nat
  BY <1>1
<1> QED
  BY <1>2 DEF Pieces, d

LEMMA TargetAllowed ==
    ASSUME NEW total \in Nat, NEW target \in Nat
    PROVE  piece_size_for_target_count(total, target) \in Allowed
<1> DEFINE dist(kb) == Distance(total, kb, target)
           Ds == {dist(kb) : kb \in Allowed}
           closest == {kb \in Allowed : \A other \in Allowed : dist(kb) <= dist(other)}
<1>1. ASSUME NEW kb \in Allowed
      PROVE  dist(kb) \in Nat
  BY PiecesNat DEF Distance
<1>2. Ds \in SUBSET Nat /\ Ds # {}
  BY <1>1, RulesAssumption
<1>3. PICK kb \in Allowed : \A d \in Ds : dist(kb) <= d
  <2>1. Min(Ds) \in Ds /\ \A d \in Ds : Min(Ds) <= d
    BY <1>2, LeastExists
  <2> QED
    BY <2>1
<1>4. closest # {} /\ closest \in SUBSET Allowed
  BY <1>3
<1>5. Max(closest) \in closest
  BY <1>4, SubsetGreatest
<1> QED
  BY <1>5 DEF piece_size_for_target_count

Fitting(total) == {kb \in Allowed : total < MaxPieces * kb * Unit}

\* The automatic size does not fall as the content grows.
LEMMA AutoAllowed ==
    ASSUME NEW total \in Nat
    PROVE  auto_piece_size(total) \in Allowed
<1>1. Fitting(total) # {} => Min(Fitting(total)) \in Allowed
  BY SubsetLeast DEF Fitting
<1> QED
  BY <1>1, LargestAllowed DEF auto_piece_size, Fitting

LEMMA AutoMonotone ==
    ASSUME NEW small \in Nat, NEW large \in Nat, small <= large
    PROVE  auto_piece_size(small) <= auto_piece_size(large)
<1>1. Fitting(large) \subseteq Fitting(small)
  <2>1. ASSUME NEW kb \in Allowed, NEW limit, limit = MaxPieces * kb * Unit, large < limit
        PROVE  small < limit
    <3>1. limit \in Int
      <4>1. MaxPieces \in Nat /\ kb \in Nat /\ Unit \in Nat
        BY RulesAssumption
      <4>2. MaxPieces * kb \in Nat
        BY <4>1
      <4> QED
        BY <4>1, <4>2, <2>1
    <3> QED
      BY <3>1, <2>1
  <2> QED
    BY <2>1 DEF Fitting
<1>2. CASE Fitting(large) # {}
  <2>1. Fitting(small) # {}
    BY <1>1, <1>2
  <2>2. Min(Fitting(large)) \in Fitting(small)
    BY <1>1, <1>2, SubsetLeast DEF Fitting
  <2>3. Min(Fitting(small)) <= Min(Fitting(large))
    BY <2>1, <2>2, SubsetLeast DEF Fitting
  <2> QED
    BY <1>2, <2>1, <2>3 DEF auto_piece_size, Fitting
<1>3. CASE Fitting(large) = {}
  <2>1. auto_piece_size(large) = Max(Allowed)
    BY <1>3 DEF auto_piece_size, Fitting
  <2> QED
    BY <2>1, AutoAllowed, LargestAllowed
<1> QED
  BY <1>2, <1>3

LEMMA CurrentAllowed ==
    ASSUME NEW job \in Requests, NEW total \in Nat
    PROVE  Current(job, total) \in Allowed \cup {Unset}
<1>1. job.target # Unset => job.target \in Nat
  BY DEF Requests
<1>2. job.piece_size \in Allowed \cup {Unset}
  BY DEF Requests
<1> QED
  BY <1>1, <1>2, TargetAllowed DEF Current

LEMMA OverriddenAllowed ==
    ASSUME NEW rule \in Rules, NEW total \in Nat, NEW kb \in Allowed
    PROVE  /\ Overridden(rule, total, kb) \in Allowed
           /\ rule.overrides = {} => Overridden(rule, total, kb) = kb
BY DEF Overridden

LEMMA CapDivided ==
    ASSUME NEW rule \in Rules, rule.cap # Unset
    PROVE  rule.cap \in Nat /\ rule.cap \div Unit \in Nat
<1>1. rule.cap \in Nat
  BY DEF Rules
<1>2. Unit \in Nat \ {0}
  BY RulesAssumption
<1> QED
  BY <1>1, <1>2

\* The two ways in which the code compares with the cap agree.
LEMMA WithinNotOver ==
    ASSUME NEW rule \in Rules, NEW kb \in Allowed
    PROVE  WithinCap(rule, kb) <=> ~OverCap(rule, kb)
<1>1. CASE rule.cap = Unset
  BY <1>1 DEF WithinCap, OverCap
<1>2. CASE rule.cap # Unset
  <2> DEFINE q == rule.cap \div Unit
             r == rule.cap % Unit
  <2>1. rule.cap \in Nat /\ q \in Nat /\ Unit \in Nat \ {0} /\ kb \in Nat
    BY <1>2, CapDivided, RulesAssumption
  <2>2. rule.cap = Unit * q + r /\ r \in 0..(Unit - 1)
    BY <2>1
  <2> HIDE DEF q, r
  <2>3. ASSUME kb <= q
        PROVE  kb * Unit <= rule.cap
    <3>1. Unit * kb <= Unit * q
      BY <2>1, <2>3
    <3> QED
      BY <2>1, <2>2, <3>1
  <2>4. ASSUME kb > q
        PROVE  ~(kb * Unit <= rule.cap)
    <3>1. Unit * kb >= Unit * (q + 1)
      BY <2>1, <2>4
    <3>2. Unit * (q + 1) = Unit * q + Unit
      BY <2>1
    <3> QED
      BY <2>1, <2>2, <3>1, <3>2
  <2> QED
    BY <1>2, <2>1, <2>3, <2>4 DEF WithinCap, OverCap, q
<1> QED
  BY <1>1, <1>2

LEMMA CapMonotone ==
    ASSUME NEW rule \in Rules, NEW small \in Allowed, NEW large \in Allowed,
           small <= large, ~OverCap(rule, large)
    PROVE  ~OverCap(rule, small)
BY CapDivided, RulesAssumption DEF OverCap

LEMMA CappedRight ==
    ASSUME NEW rule \in Rules, NEW kb \in Allowed
    PROVE  /\ Capped(rule, kb) \in Allowed
           /\ Capped(rule, kb) <= kb
           /\ ~OverCap(rule, kb) => Capped(rule, kb) = kb
           /\ OverCap(rule, Capped(rule, kb)) => \A a \in Allowed : OverCap(rule, a)
<1> DEFINE within == {a \in Allowed : ~OverCap(rule, a)}
<1>0. Allowed \in SUBSET Nat /\ Allowed # {}
  BY RulesAssumption
<1>1. CASE ~OverCap(rule, kb)
  BY <1>0, <1>1 DEF Capped
<1>2. CASE OverCap(rule, kb) /\ within # {}
  <2>1. Capped(rule, kb) = Max(within)
    BY <1>2 DEF Capped
  <2>2. Max(within) \in Allowed /\ ~OverCap(rule, Max(within))
    <3>1. within \in SUBSET Allowed /\ within # {}
      BY <1>2
    <3>2. Max(within) \in within
      BY <3>1, SubsetGreatest
    <3> QED
      BY <3>2
  <2>3. Max(within) <= kb
    <3> HIDE DEF within
    <3>1. ~(kb <= Max(within))
      BY <1>2, <2>2, CapMonotone
    <3>2. Max(within) \in Nat /\ kb \in Nat
      BY <1>0, <2>2
    <3> QED
      BY <3>1, <3>2
  <2> QED
    BY <1>2, <2>1, <2>2, <2>3
<1>3. CASE OverCap(rule, kb) /\ within = {}
  <2>1. Capped(rule, kb) = Min(Allowed)
    BY <1>3 DEF Capped
  <2>2. Min(Allowed) \in Allowed /\ Min(Allowed) <= kb
    BY <1>0, SubsetLeast
  <2>3. \A a \in Allowed : OverCap(rule, a)
    BY <1>3
  <2> QED
    BY <1>3, <2>1, <2>2, <2>3
<1> QED
  BY <1>1, <1>2, <1>3

LEMMA EstimateNat ==
    ASSUME NEW total \in Nat, NEW kb \in Allowed
    PROVE  Estimate(total, kb) \in Nat
<1>1. Pieces(total, kb) \in Nat /\ HashSize \in Nat /\ kb \in Nat /\ Unit \in Nat
  BY PiecesNat, RulesAssumption
<1>2. Pieces(total, kb) * HashSize \in Nat /\ kb * Unit \in Nat
  BY <1>1
<1> QED
  BY <1>2 DEF Estimate

LEMMA ShrunkRight ==
    ASSUME NEW rule \in Rules, NEW total \in Nat, NEW kb \in Allowed,
           NEW s, s = Shrunk(rule, total, kb)
    PROVE  /\ s \in Allowed
           /\ s # kb =>
                /\ ~OverCap(rule, s)
                /\ ~TooLarge(rule, total, s)
                /\ \A a \in Allowed : kb <= a /\ a < s => TooLarge(rule, total, a)
<1> DEFINE fits == {a \in Allowed : /\ a >= kb /\ WithinCap(rule, a)
                                   /\ Estimate(total, a) <= rule.max_size}
<1>1. CASE TooLarge(rule, total, kb) /\ fits # {}
  <2>1. s = Min(fits)
    BY <1>1 DEF Shrunk
  <2>2. s \in fits /\ \A a \in fits : s <= a
    <3>1. fits \in SUBSET Allowed /\ fits # {}
      BY <1>1
    <3> HIDE DEF fits
    <3> QED
      BY <2>1, <3>1, SubsetLeast
  <2>3. rule.max_size \in Nat /\ rule.max_size # Unset /\ total > 0
    BY <1>1 DEF TooLarge, Rules
  <2>4. ~OverCap(rule, s)
    BY <2>2, WithinNotOver
  <2>5. ~TooLarge(rule, total, s)
    BY <2>2, <2>3, EstimateNat DEF TooLarge
  <2>6. ASSUME NEW a \in Allowed, kb <= a, a < s
        PROVE  TooLarge(rule, total, a)
    <3>1. s \in Allowed /\ s \in Nat /\ a \in Nat /\ kb \in Nat
      BY <2>2, RulesAssumption
    <3>2. ~OverCap(rule, a)
      BY <2>4, <2>6, <3>1, CapMonotone
    <3>3. WithinCap(rule, a)
      BY <3>2, WithinNotOver
    <3>4. a \notin fits
      BY <2>2, <2>6, <3>1
    <3>5. ~(Estimate(total, a) <= rule.max_size)
      BY <2>6, <3>1, <3>3, <3>4
    <3> QED
      BY <2>3, <3>5, EstimateNat DEF TooLarge
  <2> QED
    BY <2>2, <2>4, <2>5, <2>6
<1>2. CASE ~(TooLarge(rule, total, kb) /\ fits # {})
  BY <1>2 DEF Shrunk
<1> QED
  BY <1>1, <1>2

LEMMA EnforceRight ==
    ASSUME NEW rule \in Rules, NEW total \in Nat, NEW current \in Allowed \cup {Unset},
           NEW start, start = IF current # Unset THEN current ELSE auto_piece_size(total),
           NEW answer1, answer1 = enforce(rule, total, current)
    PROVE  /\ answer1.kb \in Allowed
           /\ ~answer1.adjusted => answer1.kb = start /\ ~OverCap(rule, start)
           /\ ~answer1.violation => /\ ~OverCap(rule, answer1.kb)
                                    /\ ~TooLarge(rule, total, answer1.kb)
           /\ OverCap(rule, answer1.kb) => \A a \in Allowed : OverCap(rule, a)
           /\ rule.overrides = {} =>
                \A a \in Allowed : start <= a /\ a < answer1.kb => TooLarge(rule, total, a)
<1> DEFINE ruled  == Overridden(rule, total, start)
           capped == Capped(rule, ruled)
           shrunk == Shrunk(rule, total, capped)
<1>1. start \in Allowed
  BY AutoAllowed
<1>2. Snapped(start) = start
  BY <1>1, SnappedAllowed
<1>3. answer1 = [kb |-> shrunk,
                 adjusted |-> ruled # start \/ OverCap(rule, ruled) \/ shrunk # capped,
                 violation |-> OverCap(rule, capped) \/ TooLarge(rule, total, shrunk)]
  BY <1>2 DEF enforce
<1>4. ruled \in Allowed /\ (rule.overrides = {} => ruled = start)
  BY <1>1, OverriddenAllowed
<1> HIDE DEF ruled
<1>5. /\ capped \in Allowed /\ capped <= ruled
      /\ ~OverCap(rule, ruled) => capped = ruled
      /\ OverCap(rule, capped) => \A a \in Allowed : OverCap(rule, a)
  BY <1>4, CappedRight
<1> HIDE DEF capped
<1>6. /\ shrunk \in Allowed
      /\ shrunk # capped =>
            /\ ~OverCap(rule, shrunk)
            /\ ~TooLarge(rule, total, shrunk)
            /\ \A a \in Allowed : capped <= a /\ a < shrunk => TooLarge(rule, total, a)
  BY <1>5, ShrunkRight
<1> HIDE DEF shrunk
<1>7. answer1.kb = shrunk
  BY <1>3
<1>8. ~answer1.adjusted => shrunk = start /\ ~OverCap(rule, start)
  <2>1. answer1.adjusted =
            (ruled # start \/ OverCap(rule, ruled) \/ shrunk # capped)
    BY <1>3
  <2>2. ~(ruled # start \/ OverCap(rule, ruled) \/ shrunk # capped) =>
            shrunk = start /\ ~OverCap(rule, start)
    BY <1>5
  <2> QED
    BY <2>1, <2>2, Zenon
<1>9. ~answer1.violation => ~OverCap(rule, shrunk) /\ ~TooLarge(rule, total, shrunk)
  <2>1. answer1.violation = (OverCap(rule, capped) \/ TooLarge(rule, total, shrunk))
    BY <1>3
  <2>2. ~OverCap(rule, capped) => ~OverCap(rule, shrunk)
    BY <1>6, Zenon
  <2> QED
    BY <2>1, <2>2, Zenon
<1>10. OverCap(rule, shrunk) => \A a \in Allowed : OverCap(rule, a)
  BY <1>5, <1>6
<1>11. ASSUME rule.overrides = {}, NEW a \in Allowed, start <= a, a < shrunk
       PROVE  TooLarge(rule, total, a)
  <2>1. ruled = start /\ {start, a, capped, shrunk} \subseteq Nat
    BY <1>1, <1>4, <1>5, <1>6, <1>11, RulesAssumption
  <2>2. capped <= a
    BY <1>5, <1>11, <2>1
  <2>3. shrunk # capped
    BY <1>11, <2>1, <2>2
  <2> QED
    BY <1>6, <1>11, <2>2, <2>3
<1> QED
  BY <1>6, <1>7, <1>8, <1>9, <1>10, <1>11

LEMMA ChoiceRight ==
    ASSUME NEW job \in Requests, NEW rule \in Rules,
           NEW measured \in Nat, NEW hashed \in Nat, hashed <= measured,
           NEW choice, choice = ChoosePieceSize(job, rule, measured, hashed)
    PROVE  /\ choice.kb \in Allowed /\ choice.warned \in BOOLEAN
           /\ ~choice.warned =>
                /\ ~OverCap(rule, choice.kb)
                /\ measured = hashed => ~TooLarge(rule, hashed, choice.kb)
           /\ Current(job, measured) = Unset =>
                /\ OverCap(rule, choice.kb) => \A a \in Allowed : OverCap(rule, a)
                /\ rule.overrides = {} =>
                     \A a \in Allowed : auto_piece_size(measured) <= a /\ a < choice.kb =>
                        TooLarge(rule, measured, a)
<1> DEFINE current == Current(job, measured)
           auto    == auto_piece_size(measured)
           chosen  == enforce(rule, measured, current)
           start   == IF current # Unset THEN current ELSE auto
<1>1. current \in Allowed \cup {Unset}
  BY CurrentAllowed
<1>2. auto \in Allowed /\ auto_piece_size(hashed) \in Allowed
      /\ auto_piece_size(hashed) <= auto
  BY AutoAllowed, AutoMonotone
<1>3. choice = [kb |-> CASE current # Unset -> current
                       [] current = Unset /\ Constrained(rule) /\ chosen.adjusted -> chosen.kb
                       [] OTHER -> auto_piece_size(hashed),
                warned |-> Constrained(rule) /\
                    (chosen.violation \/ (current # Unset /\ chosen.adjusted))]
  BY DEF ChoosePieceSize
<1>4. /\ chosen.kb \in Allowed
      /\ ~chosen.adjusted => chosen.kb = start /\ ~OverCap(rule, start)
      /\ ~chosen.violation => /\ ~OverCap(rule, chosen.kb)
                              /\ ~TooLarge(rule, measured, chosen.kb)
      /\ OverCap(rule, chosen.kb) => \A a \in Allowed : OverCap(rule, a)
      /\ rule.overrides = {} =>
           \A a \in Allowed : start <= a /\ a < chosen.kb => TooLarge(rule, measured, a)
  BY <1>1, EnforceRight
<1>5. ~Constrained(rule) => \A kb, total : ~OverCap(rule, kb) /\ ~TooLarge(rule, total, kb)
  BY DEF Constrained, OverCap, TooLarge
<1>6. {auto, auto_piece_size(hashed)} \subseteq Nat
  BY <1>2, RulesAssumption
<1>7. ~OverCap(rule, auto) => ~OverCap(rule, auto_piece_size(hashed))
  BY <1>2, CapMonotone
<1>8. choice.warned = (Constrained(rule) /\
                    (chosen.violation \/ (current # Unset /\ chosen.adjusted)))
  BY <1>3
<1>9. start = IF current # Unset THEN current ELSE auto
  OBVIOUS
<1> HIDE DEF current, auto, chosen, start
<1>10. CASE current # Unset
  <2>1. choice.kb = current
    BY <1>3, <1>10
  <2>2. start = current
    BY <1>9, <1>10
  <2> QED
    BY <1>1, <1>4, <1>5, <1>8, <1>10, <2>1, <2>2 DEF current
<1>11. CASE current = Unset /\ Constrained(rule) /\ chosen.adjusted
  <2>1. choice.kb = chosen.kb /\ start = auto
    BY <1>3, <1>9, <1>11
  <2> QED
    BY <1>4, <1>8, <1>11, <2>1 DEF current, auto
<1>12. CASE current = Unset /\ ~(Constrained(rule) /\ chosen.adjusted)
  <2>1. choice.kb = auto_piece_size(hashed) /\ start = auto
    BY <1>3, <1>9, <1>12
  <2>2. ~OverCap(rule, choice.kb)
    BY <1>4, <1>5, <1>7, <1>12, <2>1
  <2>3. ~choice.warned /\ measured = hashed => ~TooLarge(rule, hashed, choice.kb)
    BY <1>4, <1>5, <1>8, <1>12, <2>1 DEF auto
  <2>4. ASSUME NEW a \in Allowed, auto <= a
        PROVE  ~(a < choice.kb)
    BY <1>2, <1>6, <2>1, <2>4, RulesAssumption
  <2> QED
    BY <1>2, <1>8, <2>1, <2>2, <2>3, <2>4 DEF auto
<1> QED
  BY <1>10, <1>11, <1>12

--------------------------------------------------------------------------------
(* Automatic names. *)

LEMMA AsciiWhole ==
    ASSUME NEW n \in Nat
    PROVE  Whole(Ascii(n)) /\ Len(Ascii(n)) = n
<1>1. /\ Ascii(n) \in Seq(0..4)
      /\ Len(Ascii(n)) = n
      /\ \A i \in 1..n : Ascii(n)[i] = 1
  BY DEF Ascii
<1> QED
  BY <1>1 DEF Whole, WholeAt

\* Strings of whole characters may be put together.
LEMMA JoinedWhole ==
    ASSUME NEW s, NEW t, Whole(s), Whole(t)
    PROVE  Whole(s \o t)
<1>1. /\ s \in Seq(0..4) /\ t \in Seq(0..4)
      /\ s \o t \in Seq(0..4)
      /\ Len(s \o t) = Len(s) + Len(t)
      /\ DOMAIN s = 1..Len(s) /\ DOMAIN t = 1..Len(t)
      /\ DOMAIN (s \o t) = 1..(Len(s) + Len(t))
  BY DEF Whole
<1>2. /\ \A i \in 1..Len(s) : (s \o t)[i] = s[i] /\ s[i] \in 0..4
      /\ \A i \in 1..Len(t) : (s \o t)[Len(s) + i] = t[i] /\ t[i] \in 0..4
  BY <1>1
<1> DEFINE st == s \o t
<1>3. Len(s) \in Nat /\ Len(t) \in Nat
  BY <1>1
<1>4. ASSUME NEW i \in 1..Len(s)
      PROVE  WholeAt(st, i)
  <2>1. /\ s[i] # 0 => /\ i + s[i] - 1 <= Len(s)
                       /\ \A j \in (i + 1)..(i + s[i] - 1) : s[j] = 0
        /\ s[i] = 0 => \E k \in 1..(i - 1) : s[k] # 0 /\ i <= k + s[k] - 1
    BY <1>1 DEF Whole, WholeAt
  <2> QED
    BY <1>1, <1>2, <1>3, <2>1 DEF WholeAt
<1>5. ASSUME NEW i \in 1..Len(t)
      PROVE  WholeAt(st, Len(s) + i)
  <2>1. /\ t[i] # 0 => /\ i + t[i] - 1 <= Len(t)
                       /\ \A j \in (i + 1)..(i + t[i] - 1) : t[j] = 0
        /\ t[i] = 0 => \E k \in 1..(i - 1) : t[k] # 0 /\ i <= k + t[k] - 1
    BY <1>1 DEF Whole, WholeAt
  <2>2. st[Len(s) + i] = t[i]
    BY <1>2
  <2>3. ASSUME t[i] # 0, NEW j \in (Len(s) + i + 1)..(Len(s) + i + t[i] - 1)
        PROVE  st[j] = 0
    <3>1. j - Len(s) \in (i + 1)..(i + t[i] - 1) /\ j - Len(s) \in 1..Len(t)
      BY <1>2, <1>3, <2>1, <2>3
    <3>2. st[Len(s) + (j - Len(s))] = t[j - Len(s)]
      BY <1>2, <3>1
    <3>3. Len(s) + (j - Len(s)) = j
      BY <1>3
    <3> QED
      BY <2>1, <2>3, <3>1, <3>2, <3>3
  <2>4. ASSUME t[i] = 0
        PROVE  \E k \in 1..(Len(s) + i - 1) : st[k] # 0 /\ Len(s) + i <= k + st[k] - 1
    <3>1. PICK k \in 1..(i - 1) : t[k] # 0 /\ i <= k + t[k] - 1
      BY <2>1, <2>4
    <3>2. k \in 1..Len(t) /\ Len(s) + k \in 1..(Len(s) + i - 1)
      BY <1>3, <3>1
    <3>3. st[Len(s) + k] = t[k] /\ t[k] \in 0..4
      BY <1>2, <3>2
    <3>4. Len(s) + i <= (Len(s) + k) + t[k] - 1
      BY <1>3, <3>1, <3>3
    <3> QED
      BY <3>1, <3>2, <3>3, <3>4
  <2>5. t[i] # 0 => Len(s) + i + t[i] - 1 <= Len(st)
    BY <1>1, <1>2, <1>3, <2>1
  <2> DEFINE at == Len(s) + i
  <2>6. st[at] # 0 => \A j \in (at + 1)..(at + st[at] - 1) : st[j] = 0
    BY <2>2, <2>3
  <2>7. st[at] = 0 => \E k \in 1..(at - 1) : st[k] # 0 /\ at <= k + st[k] - 1
    BY <2>2, <2>4
  <2>8. st[at] # 0 => at + st[at] - 1 <= Len(st)
    BY <2>2, <2>5
  <2> HIDE DEF at, st
  <2>9. WholeAt(st, at)
    BY <2>6, <2>7, <2>8 DEF WholeAt
  <2> QED
    BY <2>9 DEF at
<1>6. ASSUME NEW i \in DOMAIN st
      PROVE  i \in 1..Len(s) \/ \E k \in 1..Len(t) : i = Len(s) + k
  <2>1. i \in 1..(Len(s) + Len(t))
    BY <1>1
  <2>2. CASE i > Len(s)
    <3>1. i - Len(s) \in 1..Len(t) /\ i = Len(s) + (i - Len(s))
      BY <1>3, <2>1, <2>2
    <3> QED
      BY <3>1
  <2> QED
    BY <1>3, <2>1, <2>2
<1> QED
  <2>1. \A i \in DOMAIN st : WholeAt(st, i)
    BY <1>4, <1>5, <1>6
  <2> QED
    BY <1>1, <2>1 DEF Whole

\* A cut leaves whole characters, and room for a number and the extension.
LEMMA TruncatedWhole ==
    ASSUME NEW s, Whole(s)
    PROVE  /\ Whole(truncate_filename(s))
           /\ Len(truncate_filename(s)) <= MaxName - Overhead - Len(Extension)
<1> DEFINE available == MaxName - Overhead - Len(Extension)
           begins    == {i \in 1..available : s[i] # 0}
           last      == Max(begins)
           end       == last + s[last] - 1
           cut       == IF end <= available THEN end ELSE last - 1
<1>1. available \in Nat /\ available >= 4
  <2>1. Len(Extension) = 8
    BY AsciiWhole DEF Extension
  <2> QED
    BY <2>1, NamingAssumption
<1>2. s \in Seq(0..4) /\ Len(s) \in Nat /\ \A i \in 1..Len(s) : s[i] \in 0..4
  BY DEF Whole
<1>3. CASE Len(s) <= available
  <2>1. truncate_filename(s) = s
    BY <1>3 DEF truncate_filename
  <2> QED
    BY <1>3, <2>1
<1>4. CASE ~(Len(s) <= available)
  <2>1. truncate_filename(s) = SubSeq(s, 1, cut)
    BY <1>4 DEF truncate_filename
  <2>2. available < Len(s)
    BY <1>1, <1>2, <1>4
  <2>3. s[1] # 0
    BY <1>1, <1>2, <2>2 DEF Whole, WholeAt
  <2>4. last \in begins /\ \A i \in begins : i <= last
    <3>1. 1 \in begins
      BY <1>1, <2>3
    <3>2. begins \in SUBSET Nat /\ \A i \in begins : i <= available
      BY <1>1
    <3> HIDE DEF begins
    <3> QED
      BY <1>1, <3>1, <3>2, GreatestExists
  <2>5. /\ last \in 1..available /\ last \in 1..Len(s) /\ s[last] \in 1..4
        /\ \A i \in 1..available : i > last => s[i] = 0
    <3>1. last \in 1..available /\ s[last] # 0
      BY <2>4
    <3> HIDE DEF last
    <3>2. last \in 1..Len(s) /\ s[last] \in 0..4
      BY <1>1, <1>2, <2>2, <3>1
    <3>3. \A i \in 1..available : s[i] # 0 => i <= last
      BY <2>4
    <3> QED
      BY <1>1, <3>1, <3>2, <3>3
  <2> HIDE DEF last, begins
  <2>6. cut \in Nat /\ cut <= available /\ cut <= Len(s) /\ cut >= last - 1
    BY <1>1, <1>2, <2>2, <2>5
  <2>7. cut >= last => end <= available /\ cut = end
    BY <1>1, <2>5
  <2>8. cut < last => cut = last - 1
    BY <1>1, <2>5
  <2> HIDE DEF cut
  <2> DEFINE t == SubSeq(s, 1, cut)
  <2>9. t \in Seq(0..4) /\ Len(t) = cut /\ \A i \in 1..cut : t[i] = s[i]
    BY <1>2, <2>6
  <2>10. \A i \in 1..Len(s) :
            /\ s[i] # 0 => /\ i + s[i] - 1 <= Len(s)
                           /\ \A j \in (i + 1)..(i + s[i] - 1) : s[j] = 0
            /\ s[i] = 0 => \E k \in 1..(i - 1) : s[k] # 0 /\ i <= k + s[k] - 1
    BY <1>2 DEF Whole, WholeAt
  <2> HIDE DEF t
  <2>11. ASSUME NEW i \in 1..cut, s[i] # 0
         PROVE  i + s[i] - 1 <= cut
    <3>1. i \in 1..available /\ i \in 1..Len(s) /\ s[i] \in 1..4 /\ i <= last
      BY <1>1, <1>2, <2>5, <2>6, <2>11
    <3>2. CASE i = last
      BY <2>5, <2>6, <2>7, <3>1, <3>2
    <3>3. CASE i < last
      <4>1. ~(last \in (i + 1)..(i + s[i] - 1))
        BY <2>5, <2>10, <3>1
      <4>2. i + s[i] - 1 < last
        BY <2>5, <3>1, <3>3, <4>1
      <4> QED
        BY <2>5, <2>6, <3>1, <4>2
    <3> QED
      BY <2>5, <3>1, <3>2, <3>3
  <2>12. ASSUME NEW i \in 1..cut
         PROVE  WholeAt(t, i)
    <3>1. i \in 1..Len(s) /\ t[i] = s[i] /\ s[i] \in 0..4
      BY <1>2, <2>6, <2>9
    <3>2. ASSUME s[i] # 0, NEW j \in (i + 1)..(i + s[i] - 1)
          PROVE  t[j] = 0
      <4>1. j \in 1..cut
        BY <2>6, <2>11, <3>1, <3>2
      <4> QED
        BY <2>9, <2>10, <3>1, <3>2, <4>1
    <3>3. ASSUME s[i] = 0
          PROVE  \E k \in 1..(i - 1) : t[k] # 0 /\ i <= k + t[k] - 1
      <4>1. PICK k \in 1..(i - 1) : s[k] # 0 /\ i <= k + s[k] - 1
        BY <2>10, <3>1, <3>3
      <4>2. t[k] = s[k]
        BY <2>6, <2>9, <4>1
      <4> QED
        BY <4>1, <4>2
    <3> QED
      BY <2>9, <2>11, <3>1, <3>2, <3>3 DEF WholeAt
  <2>13. DOMAIN t = 1..cut
    BY <2>6, <2>9
  <2>14. Whole(t)
    BY <2>9, <2>12, <2>13 DEF Whole
  <2> QED
    BY <1>1, <2>1, <2>6, <2>9, <2>14 DEF t
<1> QED
  BY <1>3, <1>4

LEMMA SuffixWhole ==
    ASSUME NEW number
    PROVE  Whole(Suffix(number)) /\ Len(Suffix(number)) \in 0..6
<1>1. Whole(<<>>) /\ Len(<<>>) = 0
  BY DEF Whole
<1>2. \A n \in 3..6 : Whole(Ascii(n)) /\ Len(Ascii(n)) = n
  BY AsciiWhole
<1>3. \/ Suffix(number) = <<>>
      \/ \E n \in 3..6 : Suffix(number) = Ascii(n)
  BY DEF Suffix
<1> QED
  BY <1>1, <1>2, <1>3

\* An automatic name, with its number and extension, is one that a directory can
\* hold; the shortening beside a number is never needed.
LEMMA AutomaticNameRight ==
    ASSUME NEW in, Whole(in.content), Whole(in.domain),
           ~generate_auto_output_path(in).refused
    PROVE  LET name == FileName(generate_auto_output_path(in).name)
           IN  Whole(name) /\ Len(name) <= MaxName
<1> DEFINE long == generate_output_filename(in)
           stem == truncate_filename(long)
<1>1. Whole(long)
  <2>1. Whole(Ascii(7)) /\ Whole(Ascii(1))
    BY AsciiWhole
  <2> QED
    BY <2>1, JoinedWhole DEF generate_output_filename
<1>2. Whole(stem) /\ Len(stem) <= MaxName - Overhead - Len(Extension)
  BY <1>1, TruncatedWhole
<1>3. PICK number : generate_auto_output_path(in).name = Candidate(stem, number)
  BY DEF generate_auto_output_path, resolve_collision
<1> HIDE DEF stem
<1>4. Whole(Extension) /\ Len(Extension) = 8
  BY AsciiWhole DEF Extension
<1>5. Whole(Suffix(number)) /\ Len(Suffix(number)) \in 0..6
  BY SuffixWhole
<1>6. Len(stem) \in Nat /\ stem \in Seq(0..4)
  BY <1>2 DEF Whole
<1> DEFINE suffix == Suffix(number)
           length == Len(stem)
           digits == Len(suffix)
<1>7. /\ length \in Nat /\ digits \in 0..6 /\ MaxName \in Nat /\ Overhead \in Nat
      /\ Overhead >= 6 /\ length <= MaxName - Overhead - 8
  BY <1>2, <1>4, <1>5, <1>6, NamingAssumption
<1>8. Shortened(stem, number) = stem
  <2>1. length <= MaxName - digits - 8
    <3> HIDE DEF length, digits
    <3> QED
      BY <1>7
  <2> QED
    BY <1>4, <2>1 DEF Shortened
<1>9. FileName(Candidate(stem, number)) = stem \o suffix \o Extension
  BY <1>8 DEF FileName, Candidate
<1> HIDE DEF suffix
<1>10. Whole(stem \o suffix) /\ Whole(stem \o suffix \o Extension)
  BY <1>2, <1>4, <1>5, JoinedWhole DEF suffix
<1>11. Len(stem \o suffix \o Extension) = length + digits + 8
  <2>1. /\ stem \in Seq(0..4) /\ suffix \in Seq(0..4) /\ Extension \in Seq(0..4)
    BY <1>4, <1>5, <1>6 DEF Whole, suffix
  <2>2. Len(stem \o suffix) = length + digits /\ stem \o suffix \in Seq(0..4)
    BY <2>1
  <2>3. Len((stem \o suffix) \o Extension) = Len(stem \o suffix) + Len(Extension)
    BY <2>1, <2>2
  <2> QED
    BY <1>4, <2>2, <2>3
<1>12. length + digits + 8 <= MaxName
  <2> HIDE DEF length, digits
  <2> QED
    BY <1>7
<1> QED
  BY <1>3, <1>9, <1>10, <1>11, <1>12

--------------------------------------------------------------------------------
(* Which files are left out. *)

LEMMA SameInterval ==
    ASSUME NEW m \in Nat, NEW n \in Nat, 1..m = 1..n
    PROVE  m = n
<1>1. m >= 1 => m \in 1..n
  OBVIOUS
<1>2. n >= 1 => n \in 1..m
  OBVIOUS
<1> QED
  BY <1>1, <1>2

\* A glob does not tell paths apart that differ in case.
LEMMA GlobLowered ==
    ASSUME NEW p \in Seq(DOMAIN Lower), NEW q \in Seq(DOMAIN Lower), Lowered(p) = Lowered(q),
           NEW glob \in Globs, NEW slash
    PROVE  GlobMatches(glob, p, slash) <=> GlobMatches(glob, q, slash)
<1>1. /\ DOMAIN p = 1..Len(p) /\ DOMAIN q = 1..Len(q)
      /\ Len(p) \in Nat /\ Len(q) \in Nat /\ Len(glob.parts) \in Nat
  BY DEF Globs
<1>2. DOMAIN p = DOMAIN q
  BY DEF Lowered
<1>3. Len(p) = Len(q)
  BY <1>1, <1>2, SameInterval
<1>4. \A i \in 1..Len(p) : Lower[p[i]] = Lower[q[i]]
  <2> SUFFICES ASSUME NEW i \in 1..Len(p) PROVE Lower[p[i]] = Lower[q[i]]
    OBVIOUS
  <2>1. Lowered(p)[i] = Lower[p[i]] /\ Lowered(q)[i] = Lower[q[i]]
    BY <1>1, <1>2 DEF Lowered
  <2> QED
    BY <2>1
<1>5. ASSUME NEW k \in 0..Len(p), k + Len(glob.parts) <= Len(p), NEW i \in 1..Len(glob.parts)
      PROVE  Lower[p[k + i]] = Lower[q[k + i]]
  <2>1. k + i \in 1..Len(p)
    BY <1>1, <1>5
  <2> QED
    BY <1>4, <2>1
<1>6. 0 \in 0..Len(p)
  BY <1>1
<1> QED
  BY <1>3, <1>5, <1>6, Zenon DEF GlobMatches

LEMMA DirectoriesLowered ==
    ASSUME NEW p \in Seq(DOMAIN Lower), NEW q \in Seq(DOMAIN Lower), Lowered(p) = Lowered(q),
           NEW dir \in DirectoriesOf(p), NEW glob \in Globs, NEW slash,
           GlobMatches(glob, dir, slash)
    PROVE  \E other \in DirectoriesOf(q) : GlobMatches(glob, other, slash)
<1>1. CASE dir = <<".">>
  BY <1>1 DEF DirectoriesOf
<1>2. CASE dir # <<".">>
  <2>1. PICK k \in 1..(Len(p) - 1) : dir = SubSeq(p, 1, k)
    BY <1>2 DEF DirectoriesOf
  <2>2. /\ DOMAIN p = 1..Len(p) /\ DOMAIN q = 1..Len(q) /\ Len(p) \in Nat /\ Len(q) \in Nat
        /\ DOMAIN p = DOMAIN q
    BY DEF Lowered
  <2>3. Len(p) = Len(q)
    BY <2>2, SameInterval
  <2> DEFINE other == SubSeq(q, 1, k)
  <2>4. /\ dir \in Seq(DOMAIN Lower) /\ other \in Seq(DOMAIN Lower)
        /\ DOMAIN dir = 1..k /\ DOMAIN other = 1..k
        /\ \A i \in 1..k : dir[i] = p[i] /\ other[i] = q[i]
    BY <2>1, <2>2, <2>3
  <2>5. \A i \in 1..k : Lower[p[i]] = Lower[q[i]]
    <3>1. ASSUME NEW i \in 1..k PROVE Lower[p[i]] = Lower[q[i]]
      <4>1. i \in 1..Len(p)
        BY <2>1, <2>2
      <4>2. Lowered(p)[i] = Lower[p[i]] /\ Lowered(q)[i] = Lower[q[i]]
        BY <2>2, <4>1 DEF Lowered
      <4> QED
        BY <4>2
    <3> QED
      BY <3>1
  <2> HIDE DEF other
  <2>6. Lowered(dir) = Lowered(other)
    BY <2>4, <2>5 DEF Lowered
  <2>7. other \in DirectoriesOf(q)
    BY <2>1, <2>3 DEF DirectoriesOf, other
  <2> QED
    BY <2>4, <2>6, <2>7, GlobLowered
<1> QED
  BY <1>1, <1>2

\* Paths that differ in case are left out together.
LEMMA LeftOutLowered ==
    ASSUME NEW content, content.excludes \subseteq Globs, content.includes \subseteq Globs,
           NEW p \in Seq(DOMAIN Lower), NEW q \in Seq(DOMAIN Lower), Lowered(p) = Lowered(q),
           LeftOut(content, p)
    PROVE  LeftOut(content, q)
<1> DEFINE excludes == apply_builtin_excludes(content.excludes, content.builtin)
<1>1. excludes \subseteq Globs
  BY SelectionAssumption DEF apply_builtin_excludes
<1>2. CASE content.includes # {}
  <2>1. \A glob \in content.includes : ~GlobMatches(glob, p, FALSE)
    BY <1>2 DEF LeftOut
  <2>2. \A glob \in content.includes : ~GlobMatches(glob, q, FALSE)
    BY <2>1, GlobLowered
  <2> QED
    BY <1>2, <2>2 DEF LeftOut
<1>3. CASE content.includes = {}
  <2>1. PICK glob \in excludes :
            \/ GlobMatches(glob, p, FALSE)
            \/ \E dir \in DirectoriesOf(p), slash \in BOOLEAN : GlobMatches(glob, dir, slash)
    BY <1>3 DEF LeftOut
  <2> HIDE DEF excludes
  <2>2. \/ GlobMatches(glob, q, FALSE)
        \/ \E dir \in DirectoriesOf(q), slash \in BOOLEAN : GlobMatches(glob, dir, slash)
    <3>1. glob \in Globs
      BY <1>1, <2>1
    <3>2. ASSUME NEW dir \in DirectoriesOf(p), NEW slash \in BOOLEAN, GlobMatches(glob, dir, slash)
          PROVE  \E other \in DirectoriesOf(q) : GlobMatches(glob, other, slash)
      BY <3>1, <3>2, DirectoriesLowered
    <3>3. GlobMatches(glob, p, FALSE) => GlobMatches(glob, q, FALSE)
      BY <3>1, GlobLowered
    <3> QED
      BY <2>1, <3>2, <3>3
  <2> QED
    BY <1>3, <2>2 DEF LeftOut, excludes
<1> QED
  BY <1>2, <1>3

\* A torrent has the files that are not left out.
LEMMA ChosenAreKept ==
    ASSUME NEW content, ~add_files_to_storage(content).refused
    PROVE  add_files_to_storage(content).files =
             {path \in {f.path : f \in content.files} : ~LeftOut(content, path)}
<1> DEFINE excludes == apply_builtin_excludes(content.excludes, content.builtin)
           files == {f.path : f \in content.files}
           Kept(path) ==
             /\ \A dir \in DirectoriesOf(path) : ~Pruned(dir, excludes, content.includes)
             /\ should_include_file(path, excludes, content.includes)
           kept == {path \in files : Kept(path)}
           chosen == IF excludes = {} /\ content.includes = {} THEN files ELSE kept
<1>1. add_files_to_storage(content) =
        IF chosen = {} THEN [refused |-> TRUE] ELSE [refused |-> FALSE, files |-> chosen]
  BY Zenon DEF add_files_to_storage
<1>2. add_files_to_storage(content).files = chosen
  <2> HIDE DEF chosen
  <2> QED
    BY <1>1
<1>3. ASSUME NEW path
      PROVE  Kept(path) <=> ~LeftOut(content, path)
  <2>1. CASE content.includes # {}
    BY <2>1, Zenon DEF LeftOut, Pruned, should_include_file, AnyMatches
  <2>2. CASE content.includes = {}
    <3>1. Kept(path) <=>
            /\ \A dir \in DirectoriesOf(path), glob \in excludes :
                ~GlobMatches(glob, dir, TRUE) /\ ~GlobMatches(glob, dir, FALSE)
            /\ \A glob \in excludes : ~GlobMatches(glob, path, FALSE)
      BY <2>2, Zenon DEF Pruned, should_include_file, AnyMatches
    <3>2. LeftOut(content, path) <=>
            \E glob \in excludes :
                \/ GlobMatches(glob, path, FALSE)
                \/ \E dir \in DirectoriesOf(path), slash \in BOOLEAN : GlobMatches(glob, dir, slash)
      BY <2>2, Zenon DEF LeftOut
    <3> HIDE DEF Kept, excludes
    <3> QED
      BY <3>1, <3>2
  <2> QED
    BY <2>1, <2>2
<1>4. excludes = {} /\ content.includes = {} => \A path : ~LeftOut(content, path)
  BY DEF LeftOut
<1>5. kept = {path \in files : ~LeftOut(content, path)}
  <2> HIDE DEF files, Kept
  <2> QED
    BY <1>3
<1>6. chosen = {path \in files : ~LeftOut(content, path)}
  <2>1. CASE excludes = {} /\ content.includes = {}
    <3>1. chosen = files
      BY <2>1
    <3> HIDE DEF excludes, files, chosen
    <3> QED
      BY <1>4, <2>1, <3>1
  <2>2. CASE ~(excludes = {} /\ content.includes = {})
    BY <1>5, <2>2
  <2> QED
    BY <2>1, <2>2
<1> HIDE DEF chosen, Kept
<1> QED
  BY <1>2, <1>6

LEMMA ExtraAreLeftOut ==
    ASSUME NEW content, content.excludes \subseteq Globs, content.includes \subseteq Globs,
           \A f \in content.files : f.path \in Seq(DOMAIN Lower),
           ~add_files_to_storage(content).refused
    PROVE  find_extra_files(content.files, add_files_to_storage(content).files) =
             {f.path : f \in {g \in content.files : LeftOut(content, g.path) /\ ~g.linked}}
<1> DEFINE torrent == add_files_to_storage(content).files
           lowered == {Lowered(path) : path \in torrent}
<1>1. torrent = {path \in {f.path : f \in content.files} : ~LeftOut(content, path)}
  BY ChosenAreKept
<1> HIDE DEF torrent
<1>2. ASSUME NEW g \in content.files
      PROVE  Lowered(g.path) \notin lowered <=> LeftOut(content, g.path)
  <2>1. ASSUME Lowered(g.path) \in lowered
        PROVE  ~LeftOut(content, g.path)
    <3>1. PICK path \in torrent : Lowered(g.path) = Lowered(path)
      BY <2>1
    <3>2. path \in Seq(DOMAIN Lower) /\ ~LeftOut(content, path)
      BY <1>1, <3>1
    <3> QED
      BY <3>1, <3>2, LeftOutLowered
  <2>2. ASSUME ~LeftOut(content, g.path)
        PROVE  Lowered(g.path) \in lowered
    <3>1. g.path \in torrent
      BY <1>1, <2>2
    <3> QED
      BY <3>1
  <2> QED
    BY <2>1, <2>2
<1>3. find_extra_files(content.files, torrent) =
        {f.path : f \in {g \in content.files : ~g.linked /\ Lowered(g.path) \notin lowered}}
  BY DEF find_extra_files
<1> HIDE DEF lowered
<1>4. {g \in content.files : ~g.linked /\ Lowered(g.path) \notin lowered}
        = {g \in content.files : LeftOut(content, g.path) /\ ~g.linked}
  BY <1>2
<1> QED
  BY <1>3, <1>4 DEF torrent

--------------------------------------------------------------------------------
(* An answer is that of the function called.                                   *)

AnswerOfCall ==
    /\ call.command = "create" => call.input \in Creates
    /\ Answered("create") =>
        answer = ChoosePieceSize(call.input.job, call.input.rule,
                                 call.input.measured, call.input.hashed)
    /\ call.command = "job" => call.input \in Jobs
    /\ Answered("job") => answer = execute_job(call.input)
    /\ call.command = "command" => call.input \in Commands
    /\ Answered("command") => answer = get_commandline_config(call.input)
    /\ call.command = "questions" => call.input \in Answers
    /\ Answered("questions") => answer = get_interactive_config(call.input)
    /\ Answered("modify") =>
        answer = handle_modify_command(call.input.torrent, call.input.options)
    /\ call.command = "name" => call.input \in Unnamed
    /\ Answered("name") => answer = generate_auto_output_path(call.input)
    /\ call.command = "select" => call.input \in Directories
    /\ Answered("select") => answer = add_files_to_storage(call.input)
    /\ Answered("compare") =>
        LET content == call.input.content
        IN  /\ content \in Directories
            /\ ~add_files_to_storage(content).refused
            /\ answer = [extra |-> find_extra_files(content.files,
                                                   add_files_to_storage(content).files)]
    /\ call.command = "check" => call.input \in Checks
    /\ Answered("check") => answer = check(call.input.torrent, call.input.disk)
    /\ call.command = "season" => call.input \in Seasons
    /\ Answered("season") =>
        answer = evaluate_season_warning(call.input.dir, call.input.fail_on_warning)

LEMMA AlwaysAnswerOfCall == Spec => []AnswerOfCall
<1>1. Init => AnswerOfCall
  BY DEF Init, AnswerOfCall, Answered
<1>2. AnswerOfCall /\ [Next]_vars => AnswerOfCall'
  <2> SUFFICES ASSUME AnswerOfCall, [Next]_vars
               PROVE  AnswerOfCall'
    OBVIOUS
  <2>1. CASE Create
    BY <2>1 DEF Create, Called, AnswerOfCall, Answered
  <2>2. CASE ExecuteJob
    BY <2>2 DEF ExecuteJob, Called, AnswerOfCall, Answered
  <2>3. CASE Command
    BY <2>3 DEF Command, Called, AnswerOfCall, Answered
  <2>4. CASE Questions
    BY <2>4 DEF Questions, Called, AnswerOfCall, Answered
  <2>5. CASE Write
    BY <2>5 DEF Write, AnswerOfCall, Answered
  <2>6. CASE Modify
    BY <2>6 DEF Modify, Called, AnswerOfCall, Answered
  <2>7. CASE EditTorrent
    BY <2>7 DEF EditTorrent, AnswerOfCall, Answered
  <2>8. CASE Inspect
    BY <2>8 DEF Inspect, AnswerOfCall, Answered
  <2>9. CASE Check
    BY <2>9 DEF Check, Called, AnswerOfCall, Answered
  <2>10. CASE Season
    BY <2>10 DEF Season, Called, AnswerOfCall, Answered
  <2>11. CASE Name
    BY <2>11 DEF Name, Called, AnswerOfCall, Answered
  <2>12. CASE Select
    BY <2>12 DEF Select, Called, AnswerOfCall, Answered
  <2>13. CASE Compare
    BY <2>13 DEF Compare, AnswerOfCall, Answered
  <2>14. CASE UNCHANGED vars
    BY <2>14 DEF vars, AnswerOfCall, Answered
  <2> QED
    BY <2>1, <2>2, <2>3, <2>4, <2>5, <2>6, <2>7, <2>8, <2>9, <2>10, <2>11, <2>12, <2>13, <2>14
       DEF Next
<1> QED
  BY <1>1, <1>2, PTL DEF Spec

\* What the lemma on choices says of a call of create.
LEMMA CreateRight ==
    ASSUME AnswerOfCall, Answered("create")
    PROVE  /\ answer.kb \in Allowed /\ answer.warned \in BOOLEAN
           /\ KeptOrWarned
           /\ NoLargerThanNeeded
<1> DEFINE in == call.input
<1>1. /\ in \in [job : Requests, rule : Rules, measured : Nat, hashed : Nat]
      /\ in.hashed <= in.measured
  BY ToolsAssumption DEF AnswerOfCall, Answered
<1>2. answer = ChoosePieceSize(in.job, in.rule, in.measured, in.hashed)
  BY DEF AnswerOfCall
<1>3. /\ in.job \in Requests /\ in.rule \in Rules
      /\ in.measured \in Nat /\ in.hashed \in Nat
  BY <1>1
<1>4. /\ answer.kb \in Allowed /\ answer.warned \in BOOLEAN
      /\ ~answer.warned =>
            /\ ~OverCap(in.rule, answer.kb)
            /\ in.measured = in.hashed => ~TooLarge(in.rule, in.hashed, answer.kb)
      /\ Current(in.job, in.measured) = Unset =>
            /\ OverCap(in.rule, answer.kb) => \A a \in Allowed : OverCap(in.rule, a)
            /\ in.rule.overrides = {} =>
                 \A a \in Allowed :
                    auto_piece_size(in.measured) <= a /\ a < answer.kb =>
                        TooLarge(in.rule, in.measured, a)
  BY <1>1, <1>2, <1>3, ChoiceRight
<1> QED
  BY <1>4 DEF KeptOrWarned, NoLargerThanNeeded

\* Every answer has the form its caller expects: the piece size is an allowed one
\* whatever the rule says, a list of trackers is present where there are tiers, and an
\* automatic name fits into its directory without a broken character
\* (utils.cpp:33-88, 406-572, torrent_modifier.cpp:256-429).
THEOREM Typed == Spec => []TypeOK
<1>1. AnswerOfCall => TypeOK
  <2> SUFFICES ASSUME AnswerOfCall
               PROVE  TypeOK
    OBVIOUS
  <2>1. Answered("create") => answer.kb \in Allowed /\ answer.warned \in BOOLEAN
    BY CreateRight
  <2>2. Answered("modify") =>
            \/ answer.trackers.listed = (answer.trackers.tiers # <<>>)
            \/ answer.trackers = call.input.torrent.trackers
    <3> DEFINE Formed(t) == t.listed = (t.tiers # <<>>)
    <3>1. \A announce, tiers : Formed(Trackers(announce, tiers))
      BY DEF Trackers
    <3> HIDE DEF Formed
    <3>2. \A urls : Formed(rebuild_trackers(urls))
      BY <3>1, Zenon DEF rebuild_trackers
    <3>3. \A t, urls : add_trackers(t, urls) = t \/ Formed(add_trackers(t, urls))
      BY <3>1, Zenon DEF add_trackers
    <3>4. \A t, urls : remove_trackers(t, urls) = t \/ Formed(remove_trackers(t, urls))
      BY <3>1, Zenon DEF remove_trackers
    <3>5. ASSUME Answered("modify"), ~(answer = call.input.torrent)
          PROVE  Formed(answer.trackers) \/ answer.trackers = call.input.torrent.trackers
      <4> DEFINE t == call.input.torrent
                 o == call.input.options
                 removed == remove_trackers(t.trackers, Setting(o, "remove_tracker", <<>>))
                 edited  == IF Sets(o, "tracker") THEN rebuild_trackers(o["tracker"])
                            ELSE add_trackers(removed, Setting(o, "add_tracker", <<>>))
      <4>1. answer = apply_modifications(t, o)
        BY <3>5, Zenon DEF AnswerOfCall, handle_modify_command
      <4>2. edited = t.trackers \/ Formed(edited)
        <5> HIDE DEF t, o
        <5> QED
          BY <3>2, <3>3, <3>4, Zenon
      <4>3. answer.trackers = edited \/ answer.trackers = t.trackers
        <5> HIDE DEF edited
        <5>1. \A x : "trackers" \in DOMAIN x \/ "trackers" \notin DOMAIN x
          OBVIOUS
        <5> QED
          BY <4>1 DEF apply_modifications, edited
      <4> QED
        BY <4>2, <4>3
    <3> QED
      BY <3>5 DEF Formed
  <2>3. Answered("check") =>
            /\ answer.corrupted \subseteq PieceIndices(call.input.torrent)
            /\ answer.missing \subseteq DOMAIN call.input.torrent.files
    BY DEF AnswerOfCall, check, verify_all_pieces, check_missing_files
  <2>4. Answered("name") /\ ~answer.refused =>
            Whole(FileName(answer.name)) /\ Len(FileName(answer.name)) <= MaxName
    BY ToolsAssumption, AutomaticNameRight DEF AnswerOfCall, Answered
  <2> QED
    BY <2>1, <2>2, <2>3, <2>4 DEF TypeOK
<1> QED
  BY <1>1, AlwaysAnswerOfCall, PTL

\* Whatever the rule, the content and the wishes of the user: without a warning the
\* cap is kept, and the limit on the torrent's size as well (batch.cpp:309-350).
THEOREM RuleKeptOrWarned == Spec => []KeptOrWarned
<1>1. AnswerOfCall => KeptOrWarned
  BY CreateRight DEF KeptOrWarned
<1> QED
  BY <1>1, AlwaysAnswerOfCall, PTL

\* A size chosen for the user is above the cap only where every size is, and is not
\* larger than the limit on the torrent's size demands (tracker_rules.cpp:210-270).
THEOREM SizeNoLargerThanNeeded == Spec => []NoLargerThanNeeded
<1>1. AnswerOfCall => NoLargerThanNeeded
  BY CreateRight DEF NoLargerThanNeeded, Answered
<1> QED
  BY <1>1, AlwaysAnswerOfCall, PTL

\* A directory checked against its own torrent has as extra files exactly those that
\* the patterns leave out, whatever the patterns and the letter case of the names:
\* patterns and check compare names alike, so that no file that was left out hides
\* behind one that was not (torrent_creator.cpp:42-106, torrent_checker.cpp:400-455).
THEOREM LeftOutReported == Spec => []LeftOutIsExtra
<1>1. AnswerOfCall => LeftOutIsExtra
  <2> SUFFICES ASSUME AnswerOfCall, Answered("compare")
               PROVE  answer.extra = {f.path : f \in {g \in call.input.content.files :
                                    LeftOut(call.input.content, g.path) /\ ~g.linked}}
    BY DEF LeftOutIsExtra
  <2> DEFINE content == call.input.content
  <2>1. /\ content \in Directories
        /\ ~add_files_to_storage(content).refused
        /\ answer.extra = find_extra_files(content.files, add_files_to_storage(content).files)
    BY DEF AnswerOfCall
  <2>2. /\ content.excludes \subseteq Globs /\ content.includes \subseteq Globs
        /\ \A f \in content.files : f.path \in Seq(DOMAIN Lower)
    BY <2>1, ToolsAssumption
  <2> HIDE DEF content
  <2>3. answer.extra = {f.path : f \in {g \in content.files :
                            LeftOut(content, g.path) /\ ~g.linked}}
    BY <2>1, <2>2, ExtraAreLeftOut
  <2> QED
    BY <2>3 DEF content
<1> QED
  BY <1>1, AlwaysAnswerOfCall, PTL

\* A season pack is rejected exactly if an episode is missing below its highest one, and
\* for what is missing, however many files there are and whatever numbers their names
\* list (season_pack.cpp:160-352).
THEOREM GapsAreRejected == Spec => []GapsRejected
<1>1. AnswerOfCall => GapsRejected
  <2> SUFFICES ASSUME AnswerOfCall, Answered("season"),
                      \A f \in ToSet(call.input.dir.files) : WellNamed(f)
               PROVE  GapsRejected
    BY DEF GapsRejected
  <2>1. /\ call.input \in Seasons
        /\ answer = evaluate_season_warning(call.input.dir, call.input.fail_on_warning)
    BY DEF AnswerOfCall, Answered
  <2>2. /\ MaxEpisode \in Nat /\ MaxSpan \in Nat
        /\ call.input.dir.files \in Seq(Videos)
    BY <2>1, ToolsAssumption, Zenon DEF Videos
  <2> QED
    BY <2>1, <2>2, SeasonRight, Zenon DEF GapsRejected
<1> QED
  BY <1>1, AlwaysAnswerOfCall, PTL

\* What is known of a call of check.
LEMMA CheckRight ==
    ASSUME AnswerOfCall, Answered("check"), FlatHashes(call.input.torrent)
    PROVE  /\ IsContent(call.input.torrent) /\ IsDisk(call.input.torrent, call.input.disk)
           /\ answer = check(call.input.torrent, call.input.disk)
           /\ answer.corrupted = {k \in PieceIndices(call.input.torrent) :
                                    ~Same(call.input.torrent, call.input.disk, k)}
<1>1. /\ call.input \in Checks
      /\ answer = check(call.input.torrent, call.input.disk)
  BY DEF AnswerOfCall, Answered
<1>2. /\ IsContent(call.input.torrent) /\ IsDisk(call.input.torrent, call.input.disk)
      /\ BlockSize \in Nat
  BY <1>1, ToolsAssumption
<1> QED
  BY <1>1, <1>2, CorruptedRight

\* The check reports exactly the pieces with a byte that differs on disk, however many
\* files there are and whichever of them a piece spans, are missing, short, empty or
\* padding; for version 2, where a piece is no longer than a block
\* (torrent_checker.cpp:69-93, 178-322).
THEOREM ReportsAreExact == Spec => []CorruptedExactly
<1>1. AnswerOfCall => CorruptedExactly
  <2> SUFFICES ASSUME AnswerOfCall, Answered("check"), FlatHashes(call.input.torrent)
               PROVE  CorruptedExactly
    BY DEF CorruptedExactly
  <2>1. answer.corrupted = {k \in PieceIndices(call.input.torrent) :
                              ~Same(call.input.torrent, call.input.disk, k)}
    BY CheckRight
  <2> QED
    BY <2>1 DEF CorruptedExactly, Same
<1> QED
  BY <1>1, AlwaysAnswerOfCall, PTL

\* A content that is complete passes the check where the hashes of version 2 are flat:
\* the trees of longer pieces are the only reason why one may fail
\* (torrent_checker.cpp:222-259, 270-322).
THEOREM IntactFlatPasses ==
    Spec => [](Answered("check") /\ FlatHashes(call.input.torrent) => IntactPasses)
<1>1. AnswerOfCall => (Answered("check") /\ FlatHashes(call.input.torrent) => IntactPasses)
  <2> DEFINE t == call.input.torrent
             disk == call.input.disk
  <2> SUFFICES ASSUME AnswerOfCall, Answered("check"), FlatHashes(t),
                      \A i \in DOMAIN t.files :
                        \/ t.files[i].pad
                        \/ disk[i].exists /\ Len(disk[i].bytes) = t.files[i].size,
                      \A p \in DOMAIN t.content : OnDisk(t, disk, p) = t.content[p]
               PROVE  answer.passed
    BY DEF IntactPasses
  <2>1. /\ IsContent(t) /\ answer = check(t, disk)
        /\ answer.corrupted = {k \in PieceIndices(t) : ~Same(t, disk, k)}
    BY CheckRight
  <2>2. answer.passed <=> answer.corrupted = {} /\ check_missing_files(t, disk) = {}
    <3>1. answer = [corrupted |-> verify_all_pieces(t, disk),
                    missing |-> check_missing_files(t, disk),
                    passed |-> verify_all_pieces(t, disk) = {}
                               /\ check_missing_files(t, disk) = {}]
      BY <2>1, Zenon DEF check
    <3> QED
      BY <3>1, Zenon
  <2>3. check_missing_files(t, disk) = {}
    BY DEF check_missing_files
  <2>4. ASSUME NEW k \in PieceIndices(t)
        PROVE  Same(t, disk, k)
    <3>1. Laid(t) /\ t.piece_length \in Nat \ {0} /\ DOMAIN t.content = 0..(TotalSize(t) - 1)
      BY <2>1, FilesLaid DEF IsContent, Sized
    <3>2. k \in Nat
      BY DEF PieceIndices
    <3>3. Placed(t, k)
      BY <3>1, <3>2, PiecePlaced
    <3> QED
      BY <3>1, <3>3 DEF Placed, Same
  <2> QED
    BY <2>1, <2>2, <2>3, <2>4
<1> QED
  BY <1>1, AlwaysAnswerOfCall, PTL

\* Every setting of a torrent comes from the strongest layer that sets it, the job or the
\* command line before the preset before the defaults of its file, however many presets
\* the file has and whatever else they set (preset.cpp:72-97, torrent_builder.cpp:499-818).
THEOREM StrongestLayerWins == Spec => []StrongestWins
<1>1. AnswerOfCall => StrongestWins
  <2> SUFFICES ASSUME AnswerOfCall, Answered("job") \/ Answered("command"), ~answer.refused
               PROVE  HasStrongest(call.input, answer)
    BY DEF StrongestWins
  <2>1. CASE Answered("job")
    <3>1. IsInput(call.input) /\ answer = execute_job(call.input)
      BY <2>1, ToolsAssumption DEF AnswerOfCall, Answered
    <3> QED
      BY <3>1, JobStrongest, Zenon
  <2>2. CASE Answered("command")
    <3>1. /\ IsInput(call.input) /\ IsCommandLine(call.input.values)
          /\ answer = get_commandline_config(call.input)
      BY <2>2, ToolsAssumption DEF AnswerOfCall, Answered
    <3> QED
      BY <3>1, CommandStrongest, Zenon
  <2> QED
    BY <2>1, <2>2
<1> QED
  BY <1>1, AlwaysAnswerOfCall, PTL

\* What the batch, the command line and the questions make of the same settings is the
\* same configuration, or the same refusal, whatever is set and whatever the presets and
\* the rules are (batch.cpp:251-374, torrent_builder.cpp:111-927).
THEOREM FrontEndsDoAgree == Spec => []FrontEndsAgree
<1>1. AnswerOfCall => FrontEndsAgree
  <2> DEFINE in == call.input
  <2> SUFFICES ASSUME AnswerOfCall, Answered("job"), Ordinary(in), IsCommandLine(in.values)
               PROVE  /\ get_commandline_config(in) = answer
                      /\ /\ in.preset = None /\ CanBeAnswers(in.values)
                         /\ ~answer.refused /\ NoRuleFor(in, answer.trackers)
                         => get_interactive_config(in) = answer
    BY Zenon DEF FrontEndsAgree
  <2>1. /\ IsInput(in) /\ ~Sets(in.values, "default_trackers")
        /\ answer = execute_job(in)
    BY ToolsAssumption DEF AnswerOfCall, Answered
  <2> HIDE DEF in
  <2>2. get_commandline_config(in) = answer
    BY <2>1, CommandAgrees, Zenon
  <2>3. ASSUME in.preset = None, CanBeAnswers(in.values),
               ~answer.refused, NoRuleFor(in, answer.trackers)
        PROVE  get_interactive_config(in) = answer
    BY <2>1, <2>3, QuestionsAgree, Zenon
  <2> QED
    BY <2>2, <2>3
<1> QED
  BY <1>1, AlwaysAnswerOfCall, PTL

--------------------------------------------------------------------------------
(* Torrents have the trackers and the info dictionary that edits need.          *)

AllShaped ==
    /\ call.command = "modify" => Shaped(call.input.torrent) /\ call.input.options \in Edits
    /\ ThereIsTorrent => Shaped(answer)

LEMMA ModifyShaped ==
    ASSUME NEW t, Shaped(t), NEW o \in Edits
    PROVE  Shaped(handle_modify_command(t, o))
<1>1. \A key \in {"tracker", "add_tracker", "remove_tracker"} :
        Setting(o, key, <<>>) \in Seq(STRING)
  BY ToolsAssumption, Zenon
<1>2. Shaped(apply_modifications(t, o))
  BY <1>1, ModifiedRight, Zenon
<1>3. handle_modify_command(t, o) \in {t, apply_modifications(t, o)}
  BY DEF handle_modify_command
<1> QED
  BY <1>2, <1>3

LEMMA ConfiguredUrls ==
    ASSUME AnswerOfCall, answer # Pending, call.command \in FrontEnds, ~answer.refused
    PROVE  answer.trackers \in Seq(STRING)
<1>1. DefaultTrackers \in Seq(STRING) /\ \A in \in Jobs \cup Commands \cup Answers : IsInput(in)
  BY ToolsAssumption, Zenon
<1>2. CASE call.command = "job"
  <2>1. IsInput(call.input) /\ answer = execute_job(call.input)
    BY <1>1, <1>2 DEF AnswerOfCall, Answered
  <2> QED
    BY <2>1, JobUrls, Zenon
<1>3. CASE call.command = "command"
  <2>1. IsInput(call.input) /\ answer = get_commandline_config(call.input)
    BY <1>1, <1>3 DEF AnswerOfCall, Answered
  <2> QED
    BY <1>1, <2>1, CommandUrls, Zenon
<1>4. CASE call.command = "questions"
  <2>1. IsInput(call.input) /\ answer = get_interactive_config(call.input)
    BY <1>1, <1>4 DEF AnswerOfCall, Answered
  <2> QED
    BY <1>1, <2>1, QuestionsUrls, Zenon
<1> QED
  BY <1>2, <1>3, <1>4 DEF FrontEnds

LEMMA AlwaysShaped == Spec => []AllShaped
<1>1. Init => AllShaped
  <2> SUFFICES ASSUME Init
               PROVE  AllShaped
    OBVIOUS
  <2>1. ~ThereIsTorrent
    BY DEF Init, ThereIsTorrent
  <2>2. ASSUME call.command = "modify"
        PROVE  Shaped(call.input.torrent) /\ call.input.options \in Edits
    <3>1. PICK t \in Torrents : \E o \in Edits \cap Tried(t) :
                call = [command |-> "modify", input |-> [torrent |-> t, options |-> o]]
      BY <2>2 DEF Init
    <3>2. call.input.torrent = t /\ call.input.options \in Edits
      BY <3>1
    <3>3. Shaped(t)
      BY ToolsAssumption, MetainfoShaped
    <3> QED
      BY <3>2, <3>3
  <2> QED
    BY <2>1, <2>2 DEF AllShaped
<1>2. AnswerOfCall /\ AllShaped /\ [Next]_vars => AllShaped'
  <2> SUFFICES ASSUME AnswerOfCall, AllShaped, [Next]_vars
               PROVE  AllShaped'
    OBVIOUS
  <2>1. CASE Write
    <3>1. call'.command = "write" /\ answer' = create_torrent(answer)
      BY <2>1 DEF Write
    <3>2. answer.trackers \in Seq(STRING)
      BY <2>1, ConfiguredUrls DEF Write
    <3>3. Shaped(answer')
      BY <3>1, <3>2, CreatedShaped, Zenon
    <3> QED
      BY <3>1, <3>3 DEF AllShaped, ThereIsTorrent
  <2>2. CASE Modify
    <3>1. /\ call' = call /\ call.command = "modify"
          /\ answer' = handle_modify_command(call.input.torrent, call.input.options)
      BY <2>2 DEF Modify, Called
    <3>2. Shaped(answer')
      BY <3>1, ModifyShaped, Zenon DEF AllShaped
    <3> QED
      BY <3>1, <3>2 DEF AllShaped
  <2>3. CASE EditTorrent
    <3>1. Shaped(answer) /\ answer' = Pending
      BY <2>3 DEF EditTorrent, AllShaped
    <3>2. PICK o \in Edits : call' = [command |-> "modify",
                                      input |-> [torrent |-> answer, options |-> o]]
      BY <2>3 DEF EditTorrent
    <3> QED
      BY <3>1, <3>2 DEF AllShaped, ThereIsTorrent
  <2>4. CASE Inspect
    BY <2>4 DEF Inspect, AllShaped, ThereIsTorrent
  <2>5. CASE Compare
    BY <2>5 DEF Compare, AllShaped, ThereIsTorrent
  <2>6. CASE Create \/ ExecuteJob \/ Command \/ Questions \/ Name \/ Select \/ Check \/ Season
    <3>1. call' = call /\ call.command \notin {"modify", "write"}
      BY <2>6 DEF Create, ExecuteJob, Command, Questions, Name, Select, Check, Season, Called
    <3> QED
      BY <3>1 DEF AllShaped, ThereIsTorrent
  <2>7. CASE UNCHANGED vars
    BY <2>7 DEF vars, AllShaped, ThereIsTorrent
  <2> QED
    BY <2>1, <2>2, <2>3, <2>4, <2>5, <2>6, <2>7 DEF Next
<1> QED
  BY <1>1, <1>2, AlwaysAnswerOfCall, PTL DEF Spec

\* After every edit of a torrent, however many there were and however many trackers it has,
\* inspect shows the trackers that were asked for, announce and announce-list agree, and
\* an edit that is not about the info dictionary keeps the info hash
\* (torrent_modifier.cpp:20-198).
THEOREM EditsAreAsAsked == Spec => []EditedAsAsked
<1>1. AnswerOfCall /\ AllShaped => EditedAsAsked
  <2> DEFINE o      == call.input.options
             before == call.input.torrent
             UrlsFor(key) == ToSet(Setting(o, key, <<>>))
  <2> SUFFICES ASSUME AnswerOfCall, AllShaped, Answered("modify")
               PROVE  /\ DOMAIN o \cap InfoOptions = {} => answer.info = before.info
                      /\ ~RefusedOptions(o) /\ ~Sets(o, "dry_run") /\ Consistent(before.trackers)
                         => /\ Consistent(answer.trackers)
                            /\ Shown(answer) =
                                 IF Sets(o, "tracker") THEN UrlsFor("tracker")
                                 ELSE (Shown(before) \ UrlsFor("remove_tracker"))
                                        \cup UrlsFor("add_tracker")
    BY Zenon DEF EditedAsAsked
  <2>1. /\ answer = handle_modify_command(before, o)
        /\ Shaped(before) /\ o \in Edits /\ Shaped(answer)
    BY DEF AnswerOfCall, AllShaped, Answered, ThereIsTorrent
  <2> HIDE DEF o, before
  <2>2. \A key \in {"tracker", "add_tracker", "remove_tracker"} :
          Setting(o, key, <<>>) \in Seq(STRING)
    BY <2>1, ToolsAssumption, Zenon
  <2> DEFINE edited == apply_modifications(before, o)
  <2>3. /\ Asked(o, before.trackers, edited.trackers)
        /\ DOMAIN o \cap InfoOptions = {} => edited.info = before.info
    BY <2>1, <2>2, ModifiedRight, Zenon
  <2>4. CASE answer = before /\ (RefusedOptions(o) \/ Sets(o, "dry_run"))
    BY <2>4
  <2>5. CASE answer = edited
    <3>1. Shown(answer) = Listed(edited.trackers) /\ Shown(before) = Listed(before.trackers)
      BY <2>1, <2>5, ShownAreListed
    <3> HIDE DEF edited
    <3> QED
      BY <2>3, <2>5, <3>1, Zenon DEF Asked
  <2> QED
    BY <2>1, <2>4, <2>5, Zenon DEF handle_modify_command
<1> QED
  BY <1>1, AlwaysAnswerOfCall, AlwaysShaped, PTL
=================================================================================
