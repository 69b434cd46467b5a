------------------------------- MODULE ToolsLemmas -------------------------------
(***************************************************************************)
(* What the functions of Tools compute, for inputs of every length: the    *)
(* settings of presets, the configurations of the front ends, the trackers *)
(* of an edited torrent, the pieces of a content, the episodes of a        *)
(* season.  An induction is an argument about the set of the numbers that  *)
(* a claim holds for.                                                      *)
(***************************************************************************)
EXTENDS Tools, FiniteSetTheorems, WellFoundedInduction, TLAPS

--------------------------------------------------------------------------------
(* Least and greatest elements of sets of numbers. *)

LEMMA LeastExists ==
    ASSUME NEW S \in SUBSET Nat, S # {}
    PROVE  Min(S) \in S /\ \A y \in S : Min(S) <= y
<1>1. PICK x \in S : \A y \in S : ~(<<y, x>> \in OpToRel(<, Nat))
  BY NatLessThanWellFounded, WFMin
<1>2. \A y \in S : x \in Nat /\ y \in Nat /\ ~(y < x)
  BY <1>1, Zenon DEF OpToRel
<1>3. \A y \in S : x <= y
  BY <1>2
<1> QED
  BY <1>3 DEF Min

LEMMA GreatestExists ==
    ASSUME NEW S \in SUBSET Nat, S # {}, NEW m \in Nat, \A y \in S : y <= m
    PROVE  Max(S) \in S /\ \A y \in S : y <= Max(S)
<1> DEFINE D == {m - y : y \in S}
<1>1. D \in SUBSET Nat /\ D # {}
  <2>1. \A y \in S : m - y \in Nat
    OBVIOUS
  <2>2. D \subseteq Nat
    BY <2>1
  <2>3. PICK y \in S : TRUE
    OBVIOUS
  <2>4. m - y \in D
    BY <2>3
  <2> QED
    BY <2>2, <2>4
<1>2. Min(D) \in D /\ \A d \in D : Min(D) <= d
  BY <1>1, LeastExists
<1>3. PICK x \in S : Min(D) = m - x
  BY <1>2
<1>4. ASSUME NEW y \in S
      PROVE  x >= y
  <2>1. m - x <= m - y
    BY <1>2, <1>3
  <2> QED
    BY <2>1
<1> QED
  BY <1>4 DEF Max

--------------------------------------------------------------------------------
(* Induction, and functions and folds that are defined by it. *)

LEMMA NatSetInduction ==
    ASSUME NEW S, 0 \in S, \A n \in Nat : n \in S => n + 1 \in S
    PROVE  Nat \subseteq S
<1> DEFINE R == {n \in Nat : n \notin S}
<1> SUFFICES ASSUME R # {}
             PROVE  FALSE
  OBVIOUS
<1>1. R \in SUBSET Nat
  OBVIOUS
<1>2. Min(R) \in R /\ \A n \in R : Min(R) <= n
  BY <1>1, LeastExists
<1>3. Min(R) - 1 \in Nat /\ Min(R) - 1 \notin R
  BY <1>2
<1>4. Min(R) - 1 \in S
  BY <1>3
<1>5. (Min(R) - 1) + 1 = Min(R)
  BY <1>2
<1> QED
  BY <1>2, <1>3, <1>4, <1>5

\* The values of a fold from the left for the sets of the first numbers, and others.
Folding(A, op, base, N, f, it) ==
    /\ it \in [SUBSET (1..N) -> A]
    /\ it = [r \in SUBSET (1..N) |->
                IF r = {} THEN base ELSE op[<<it[r \ {Max(r)}], f[Max(r)]>>]]

\* A fold from the left has a value: the one for the first n + 1 elements is made of that
\* for the first n.
LEMMA FoldExists ==
    ASSUME NEW A, NEW B, NEW op \in [A \X B -> A], NEW base \in A,
           NEW N \in Nat, NEW f \in [1..N -> B]
    PROVE  \E it : Folding(A, op, base, N, f, it)
<1> DEFINE Step(it, r) == IF r = {} THEN base ELSE op[<<it[r \ {Max(r)}], f[Max(r)]>>]
           Fold(n, it) == /\ it \in [SUBSET (1..n) -> A]
                          /\ \A r \in SUBSET (1..n) : it[r] = Step(it, r)
           S == {n \in Nat : n <= N => \E it : Fold(n, it)}
<1>1. 0 \in S
  <2> DEFINE it == [r \in SUBSET (1..0) |-> base]
  <2>1. it \in [SUBSET (1..0) -> A] /\ \A r \in SUBSET (1..0) : r = {}
    OBVIOUS
  <2>2. Fold(0, it)
    BY <2>1
  <2> HIDE DEF Fold, it
  <2> QED
    BY <2>2
<1>2. ASSUME NEW n \in Nat, n \in S
      PROVE  n + 1 \in S
  <2> HIDE DEF Fold
  <2> SUFFICES ASSUME n + 1 <= N
               PROVE  \E it : Fold(n + 1, it)
    OBVIOUS
  <2>1. PICK it : Fold(n, it)
    BY <1>2
  <2> DEFINE more == [r \in SUBSET (1..(n + 1)) |->
                        IF n + 1 \in r THEN op[<<it[r \ {n + 1}], f[n + 1]>>] ELSE it[r]]
  <2>2. f[n + 1] \in B /\ it \in [SUBSET (1..n) -> A]
    BY <2>1 DEF Fold
  <2>3. ASSUME NEW r \in SUBSET (1..(n + 1))
        PROVE  /\ r \ {n + 1} \in SUBSET (1..n)
               /\ n + 1 \notin r => r \in SUBSET (1..n)
    OBVIOUS
  <2>4. ASSUME NEW r \in SUBSET (1..(n + 1)), r # {}
        PROVE  /\ Max(r) \in r
               /\ n + 1 \in r => Max(r) = n + 1
    <3>1. r \in SUBSET Nat /\ n + 1 \in Nat /\ \A x \in r : x <= n + 1
      OBVIOUS
    <3>2. Max(r) \in r /\ \A x \in r : x <= Max(r)
      BY <2>4, <3>1, GreatestExists
    <3>3. Max(r) \in Nat /\ Max(r) <= n + 1
      BY <3>1, <3>2
    <3>4. ASSUME n + 1 \in r
          PROVE  n + 1 <= Max(r)
      BY <3>2, <3>4
    <3> QED
      BY <3>2, <3>3, <3>4
  <2>5. more \in [SUBSET (1..(n + 1)) -> A]
    <3>1. \A r \in SUBSET (1..(n + 1)) :
            (IF n + 1 \in r THEN op[<<it[r \ {n + 1}], f[n + 1]>>] ELSE it[r]) \in A
      BY <2>2, <2>3
    <3> QED
      BY <3>1
  <2>6. ASSUME NEW r \in SUBSET (1..(n + 1))
        PROVE  more[r] = Step(more, r)
    <3>1. CASE r = {}
      <4>1. r \in SUBSET (1..n) /\ n + 1 \notin r
        BY <3>1
      <4>2. more[r] = it[r] /\ it[r] = Step(it, r)
        BY <2>1, <4>1 DEF Fold
      <4> QED
        BY <3>1, <4>2
    <3>2. CASE n + 1 \in r
      <4>1. Max(r) = n + 1 /\ r # {}
        BY <2>4, <3>2
      <4>2. r \ {n + 1} \in SUBSET (1..(n + 1)) /\ n + 1 \notin r \ {n + 1}
        BY <2>3
      <4>3. more[r \ {n + 1}] = it[r \ {n + 1}]
        BY <4>2
      <4>4. more[r] = op[<<it[r \ {n + 1}], f[n + 1]>>]
        BY <3>2
      <4> QED
        BY <4>1, <4>3, <4>4
    <3>3. CASE r # {} /\ n + 1 \notin r
      <4>1. Max(r) \in r /\ r \in SUBSET (1..n)
        BY <2>3, <2>4, <3>3
      <4>2. more[r] = it[r]
        BY <3>3
      <4>3. r \ {Max(r)} \in SUBSET (1..(n + 1)) /\ n + 1 \notin r \ {Max(r)}
        BY <3>3
      <4>4. more[r \ {Max(r)}] = it[r \ {Max(r)}]
        BY <4>3
      <4>5. it[r] = Step(it, r)
        BY <2>1, <4>1 DEF Fold
      <4> QED
        BY <3>3, <4>2, <4>4, <4>5
    <3> QED
      BY <3>1, <3>2, <3>3
  <2> HIDE DEF more, Step
  <2>7. Fold(n + 1, more)
    BY <2>5, <2>6 DEF Fold
  <2> QED
    BY <2>7
<1> HIDE DEF S, Step, Fold
<1>3. N \in S
  BY <1>1, <1>2, NatSetInduction
<1>4. PICK it : Fold(N, it)
  BY <1>3 DEF S
<1>5. it \in [SUBSET (1..N) -> A] /\ it = [r \in SUBSET (1..N) |-> Step(it, r)]
  BY <1>4 DEF Fold
<1>6. it = [r \in SUBSET (1..N) |->
                IF r = {} THEN base ELSE op[<<it[r \ {Max(r)}], f[Max(r)]>>]]
  BY <1>5 DEF Step
<1>7. Folding(A, op, base, N, f, it)
  BY <1>5, <1>6 DEF Folding
<1> QED
  BY <1>7

\* The first k + 1 numbers, of which a fold takes off the last.
LEMMA FirstNumbers ==
    ASSUME NEW N \in Nat, NEW k \in Nat, k + 1 <= N
    PROVE  /\ 1..(k + 1) \in SUBSET (1..N) /\ 1..k \in SUBSET (1..N) /\ 1..(k + 1) # {}
           /\ Max(1..(k + 1)) = k + 1
           /\ (1..(k + 1)) \ {k + 1} = 1..k
<1>1. 1..(k + 1) \in SUBSET (1..N) /\ 1..k \in SUBSET (1..N) /\ 1..(k + 1) # {}
  OBVIOUS
<1>2. k + 1 \in 1..(k + 1) /\ \A x \in 1..(k + 1) : x <= k + 1
  OBVIOUS
<1>3. Max(1..(k + 1)) \in 1..(k + 1) /\ \A x \in 1..(k + 1) : x <= Max(1..(k + 1))
  <2>1. 1..(k + 1) \in SUBSET Nat /\ k + 1 \in Nat
    OBVIOUS
  <2> QED
    BY <1>1, <1>2, <2>1, GreatestExists
<1>4. Max(1..(k + 1)) = k + 1
  BY <1>2, <1>3
<1>5. (1..(k + 1)) \ {k + 1} = 1..k
  OBVIOUS
<1> QED
  BY <1>1, <1>4, <1>5

LEMMA GreatestOf ==
    ASSUME NEW N \in Nat, NEW r \in SUBSET (1..N), r # {}
    PROVE  Max(r) \in r
<1>1. r \in SUBSET Nat /\ \A x \in r : x <= N
  OBVIOUS
<1> QED
  BY <1>1, GreatestExists

LEMMA ElementsOfAppend ==
    ASSUME NEW T, NEW t \in Seq(T), NEW x \in T
    PROVE  ToSet(Append(t, x)) = ToSet(t) \cup {x}
<1> DEFINE n == Len(t)
           u == Append(t, x)
<1>1. n \in Nat /\ DOMAIN t = 1..n
  OBVIOUS
<1>2. DOMAIN u = 1..(n + 1) /\ u[n + 1] = x /\ \A i \in 1..n : u[i] = t[i]
  OBVIOUS
<1> HIDE DEF n, u
<1>3. 1..(n + 1) = (1..n) \cup {n + 1}
  BY <1>1
<1>4. ToSet(u) = {u[i] : i \in 1..n} \cup {u[n + 1]}
  BY <1>2, <1>3 DEF ToSet
<1>5. ToSet(t) = {t[i] : i \in 1..n}
  BY <1>1 DEF ToSet
<1>6. ToSet(u) = ToSet(t) \cup {x}
  BY <1>2, <1>4, <1>5
<1> QED
  BY <1>6 DEF u

\* Only keeps what it is to keep, and all if it is to keep all.
LEMMA OnlyRight ==
    ASSUME NEW T, NEW s \in Seq(T), NEW S
    PROVE  /\ Only(s, S) \in Seq(T)
           /\ ToSet(Only(s, S)) = ToSet(s) \cap S
           /\ ToSet(s) \subseteq S => Only(s, S) = s
<1> DEFINE N == Len(s)
           Step(it, r) == IF r = {} THEN <<>>
                          ELSE IF s[Max(r)] \in S THEN Append(it[r \ {Max(r)}], s[Max(r)])
                          ELSE it[r \ {Max(r)}]
           iter == CHOOSE it : it = [r \in SUBSET (DOMAIN s) |-> Step(it, r)]
<1>1. N \in Nat /\ DOMAIN s = 1..N /\ s \in [1..N -> T]
  OBVIOUS
<1>2. Only(s, S) = iter[DOMAIN s]
  BY Zenon DEF Only, FoldLeft, MapThenFoldSet
<1>3. \E it : it = [r \in SUBSET (DOMAIN s) |-> Step(it, r)]
  <2> DEFINE op == [p \in Seq(T) \X T |-> IF p[2] \in S THEN Append(p[1], p[2]) ELSE p[1]]
  <2>1. op \in [Seq(T) \X T -> Seq(T)] /\ <<>> \in Seq(T)
    OBVIOUS
  <2>2. \A k \in Seq(T), x \in T :
            op[<<k, x>>] = IF x \in S THEN Append(k, x) ELSE k
    OBVIOUS
  <2> HIDE DEF op, N
  <2>3. PICK it : Folding(Seq(T), op, <<>>, N, s, it)
    BY <1>1, <2>1, FoldExists
  <2>4. ASSUME NEW r \in SUBSET (1..N)
        PROVE  it[r] = Step(it, r)
    <3>1. CASE r = {}
      BY <2>3, <3>1 DEF Folding
    <3>2. CASE r # {}
      <4>1. Max(r) \in r
        BY <1>1, <3>2, GreatestOf
      <4>2. s[Max(r)] \in T /\ it[r \ {Max(r)}] \in Seq(T)
        BY <1>1, <2>3, <4>1 DEF Folding
      <4>3. it[r] = op[<<it[r \ {Max(r)}], s[Max(r)]>>]
        BY <2>3, <3>2 DEF Folding
      <4> QED
        BY <2>2, <3>2, <4>2, <4>3
    <3> QED
      BY <3>1, <3>2
  <2> HIDE DEF Step
  <2>5. it = [r \in SUBSET (1..N) |-> Step(it, r)]
    BY <2>3, <2>4 DEF Folding
  <2> QED
    BY <1>1, <2>5
<1>4. iter = [r \in SUBSET (DOMAIN s) |-> Step(iter, r)]
  BY <1>3, Zenon
<1> HIDE DEF iter, Step
<1>5. \A r \in SUBSET (1..N) : iter[r] = Step(iter, r)
  BY <1>1, <1>4
<1> DEFINE Kept(k) == /\ iter[1..k] \in Seq(T)
                      /\ ToSet(iter[1..k]) = {s[i] : i \in 1..k} \cap S
                      /\ ToSet(s) \subseteq S => iter[1..k] = SubSeq(s, 1, k)
           K == {k \in Nat : k <= N => Kept(k)}
<1>6. 0 \in K
  <2>1. 1..0 = {} /\ 1..0 \in SUBSET (1..N)
    OBVIOUS
  <2>2. iter[1..0] = <<>>
    BY <1>5, <2>1 DEF Step
  <2>3. ToSet(<<>>) = {} /\ {s[i] : i \in 1..0} = {} /\ SubSeq(s, 1, 0) = <<>>
    BY <1>1 DEF ToSet
  <2>4. Kept(0)
    BY <2>2, <2>3
  <2> HIDE DEF Kept
  <2> QED
    BY <2>4
<1>7. ASSUME NEW k \in Nat, k \in K
      PROVE  k + 1 \in K
  <2> SUFFICES ASSUME k + 1 <= N
               PROVE  Kept(k + 1)
    BY <1>7
  <2>1. Kept(k)
    <3> HIDE DEF Kept
    <3> QED
      BY <1>1, <1>7
  <2>2. iter[1..(k + 1)] = IF s[k + 1] \in S THEN Append(iter[1..k], s[k + 1]) ELSE iter[1..k]
    <3> HIDE DEF Kept, N
    <3>1. iter[1..(k + 1)] = Step(iter, 1..(k + 1))
      BY <1>1, <1>5, FirstNumbers
    <3> QED
      BY <1>1, <3>1, FirstNumbers, Zenon DEF Step
  <2>3. s[k + 1] \in T /\ s[k + 1] \in ToSet(s)
    BY <1>1 DEF ToSet
  <2>4. {s[i] : i \in 1..(k + 1)} = {s[i] : i \in 1..k} \cup {s[k + 1]}
    <3>1. 1..(k + 1) = (1..k) \cup {k + 1}
      OBVIOUS
    <3> QED
      BY <3>1
  <2>5. SubSeq(s, 1, k + 1) = Append(SubSeq(s, 1, k), s[k + 1])
    BY <1>1
  <2>6. iter[1..(k + 1)] \in Seq(T)
    BY <2>1, <2>2, <2>3
  <2>7. ToSet(iter[1..(k + 1)]) = {s[i] : i \in 1..(k + 1)} \cap S
    <3>1. CASE s[k + 1] \in S
      <4>1. ToSet(iter[1..(k + 1)]) = ToSet(iter[1..k]) \cup {s[k + 1]}
        BY <2>1, <2>2, <2>3, <3>1, ElementsOfAppend
      <4> QED
        BY <2>1, <2>4, <3>1, <4>1
    <3>2. CASE s[k + 1] \notin S
      BY <2>1, <2>2, <2>4, <3>2
    <3> QED
      BY <3>1, <3>2
  <2>8. ASSUME ToSet(s) \subseteq S
        PROVE  iter[1..(k + 1)] = SubSeq(s, 1, k + 1)
    BY <2>1, <2>2, <2>3, <2>5, <2>8
  <2> QED
    BY <2>6, <2>7, <2>8
<1>8. Kept(N)
  <2> HIDE DEF Kept, N
  <2>1. Nat \subseteq K
    <3> HIDE DEF K
    <3> QED
      BY <1>6, <1>7, NatSetInduction
  <2> QED
    BY <1>1, <2>1
<1>9. {s[i] : i \in 1..N} = ToSet(s) /\ SubSeq(s, 1, N) = s
  BY <1>1 DEF ToSet
<1> QED
  BY <1>1, <1>2, <1>8, <1>9

--------------------------------------------------------------------------------
(* Settings by strength. *)

LEMMA OverRight ==
    ASSUME NEW first, NEW second
    PROVE  /\ DOMAIN Over(first, second) = DOMAIN first \cup DOMAIN second
           /\ \A key \in DOMAIN first : Over(first, second)[key] = first[key]
           /\ \A key \in DOMAIN second :
                key \notin DOMAIN first => Over(first, second)[key] = second[key]
BY DEF Over

\* A setting that is not in the first is looked up in the second.
LEMMA SettingOver ==
    ASSUME NEW first, NEW second, NEW key, NEW default
    PROVE  /\ Sets(Over(first, second), key) <=> Sets(first, key) \/ Sets(second, key)
           /\ Setting(Over(first, second), key, default)
                = Setting(first, key, Setting(second, key, default))
<1> DEFINE both == Over(first, second)
<1>1. /\ DOMAIN both = DOMAIN first \cup DOMAIN second
      /\ key \in DOMAIN first => both[key] = first[key]
      /\ key \in DOMAIN second /\ key \notin DOMAIN first => both[key] = second[key]
  BY DEF Over
<1> HIDE DEF both
<1>2. Sets(both, key) <=> Sets(first, key) \/ Sets(second, key)
  BY <1>1 DEF Sets
<1>3. CASE key \in DOMAIN first
  BY <1>1, <1>2, <1>3, Zenon DEF Sets, Setting, both
<1>4. CASE key \notin DOMAIN first /\ key \in DOMAIN second
  <2>1. both[key] = second[key] /\ key \in DOMAIN both
    BY <1>1, <1>4
  <2>2. Setting(both, key, default) = second[key]
    BY <2>1, Zenon DEF Sets, Setting
  <2>3. Setting(first, key, Setting(second, key, default)) = second[key]
    BY <1>4, Zenon DEF Sets, Setting
  <2> QED
    BY <1>2, <2>2, <2>3 DEF both
<1>5. CASE key \notin DOMAIN first /\ key \notin DOMAIN second
  <2>1. key \notin DOMAIN both
    BY <1>1, <1>5
  <2> QED
    BY <1>2, <1>5, <2>1, Zenon DEF Sets, Setting, both
<1> QED
  BY <1>3, <1>4, <1>5

PresetOf(in) ==
    IF in.preset = None THEN NoSettings ELSE resolve(LoadedPresets(in.preset_file), in.preset)

\* What could be read of a preset file is its default and the first of its entries.
LEMMA LoadedRight ==
    ASSUME NEW file, NEW T, file.entries \in Seq(T)
    PROVE  LET loaded == LoadedPresets(file)
           IN  \/ loaded.entries = <<>>
               \/ /\ loaded.default = file.default
                  /\ DOMAIN loaded.entries \subseteq DOMAIN file.entries
                  /\ \A i \in DOMAIN loaded.entries : loaded.entries[i] = file.entries[i]
<1> DEFINE reads == [i \in 0..Len(file.entries) |->
                        parse_yaml_config(IF i = 0 THEN file.default
                                          ELSE file.entries[i].section)]
           begun == file.found /\ reads[0]
           N     == Len(file.entries)
           read  == {k \in 0..N : \A i \in 1..k : reads[i]}
           first == SubSeq(file.entries, 1, Max(read))
<1> HIDE DEF reads
<1>1. /\ LoadedPresets(file).entries = IF begun THEN first ELSE <<>>
      /\ LoadedPresets(file).default = IF begun THEN file.default ELSE NoSettings
  BY DEF LoadedPresets, Loaded, reads
<1>2. N \in Nat /\ DOMAIN file.entries = 1..N
  OBVIOUS
<1>3. Max(read) \in 0..N
  <2>1. read \in SUBSET Nat /\ 0 \in read /\ \A k \in read : k <= N
    BY <1>2
  <2>2. Max(read) \in read
    <3> HIDE DEF read, N
    <3> QED
      BY <1>2, <2>1, GreatestExists
  <2> QED
    BY <2>2
<1> HIDE DEF read
<1>4. DOMAIN first = 1..Max(read) /\ \A i \in 1..Max(read) : first[i] = file.entries[i]
  BY <1>2, <1>3
<1>5. DOMAIN first \subseteq DOMAIN file.entries /\ \A i \in DOMAIN first : first[i] = file.entries[i]
  <2> HIDE DEF first, N
  <2> QED
    BY <1>2, <1>3, <1>4
<1> HIDE DEF first, begun
<1> QED
  BY <1>1, <1>5

\* A preset is its section over the default, as both are in the file.
LEMMA PresetRight ==
    ASSUME NEW in, IsInput(in),
           in.preset = None \/ has_preset(LoadedPresets(in.preset_file), in.preset)
    PROVE  \A key, default :
                Setting(PresetOf(in), key, default)
                    = Setting(Layers(in)[2], key, Setting(Layers(in)[3], key, default))
<1> DEFINE entries == in.preset_file.entries
           loaded  == LoadedPresets(in.preset_file)
           Named   == {i \in DOMAIN entries : entries[i].name = in.preset}
<1>1. /\ Layers(in)[2] = IF Named = {} THEN NoSettings
                         ELSE entries[CHOOSE i \in Named : TRUE].section
      /\ Layers(in)[3] = IF in.preset = None THEN NoSettings ELSE in.preset_file.default
  BY DEF Layers
<1>2. /\ entries \in Seq(ToSet(entries))
      /\ \A i \in DOMAIN entries : entries[i].name \in STRING
      /\ \A i, j \in DOMAIN entries : entries[i].name = entries[j].name => i = j
  BY DEF IsInput
<1>3. CASE in.preset = None
  <2>1. Named = {}
    BY <1>2, <1>3, TrackerAssumption
  <2>2. Layers(in)[2] = NoSettings /\ Layers(in)[3] = NoSettings /\ PresetOf(in) = NoSettings
    BY <1>1, <1>3, <2>1 DEF PresetOf
  <2>3. \A key, default : Setting(NoSettings, key, default) = default
    BY DEF Setting, Sets, NoSettings
  <2> HIDE DEF Named
  <2> QED
    BY <2>2, <2>3
<1>4. CASE in.preset # None
  <2>1. PICK i \in DOMAIN loaded.entries : loaded.entries[i].name = in.preset
    BY <1>4, Zenon DEF has_preset
  <2>2. /\ loaded.default = in.preset_file.default
        /\ DOMAIN loaded.entries \subseteq DOMAIN entries
        /\ \A j \in DOMAIN loaded.entries : loaded.entries[j] = entries[j]
    <3>1. loaded.entries # <<>>
      BY <2>1
    <3> QED
      BY <1>2, <3>1, LoadedRight
  <2> HIDE DEF loaded, entries
  <2>3. Named = {i}
    BY <1>2, <2>1, <2>2
  <2>4. (CHOOSE j \in Named : TRUE) = i /\ Named # {}
    BY <2>3
  <2>5. (CHOOSE j \in DOMAIN loaded.entries : loaded.entries[j].name = in.preset) = i
    BY <1>2, <2>1, <2>2
  <2>6. PresetOf(in) = Over(entries[i].section, in.preset_file.default)
    BY <1>4, <2>1, <2>2, <2>5, Zenon DEF PresetOf, resolve, merge_config_values, loaded
  <2>7. Layers(in)[2] = entries[i].section /\ Layers(in)[3] = in.preset_file.default
    BY <1>1, <1>4, <2>4
  <2>8. \A key, default :
            Setting(Over(entries[i].section, in.preset_file.default), key, default)
                = Setting(entries[i].section, key,
                          Setting(in.preset_file.default, key, default))
    BY SettingOver
  <2> QED
    BY <2>6, <2>7, <2>8
<1> QED
  BY <1>3, <1>4

\* What the strongest layer says is what is found in the values or else in the preset.
LEMMA StrongestRight ==
    ASSUME NEW in, IsInput(in), NEW key, NEW default,
           in.preset = None \/ has_preset(LoadedPresets(in.preset_file), in.preset)
    PROVE  Strongest(in, key, default)
             = Setting(in.values, key, Setting(PresetOf(in), key, default))
<1> DEFINE L(i) == Layers(in)[i]
           speaking == {i \in 1..3 : Sets(L(i), key)}
<1>1. L(1) = in.values /\ DOMAIN Layers(in) = 1..3
  BY DEF Layers
<1>2. Strongest(in, key, default) =
        IF speaking = {} THEN default ELSE L(Min(speaking))[key]
  BY <1>1, Zenon DEF Strongest, Speaking
<1>3. speaking # {} => Min(speaking) \in speaking /\ \A i \in speaking : Min(speaking) <= i
  <2>1. speaking \in SUBSET Nat
    OBVIOUS
  <2> HIDE DEF speaking
  <2> QED
    BY <2>1, LeastExists
<1>4. Strongest(in, key, default)
        = Setting(L(1), key, Setting(L(2), key, Setting(L(3), key, default)))
  <2>1. 1..3 = {1, 2, 3}
    OBVIOUS
  <2>2. CASE Sets(L(1), key)
    <3>1. Min(speaking) = 1 /\ speaking # {}
      BY <1>3, <2>1, <2>2
    <3> QED
      BY <1>2, <2>2, <3>1 DEF Setting
  <2>3. CASE ~Sets(L(1), key) /\ Sets(L(2), key)
    <3>1. Min(speaking) = 2 /\ speaking # {}
      BY <1>3, <2>1, <2>3
    <3> QED
      BY <1>2, <2>3, <3>1 DEF Setting
  <2>4. CASE ~Sets(L(1), key) /\ ~Sets(L(2), key) /\ Sets(L(3), key)
    <3>1. Min(speaking) = 3 /\ speaking # {}
      BY <1>3, <2>1, <2>4
    <3> QED
      BY <1>2, <2>4, <3>1 DEF Setting
  <2>5. CASE ~Sets(L(1), key) /\ ~Sets(L(2), key) /\ ~Sets(L(3), key)
    <3>1. speaking = {}
      BY <2>1, <2>5
    <3> QED
      BY <1>2, <2>5, <3>1 DEF Setting
  <2> QED
    BY <2>2, <2>3, <2>4, <2>5
<1>5. Setting(PresetOf(in), key, default) = Setting(L(2), key, Setting(L(3), key, default))
  BY PresetRight
<1> QED
  BY <1>1, <1>4, <1>5

--------------------------------------------------------------------------------
(* What the front ends make of settings. *)

\* A setting of the job or the command line, or else of its preset.
Found(in, key, default) == Setting(in.values, key, Setting(PresetOf(in), key, default))

\* The fields of a configuration: some that are looked up, and the rest.
MadeOf(c, settings, preset, rest, request, rule, in) ==
    LET LookUp(key, default) == Setting(settings, key, Setting(preset, key, default)) IN
    /\ c.refused = FALSE
    /\ c.source = IF rest.source = None THEN rule.source ELSE rest.source
    /\ c.piece_size = ChoosePieceSize(request, rule.limits, in.measured, in.hashed)
    /\ c.trackers = rest.trackers /\ c.version = rest.version /\ c.creator = rest.creator
    /\ c.include_creation_date = rest.include_creation_date
    /\ c.web_seeds = LookUp("web_seeds", <<>>)
    /\ c.comment = LookUp("comment", None) /\ c.name = LookUp("name", None)
    /\ c.is_private = LookUp("private", FALSE) /\ c.entropy = LookUp("entropy", FALSE)
    /\ c.builtin = LookUp("builtin_excludes", TRUE)
    /\ c.excludes = LookUp("exclude_patterns", <<>>)
    /\ c.includes = LookUp("include_patterns", <<>>)

LEMMA ConfiguredRight ==
    ASSUME NEW settings, NEW preset, NEW rest, NEW request, NEW rule, NEW in, NEW c,
           c = Configured(Over(Plain(settings, preset), rest), request, rule, in),
           DOMAIN rest = {"source", "trackers", "version", "creator", "include_creation_date"}
    PROVE  MadeOf(c, settings, preset, rest, request, rule, in)
<1> DEFINE plain == Plain(settings, preset)
           asked == Over(plain, rest)
           chosen == [refused    |-> FALSE,
                      source     |-> IF asked.source = None THEN rule.source ELSE asked.source,
                      piece_size |-> ChoosePieceSize(request, rule.limits,
                                                     in.measured, in.hashed)]
<1>1. DOMAIN plain = {"web_seeds", "comment", "name", "is_private", "entropy", "builtin",
                      "excludes", "includes"}
  BY DEF Plain
<1>2. DOMAIN chosen = {"refused", "source", "piece_size"}
  OBVIOUS
<1>3. c = Over(chosen, asked)
  BY Zenon DEF Configured
<1>4. /\ chosen.refused = FALSE
      /\ chosen.source = IF asked.source = None THEN rule.source ELSE asked.source
      /\ chosen.piece_size = ChoosePieceSize(request, rule.limits, in.measured, in.hashed)
  BY Zenon
<1> HIDE DEF plain, chosen
<1>5. /\ DOMAIN asked = DOMAIN plain \cup DOMAIN rest
      /\ \A key \in DOMAIN plain : asked[key] = plain[key]
      /\ \A key \in DOMAIN rest : key \notin DOMAIN plain => asked[key] = rest[key]
  BY OverRight, Zenon
<1> HIDE DEF asked
<1>6. /\ \A key \in DOMAIN chosen : Over(chosen, asked)[key] = chosen[key]
      /\ \A key \in DOMAIN asked :
            key \notin DOMAIN chosen => Over(chosen, asked)[key] = asked[key]
  BY OverRight, Zenon
<1>7. asked.source = rest.source
  BY <1>1, <1>5
<1>8. /\ c.refused = FALSE
      /\ c.source = IF rest.source = None THEN rule.source ELSE rest.source
      /\ c.piece_size = ChoosePieceSize(request, rule.limits, in.measured, in.hashed)
  BY <1>2, <1>3, <1>4, <1>6, <1>7
<1>9. \A key \in DOMAIN rest \ {"source"} : c[key] = rest[key]
  BY <1>1, <1>2, <1>3, <1>5, <1>6
<1>10. \A key \in DOMAIN plain : c[key] = plain[key]
  BY <1>1, <1>2, <1>3, <1>5, <1>6
<1>11. /\ c.trackers = rest.trackers /\ c.version = rest.version
       /\ c.creator = rest.creator
       /\ c.include_creation_date = rest.include_creation_date
  BY <1>9
<1>12. /\ c.web_seeds = plain.web_seeds /\ c.comment = plain.comment /\ c.name = plain.name
       /\ c.is_private = plain.is_private /\ c.entropy = plain.entropy
       /\ c.builtin = plain.builtin /\ c.excludes = plain.excludes
       /\ c.includes = plain.includes
  BY <1>1, <1>10
<1> QED
  BY <1>8, <1>11, <1>12, Zenon DEF plain, Plain, MadeOf

\* The settings that a job is made of.
LEMMA ResolvedRight ==
    ASSUME NEW in, NEW key, NEW default
    PROVE  /\ Setting(ResolvedJob(LoadedPresets(in.preset_file), in), key, default)
                = Found(in, key, default)
           /\ Sets(ResolvedJob(LoadedPresets(in.preset_file), in), key)
                <=> Sets(in.values, key) \/ Sets(PresetOf(in), key)
<1>1. ResolvedJob(LoadedPresets(in.preset_file), in) = Over(in.values, PresetOf(in))
  BY Zenon DEF ResolvedJob, merge_config_values, PresetOf
<1>2. /\ Sets(Over(in.values, PresetOf(in)), key)
            <=> Sets(in.values, key) \/ Sets(PresetOf(in), key)
      /\ Setting(Over(in.values, PresetOf(in)), key, default)
            = Setting(in.values, key, Setting(PresetOf(in), key, default))
  BY SettingOver
<1> QED
  BY <1>1, <1>2, Zenon DEF Found

\* What both front ends look up alike.
LookedUp(in, c) ==
    /\ c.web_seeds = Found(in, "web_seeds", <<>>)
    /\ c.comment = Found(in, "comment", None) /\ c.name = Found(in, "name", None)
    /\ c.is_private = Found(in, "private", FALSE) /\ c.entropy = Found(in, "entropy", FALSE)
    /\ c.builtin = Found(in, "builtin_excludes", TRUE)
    /\ c.excludes = Found(in, "exclude_patterns", <<>>)
    /\ c.includes = Found(in, "include_patterns", <<>>)

\* A job's configuration, field by field.
JobFields(in, c, settings, rule) ==
    /\ parse_yaml_config(in.values) /\ ~JobRequest(settings).refused
    /\ in.preset = None \/ has_preset(LoadedPresets(in.preset_file), in.preset)
    /\ c.refused = FALSE
    /\ c.source = IF Found(in, "source", None) = None THEN rule.source
                  ELSE Found(in, "source", None)
    /\ c.piece_size =
         ChoosePieceSize(JobRequest(settings), rule.limits, in.measured, in.hashed)
    /\ c.trackers = Found(in, "trackers", <<>>)
    /\ c.version = resolve_version(Found(in, "torrent_version", 3))
    /\ c.creator = IF Found(in, "no_creator", FALSE) THEN None
                   ELSE Found(in, "creator", TheCreator)
    /\ c.include_creation_date = IF Found(in, "no_date", FALSE) THEN FALSE
                                 ELSE Found(in, "creation_date", TRUE)
    /\ LookedUp(in, c)

LEMMA JobRight ==
    ASSUME NEW in, NEW c, c = execute_job(in), ~c.refused,
           NEW settings, settings = ResolvedJob(LoadedPresets(in.preset_file), in),
           NEW rule, rule = RuleFor(LoadedRules(in.rules_file), c.trackers)
    PROVE  JobFields(in, c, settings, rule)
<1> DEFINE Get(key, default) == Setting(settings, key, default)
           asked == build_torrent_config(settings)
           creator == IF Get("no_creator", FALSE) THEN None ELSE Get("creator", TheCreator)
           date == IF Get("no_date", FALSE) THEN FALSE ELSE Get("creation_date", TRUE)
           rest == [source |-> Get("source", None), trackers |-> Get("trackers", <<>>),
                    version |-> resolve_version(Get("torrent_version", 3)),
                    creator |-> creator, include_creation_date |-> date]
<1>1. asked = Over(Plain(settings, NoSettings), rest)
  BY Zenon DEF build_torrent_config
<1>2. /\ parse_yaml_config(in.values) /\ ~JobRequest(settings).refused
      /\ in.preset = None \/ has_preset(LoadedPresets(in.preset_file), in.preset)
      /\ c = Configured(asked, JobRequest(settings),
                        RuleFor(LoadedRules(in.rules_file), asked.trackers), in)
  <2>1. Refused.refused
    BY DEF Refused
  <2> QED
    BY <2>1, Zenon DEF execute_job
<1>3. asked.trackers = Get("trackers", <<>>)
  <2>1. "trackers" \notin DOMAIN Plain(settings, NoSettings)
    BY DEF Plain
  <2>2. rest.trackers = Get("trackers", <<>>) /\ "trackers" \in DOMAIN rest
    BY Zenon
  <2> HIDE DEF rest, asked
  <2> DEFINE plain == Plain(settings, NoSettings)
  <2>3. Over(plain, rest).trackers = rest.trackers
    <3> HIDE DEF plain, Get, creator, date
    <3>1. "trackers" \in DOMAIN plain \cup DOMAIN rest /\ "trackers" \notin DOMAIN plain
      BY <2>1, <2>2 DEF plain
    <3> QED
      BY <3>1 DEF Over
  <2> QED
    BY <1>1, <2>2, <2>3, Zenon
<1> DEFINE ruled == RuleFor(LoadedRules(in.rules_file), rest.trackers)
<1>4. c = Configured(Over(Plain(settings, NoSettings), rest), JobRequest(settings), ruled, in)
  <2>1. rest.trackers = Get("trackers", <<>>)
    BY Zenon
  <2> HIDE DEF rest, asked
  <2> QED
    BY <1>1, <1>2, <1>3, <2>1, Zenon
<1>5. /\ \A key, default : Get(key, default) = Found(in, key, default)
      /\ \A key, default : Setting(settings, key, Setting(NoSettings, key, default))
                            = Found(in, key, default)
  <2>1. \A key, default : Setting(NoSettings, key, default) = default
    BY DEF Setting, Sets, NoSettings
  <2>2. \A key, default : Get(key, default) = Found(in, key, default)
    BY ResolvedRight
  <2> QED
    BY <2>1, <2>2
<1>6. /\ DOMAIN rest = {"source", "trackers", "version", "creator", "include_creation_date"}
      /\ rest.source = Get("source", None) /\ rest.trackers = Get("trackers", <<>>)
      /\ rest.version = resolve_version(Get("torrent_version", 3))
      /\ rest.creator = creator /\ rest.include_creation_date = date
  <2> HIDE DEF Get, creator, date
  <2> QED
    OBVIOUS
<1> HIDE DEF asked, rest, ruled
<1>7. MadeOf(c, settings, NoSettings, rest, JobRequest(settings), ruled, in)
  <2>1. DOMAIN rest = {"source", "trackers", "version", "creator", "include_creation_date"}
    BY <1>6, Zenon
  <2> QED
    BY <1>4, <2>1, ConfiguredRight, Zenon
<1>8. c.trackers = rest.trackers /\ ruled = rule
  BY <1>7, Zenon DEF MadeOf, ruled
<1>9. /\ c.refused = FALSE
      /\ c.source = IF rest.source = None THEN ruled.source ELSE rest.source
      /\ c.piece_size =
            ChoosePieceSize(JobRequest(settings), ruled.limits, in.measured, in.hashed)
      /\ c.trackers = rest.trackers /\ c.version = rest.version /\ c.creator = rest.creator
      /\ c.include_creation_date = rest.include_creation_date
      /\ LookedUp(in, c)
  <2> HIDE DEF Get
  <2> QED
    BY <1>5, <1>7 DEF MadeOf, LookedUp
<1>10. /\ rest.source = Found(in, "source", None)
       /\ rest.trackers = Found(in, "trackers", <<>>)
       /\ rest.version = resolve_version(Found(in, "torrent_version", 3))
       /\ rest.creator = IF Found(in, "no_creator", FALSE) THEN None
                         ELSE Found(in, "creator", TheCreator)
       /\ rest.include_creation_date = IF Found(in, "no_date", FALSE) THEN FALSE
                                       ELSE Found(in, "creation_date", TRUE)
  <2> HIDE DEF Get
  <2> QED
    BY <1>5, <1>6
<1> QED
  BY <1>2, <1>8, <1>9, <1>10, Zenon DEF JobFields

\* The configuration of a command, field by field.
CommandFields(in, c, flags, preset, rule) ==
    /\ ~CommandRequest(flags, preset).refused
    /\ in.preset = None \/ has_preset(LoadedPresets(in.preset_file), in.preset)
    /\ c.refused = FALSE
    /\ c.source = IF CommandSource(flags, preset) = None THEN rule.source
                  ELSE CommandSource(flags, preset)
    /\ c.piece_size = ChoosePieceSize(CommandRequest(flags, preset), rule.limits,
                                      in.measured, in.hashed)
    /\ c.trackers = ChosenTrackers(flags, preset)
    /\ c.version = CommandVersion(Found(in, "torrent_version", 3))
    /\ c.creator = CommandCreator(flags, preset)
    /\ c.include_creation_date = CommandDate(flags, preset)
    /\ LookedUp(in, c)

LEMMA CommandRight ==
    ASSUME NEW in, NEW c, c = get_commandline_config(in), ~c.refused,
           NEW flags, flags = in.values, NEW preset, preset = PresetOf(in),
           NEW rules, rules = IF LoadedRules(in.rules_file).complete
                              THEN LoadedRules(in.rules_file) ELSE NoRules,
           NEW rule, rule = RuleFor(rules, c.trackers)
    PROVE  CommandFields(in, c, flags, preset, rule)
<1> DEFINE request == CommandRequest(flags, preset)
           rest == [source   |-> CommandSource(flags, preset),
                    trackers |-> ChosenTrackers(flags, preset),
                    version  |-> CommandVersion(Setting(flags, "torrent_version",
                                                Setting(preset, "torrent_version", 3))),
                    creator  |-> CommandCreator(flags, preset),
                    include_creation_date |-> CommandDate(flags, preset)]
           asked == Over(Plain(flags, preset), rest)
           ruled == RuleFor(rules, rest.trackers)
<1>1. /\ ~request.refused
      /\ in.preset = None \/ has_preset(LoadedPresets(in.preset_file), in.preset)
      /\ c = Configured(asked, request, RuleFor(rules, asked.trackers), in)
  <2>1. Refused.refused
    BY DEF Refused
  <2> QED
    BY <2>1, Zenon DEF get_commandline_config, PresetOf
<1>2. /\ DOMAIN rest = {"source", "trackers", "version", "creator", "include_creation_date"}
      /\ rest.source = CommandSource(flags, preset)
      /\ rest.trackers = ChosenTrackers(flags, preset)
      /\ rest.version = CommandVersion(Found(in, "torrent_version", 3))
      /\ rest.creator = CommandCreator(flags, preset)
      /\ rest.include_creation_date = CommandDate(flags, preset)
  BY DEF Found
<1> HIDE DEF rest
<1>3. asked.trackers = rest.trackers
  <2>1. "trackers" \notin DOMAIN Plain(flags, preset)
    BY DEF Plain
  <2>2. "trackers" \in DOMAIN rest
    BY <1>2
  <2> DEFINE plain == Plain(flags, preset)
  <2> HIDE DEF plain
  <2>3. \A key \in DOMAIN rest :
            key \notin DOMAIN plain => Over(plain, rest)[key] = rest[key]
    BY OverRight, Zenon
  <2> QED
    BY <2>1, <2>2, <2>3 DEF plain
<1>4. c = Configured(Over(Plain(flags, preset), rest), request, ruled, in)
  BY <1>1, <1>3, Zenon
<1> HIDE DEF request, ruled
<1>5. MadeOf(c, flags, preset, rest, request, ruled, in)
  <2>1. DOMAIN rest = {"source", "trackers", "version", "creator", "include_creation_date"}
    BY <1>2, Zenon
  <2> QED
    BY <1>4, <2>1, ConfiguredRight, Zenon
<1>6. c.trackers = rest.trackers /\ ruled = rule
  BY <1>5, Zenon DEF MadeOf, ruled
<1>7. /\ c.refused = FALSE
      /\ c.source = IF rest.source = None THEN ruled.source ELSE rest.source
      /\ c.piece_size = ChoosePieceSize(request, ruled.limits, in.measured, in.hashed)
      /\ c.version = rest.version /\ c.creator = rest.creator
      /\ c.include_creation_date = rest.include_creation_date
      /\ LookedUp(in, c)
  BY <1>5 DEF MadeOf, Found, LookedUp
<1> QED
  BY <1>1, <1>2, <1>6, <1>7, Zenon DEF request, CommandFields

LEMMA NotUnset == \A kb \in Allowed : kb # Unset /\ kb \in Nat \ {0}
BY RulesAssumption

--------------------------------------------------------------------------------
(* The steps of enforce. *)

\* A size that is chosen and allowed is kept.
LEMMA SizeKept ==
    ASSUME NEW request, NEW rule, NEW measured, NEW hashed,
           request.piece_size \in Allowed
    PROVE  ChoosePieceSize(request, rule, measured, hashed).kb = request.piece_size
<1>1. request.piece_size # Unset
  BY NotUnset, Zenon
<1>2. Current(request, measured) = request.piece_size
  BY <1>1, Zenon DEF Current
<1> QED
  BY <1>1, <1>2, Zenon DEF ChoosePieceSize

\* What the job or the command has found is what the strongest layer says.
LEMMA StrongestFound ==
    ASSUME NEW in, IsInput(in),
           in.preset = None \/ has_preset(LoadedPresets(in.preset_file), in.preset)
    PROVE  \A key, default : Strongest(in, key, default) = Found(in, key, default)
BY StrongestRight DEF Found

\* A preset has settings of their types.
LEMMA PresetTyped ==
    ASSUME NEW in, IsInput(in),
           in.preset = None \/ has_preset(LoadedPresets(in.preset_file), in.preset)
    PROVE  IsSettings(PresetOf(in))
<1> DEFINE entries == in.preset_file.entries
           loaded  == LoadedPresets(in.preset_file)
<1>1. CASE in.preset = None
  <2>1. \A key, default : Setting(NoSettings, key, default) = default
    BY DEF Setting, Sets, NoSettings
  <2>2. IsSettings(NoSettings)
    <3>1. \A key \in {"piece_size", "target_piece_count", "torrent_version"} :
            Setting(NoSettings, key, 0) \in Int
      BY <2>1
    <3>2. <<>> \in Seq(STRING) /\ TRUE \in BOOLEAN
      OBVIOUS
    <3>3. \A key : ~Sets(NoSettings, key)
      BY DEF Sets, NoSettings
    <3> QED
      BY <2>1, <3>1, <3>2, <3>3, Zenon DEF IsSettings
  <2> QED
    BY <1>1, <2>2 DEF PresetOf
<1>2. CASE in.preset # None
  <2>1. \E i \in DOMAIN loaded.entries : loaded.entries[i].name = in.preset
    BY <1>2, Zenon DEF has_preset
  <2> DEFINE i == CHOOSE i \in DOMAIN loaded.entries : loaded.entries[i].name = in.preset
  <2>2. i \in DOMAIN loaded.entries
    BY <2>1, Zenon
  <2>3. /\ loaded.default = in.preset_file.default
        /\ DOMAIN loaded.entries \subseteq DOMAIN entries
        /\ \A j \in DOMAIN loaded.entries : loaded.entries[j] = entries[j]
    <3>1. loaded.entries # <<>> /\ entries \in Seq(ToSet(entries))
      BY <2>1 DEF IsInput
    <3> QED
      BY <3>1, LoadedRight
  <2>4. PresetOf(in) = Over(loaded.entries[i].section, loaded.default)
    BY <1>2, Zenon DEF PresetOf, resolve, merge_config_values
  <2> HIDE DEF i, loaded
  <2>5. IsSettings(entries[i].section) /\ IsSettings(in.preset_file.default)
    BY <2>2, <2>3 DEF IsInput
  <2>6. PresetOf(in) = Over(entries[i].section, in.preset_file.default)
    BY <2>2, <2>3, <2>4
  <2>7. \A key, default : Setting(PresetOf(in), key, default)
            = Setting(entries[i].section, key,
                      Setting(in.preset_file.default, key, default))
    BY <2>6, SettingOver
  <2>8. ASSUME NEW key, NEW default, NEW T,
               Setting(entries[i].section, key, default) \in T,
               Setting(in.preset_file.default, key, default) \in T
        PROVE  Setting(PresetOf(in), key, default) \in T
    BY <2>7, <2>8 DEF Setting
  <2>9. ASSUME NEW key,
               Sets(entries[i].section, key) => entries[i].section[key] \in STRING,
               Sets(in.preset_file.default, key) => in.preset_file.default[key] \in STRING,
               Sets(PresetOf(in), key)
        PROVE  PresetOf(in)[key] \in STRING
    BY <2>6, <2>9 DEF Sets, Over
  <2> HIDE DEF entries
  <2> QED
    BY <2>5, <2>8, <2>9, Zenon DEF IsSettings
<1> QED
  BY <1>1, <1>2

LEMMA FoundTyped ==
    ASSUME NEW in, IsInput(in), NEW key, NEW default, NEW T,
           in.preset = None \/ has_preset(LoadedPresets(in.preset_file), in.preset),
           Setting(in.values, key, default) \in T, Setting(PresetOf(in), key, default) \in T
    PROVE  Found(in, key, default) \in T
BY DEF Found, Setting

\* What is found when something is.
LEMMA FoundSet ==
    ASSUME NEW in, NEW key, NEW default, NEW other,
           Found(in, key, default) # default \/ Sets(in.values, key) \/ Sets(PresetOf(in), key)
    PROVE  /\ Sets(in.values, key) \/ Sets(PresetOf(in), key)
           /\ Found(in, key, other) = Found(in, key, default)
BY DEF Found, Setting

\* In three numbers a version is what both front ends take it for.
LEMMA VersionRight ==
    ASSUME NEW v, v \in DOMAIN VersionOf
    PROVE  resolve_version(v) = VersionOf[v] /\ CommandVersion(v) = VersionOf[v]
<1>1. v = 1 \/ v = 2 \/ v = 3
  BY DEF VersionOf
<1> QED
  BY <1>1 DEF VersionOf, resolve_version, CommandVersion

LEMMA JobStrongest ==
    ASSUME NEW in, IsInput(in), NEW c, c = execute_job(in), ~c.refused
    PROVE  HasStrongest(in, c)
<1> DEFINE settings == ResolvedJob(LoadedPresets(in.preset_file), in)
           rule == RuleFor(LoadedRules(in.rules_file), c.trackers)
<1>1. JobFields(in, c, settings, rule)
  BY JobRight, Zenon
<1>2. \A key, default : Strongest(in, key, default) = Found(in, key, default)
  BY <1>1, StrongestFound, Zenon DEF JobFields
<1>3. IsSettings(in.values) /\ IsSettings(PresetOf(in))
  BY <1>1, PresetTyped, Zenon DEF IsInput, JobFields
<1> HIDE DEF rule
<1>4. Found(in, "source", "") # "" => c.source = Found(in, "source", "")
  <2> SUFFICES ASSUME Found(in, "source", "") # ""
               PROVE  c.source = Found(in, "source", "")
    OBVIOUS
  <2>1. Found(in, "source", None) = Found(in, "source", "")
    BY FoundSet, Zenon
  <2>2. Found(in, "source", "") \in STRING
    BY <1>3 DEF Found, Setting, IsSettings
  <2> HIDE DEF settings
  <2> QED
    BY <1>1, <2>1, <2>2, TrackerAssumption, Zenon DEF JobFields
<1>5. Found(in, "torrent_version", 3) \in DOMAIN VersionOf =>
        c.version = VersionOf[Found(in, "torrent_version", 3)]
  BY <1>1, VersionRight, Zenon DEF JobFields
<1>6. ASSUME Found(in, "piece_size", Unset) \in Allowed
      PROVE  c.piece_size.kb = Found(in, "piece_size", Unset)
  <2> DEFINE kb == Found(in, "piece_size", Unset)
  <2>1. kb # Unset
    BY <1>6, NotUnset
  <2>2. Found(in, "piece_size", 0) = kb
    BY <2>1, FoundSet, Zenon
  <2>3. Setting(settings, "piece_size", 0) = kb
    BY <2>2, ResolvedRight, Zenon
  <2> HIDE DEF kb, settings
  <2>4. kb \in Nat /\ kb > 0
    BY <1>6, NotUnset DEF kb
  <2>5. JobRequest(settings).piece_size = kb
    BY <2>3, <2>4 DEF JobRequest
  <2>6. ChoosePieceSize(JobRequest(settings), rule.limits, in.measured, in.hashed).kb = kb
    BY <1>6, <2>5, SizeKept DEF kb
  <2> QED
    BY <1>1, <2>6, Zenon DEF kb, JobFields
<1>7. c.include_creation_date
        = (~Found(in, "no_date", FALSE) /\ Found(in, "creation_date", TRUE))
  <2>1. /\ Found(in, "no_date", FALSE) \in BOOLEAN
        /\ Found(in, "creation_date", TRUE) \in BOOLEAN
    BY <1>3 DEF Found, Setting, IsSettings
  <2> HIDE DEF settings
  <2> QED
    BY <1>1, <2>1, Zenon DEF JobFields
<1> HIDE DEF settings
<1>8. LookedUp(in, c)
  BY <1>1, Zenon DEF JobFields
<1>9. /\ c.trackers = Found(in, "trackers", <<>>)
      /\ c.creator = IF Found(in, "no_creator", FALSE) THEN None
                     ELSE Found(in, "creator", TheCreator)
  BY <1>1, Zenon DEF JobFields
<1>10. /\ c.comment = Strongest(in, "comment", None)
       /\ c.name = Strongest(in, "name", None)
       /\ c.web_seeds = Strongest(in, "web_seeds", <<>>)
       /\ c.is_private = Strongest(in, "private", FALSE)
       /\ c.entropy = Strongest(in, "entropy", FALSE)
       /\ c.builtin = Strongest(in, "builtin_excludes", TRUE)
       /\ c.excludes = Strongest(in, "exclude_patterns", <<>>)
       /\ c.includes = Strongest(in, "include_patterns", <<>>)
  BY <1>2, <1>8 DEF LookedUp
<1>11. /\ c.trackers = Strongest(in, "trackers", <<>>)
       /\ Strongest(in, "source", "") # "" => c.source = Strongest(in, "source", "")
  BY <1>2, <1>4, <1>9
<1>12. /\ Strongest(in, "torrent_version", 3) \in DOMAIN VersionOf =>
            c.version = VersionOf[Strongest(in, "torrent_version", 3)]
       /\ Strongest(in, "piece_size", Unset) \in Allowed =>
            c.piece_size.kb = Strongest(in, "piece_size", Unset)
  BY <1>2, <1>5, <1>6
<1>13. /\ c.creator = IF Strongest(in, "no_creator", FALSE) THEN None
                      ELSE Strongest(in, "creator", TheCreator)
       /\ c.include_creation_date
            = (~Strongest(in, "no_date", FALSE) /\ Strongest(in, "creation_date", TRUE))
  BY <1>2, <1>7, <1>9, Zenon
<1> QED
  BY <1>10, <1>11, <1>12, <1>13, Zenon DEF HasStrongest

\* What an option of the command line that is a flag says, if it is given.
LEMMA CommandFlags ==
    ASSUME NEW in, IsCommandLine(in.values), NEW preset, preset = PresetOf(in)
    PROVE  /\ CommandCreator(in.values, preset)
                = IF Found(in, "no_creator", FALSE) THEN None
                  ELSE Found(in, "creator", TheCreator)
           /\ CommandDate(in.values, preset)
                = IF Found(in, "no_date", FALSE) THEN FALSE
                  ELSE Found(in, "creation_date", TRUE)
<1>1. ~Sets(in.values, "creator") /\ ~Sets(in.values, "creation_date")
  BY DEF IsCommandLine, Sets
<1>2. \A key \in {"no_creator", "no_date"} : Sets(in.values, key) => in.values[key]
  BY Zenon DEF IsCommandLine, Setting
<1>3. ASSUME NEW key \in {"no_creator", "no_date"}
      PROVE  Found(in, key, FALSE) <=> Sets(in.values, key) \/ Setting(preset, key, FALSE)
  BY <1>2, Zenon DEF Found, Setting
<1>4. /\ Found(in, "creator", TheCreator) = Setting(preset, "creator", TheCreator)
      /\ Found(in, "creation_date", TRUE) = Setting(preset, "creation_date", TRUE)
  BY <1>1, Zenon DEF Found, Setting
<1> QED
  BY <1>3, <1>4, Zenon DEF CommandCreator, CommandDate

\* Without default trackers, trackers are those that are found.
LEMMA CommandTrackers ==
    ASSUME NEW in, IsSettings(in.values), ~Sets(in.values, "default_trackers"),
           NEW preset, preset = PresetOf(in)
    PROVE  ChosenTrackers(in.values, preset) = Found(in, "trackers", <<>>)
<1>1. \A s \in Seq(STRING) : <<>> \o s = s
  OBVIOUS
<1>2. Setting(in.values, "trackers", <<>>) \in Seq(STRING)
  BY DEF IsSettings
<1> QED
  BY <1>1, <1>2 DEF ChosenTrackers, Found, Setting

LEMMA CommandStrongest ==
    ASSUME NEW in, IsInput(in), IsCommandLine(in.values),
           NEW c, c = get_commandline_config(in), ~c.refused
    PROVE  HasStrongest(in, c)
<1> DEFINE flags == in.values
           preset == PresetOf(in)
           request == CommandRequest(flags, preset)
           rules == IF LoadedRules(in.rules_file).complete
                    THEN LoadedRules(in.rules_file) ELSE NoRules
           rule == RuleFor(rules, c.trackers)
<1>1. CommandFields(in, c, flags, preset, rule)
  <2> HIDE DEF rules
  <2>1. rules = IF LoadedRules(in.rules_file).complete
                THEN LoadedRules(in.rules_file) ELSE NoRules
    BY DEF rules
  <2> QED
    BY <2>1, CommandRight, Zenon
<1>2. \A key, default : Strongest(in, key, default) = Found(in, key, default)
  BY <1>1, StrongestFound, Zenon DEF CommandFields
<1>3. IsSettings(in.values) /\ IsSettings(PresetOf(in))
  BY <1>1, PresetTyped, Zenon DEF IsInput, CommandFields
<1> HIDE DEF rule
<1>4. Found(in, "source", "") # "" => c.source = Found(in, "source", "")
  <2> SUFFICES ASSUME Found(in, "source", "") # ""
               PROVE  c.source = Found(in, "source", "")
    OBVIOUS
  <2>1. Sets(flags, "source") \/ Sets(preset, "source")
    BY FoundSet, Zenon
  <2>2. CommandSource(flags, preset) = Found(in, "source", "")
    BY <2>1 DEF CommandSource, Found, Setting
  <2>3. Found(in, "source", "") \in STRING
    BY <1>3, <2>1 DEF Found, Setting, IsSettings
  <2> HIDE DEF flags, preset
  <2> QED
    BY <1>1, <2>2, <2>3, TrackerAssumption, Zenon DEF CommandFields
<1>5. Found(in, "torrent_version", 3) \in DOMAIN VersionOf =>
        c.version = VersionOf[Found(in, "torrent_version", 3)]
  BY <1>1, VersionRight, Zenon DEF CommandFields
<1>6. ASSUME Found(in, "piece_size", Unset) \in Allowed
      PROVE  c.piece_size.kb = Found(in, "piece_size", Unset)
  <2> DEFINE kb == Found(in, "piece_size", Unset)
  <2>1. kb # Unset
    BY <1>6, NotUnset
  <2>2. /\ Sets(flags, "piece_size") => flags["piece_size"] = kb
        /\ ~Sets(flags, "piece_size") => Setting(preset, "piece_size", 0) = kb
    BY <2>1 DEF Found, Setting
  <2> HIDE DEF kb, flags, preset
  <2>3. kb \in Allowed
    BY <1>6 DEF kb
  <2>4. CommandRequest(flags, preset).piece_size = kb
    BY <2>2, <2>3, Zenon DEF CommandRequest
  <2>5. ChoosePieceSize(request, rule.limits, in.measured, in.hashed).kb = kb
    BY <2>3, <2>4, SizeKept
  <2> QED
    BY <1>1, <2>5, Zenon DEF kb, CommandFields
<1>7. /\ c.creator = IF Found(in, "no_creator", FALSE) THEN None
                     ELSE Found(in, "creator", TheCreator)
      /\ c.include_creation_date = IF Found(in, "no_date", FALSE) THEN FALSE
                                   ELSE Found(in, "creation_date", TRUE)
  BY <1>1, CommandFlags, Zenon DEF CommandFields
<1>8. c.include_creation_date
        = (~Found(in, "no_date", FALSE) /\ Found(in, "creation_date", TRUE))
  <2>1. /\ Found(in, "no_date", FALSE) \in BOOLEAN
        /\ Found(in, "creation_date", TRUE) \in BOOLEAN
    BY <1>3 DEF Found, Setting, IsSettings
  <2> QED
    BY <1>7, <2>1, Zenon
<1>9. LookedUp(in, c)
  BY <1>1, Zenon DEF CommandFields
<1>10. /\ c.comment = Strongest(in, "comment", None)
       /\ c.name = Strongest(in, "name", None)
       /\ c.web_seeds = Strongest(in, "web_seeds", <<>>)
       /\ c.is_private = Strongest(in, "private", FALSE)
       /\ c.entropy = Strongest(in, "entropy", FALSE)
       /\ c.builtin = Strongest(in, "builtin_excludes", TRUE)
       /\ c.excludes = Strongest(in, "exclude_patterns", <<>>)
       /\ c.includes = Strongest(in, "include_patterns", <<>>)
  BY <1>2, <1>9 DEF LookedUp
<1>11. ~Sets(in.values, "default_trackers") => c.trackers = Strongest(in, "trackers", <<>>)
  BY <1>1, <1>2, <1>3, CommandTrackers DEF CommandFields
<1>12. /\ Strongest(in, "source", "") # "" => c.source = Strongest(in, "source", "")
       /\ Strongest(in, "torrent_version", 3) \in DOMAIN VersionOf =>
            c.version = VersionOf[Strongest(in, "torrent_version", 3)]
       /\ Strongest(in, "piece_size", Unset) \in Allowed =>
            c.piece_size.kb = Strongest(in, "piece_size", Unset)
  BY <1>2, <1>4, <1>5, <1>6
<1>13. /\ c.creator = IF Strongest(in, "no_creator", FALSE) THEN None
                      ELSE Strongest(in, "creator", TheCreator)
       /\ c.include_creation_date
            = (~Strongest(in, "no_date", FALSE) /\ Strongest(in, "creation_date", TRUE))
  BY <1>2, <1>7, <1>8, Zenon
<1> QED
  BY <1>10, <1>11, <1>12, <1>13, Zenon DEF HasStrongest

--------------------------------------------------------------------------------
(* Where the front ends agree. *)

\* The preset, too, is ordinary.
LEMMA PresetOrdinary ==
    ASSUME NEW in, IsInput(in), Ordinary(in),
           in.preset = None \/ has_preset(LoadedPresets(in.preset_file), in.preset)
    PROVE  IsOrdinary(in.values) /\ IsOrdinary(PresetOf(in))
<1>1. /\ IsOrdinary(Layers(in)[1]) /\ IsOrdinary(Layers(in)[2]) /\ IsOrdinary(Layers(in)[3])
      /\ Layers(in)[1] = in.values
  <2>1. 1 \in DOMAIN Layers(in) /\ 2 \in DOMAIN Layers(in) /\ 3 \in DOMAIN Layers(in)
    BY DEF Layers
  <2> QED
    BY <2>1 DEF Ordinary, Layers
<1>2. ASSUME NEW key, NEW default, NEW T,
             Setting(Layers(in)[2], key, default) \in T,
             Setting(Layers(in)[3], key, default) \in T
      PROVE  Setting(PresetOf(in), key, default) \in T
  BY <1>2, PresetRight DEF Setting
<1>3. /\ Setting(PresetOf(in), "torrent_version", 3) \in 1..3
      /\ Setting(PresetOf(in), "piece_size", Min(Allowed)) \in Allowed
  BY <1>1, <1>2, Zenon DEF IsOrdinary
<1>4. Setting(PresetOf(in), "target_piece_count", 1) > 0
  BY <1>1, PresetRight DEF Setting, IsOrdinary
<1>5. Setting(PresetOf(in), "source", None) # ""
  BY <1>1, PresetRight DEF Setting, IsOrdinary
<1>6. Setting(PresetOf(in), "name", None) \notin {"", " "}
  BY <1>1, PresetRight DEF Setting, IsOrdinary
<1> QED
  BY <1>1, <1>3, <1>4, <1>5, <1>6 DEF IsOrdinary

LEMMA RequestsAgree ==
    ASSUME NEW flags, NEW preset, NEW settings, settings = Over(flags, preset),
           IsSettings(flags), IsSettings(preset), IsOrdinary(flags), IsOrdinary(preset)
    PROVE  JobRequest(settings) = CommandRequest(flags, preset)
<1> DEFINE kb     == Setting(settings, "piece_size", 0)
           target == Setting(settings, "target_piece_count", Unset)
           sized  == Sets(settings, "piece_size")
           counts == Sets(settings, "target_piece_count")
           wanted == [refused    |-> sized /\ counts,
                      piece_size |-> IF sized THEN kb ELSE Unset,
                      target     |-> target]
<1>1. \A s \in {flags, preset} :
        /\ Sets(s, "piece_size") => s["piece_size"] \in Allowed
        /\ Sets(s, "target_piece_count") =>
                s["target_piece_count"] \in Int /\ s["target_piece_count"] > 0
  BY DEF IsOrdinary, IsSettings, Setting
<1>2. /\ sized <=> Sets(flags, "piece_size") \/ Sets(preset, "piece_size")
      /\ counts <=> Sets(flags, "target_piece_count") \/ Sets(preset, "target_piece_count")
      /\ kb = Setting(flags, "piece_size", Setting(preset, "piece_size", 0))
      /\ target = Setting(flags, "target_piece_count",
                          Setting(preset, "target_piece_count", Unset))
  BY SettingOver
<1> HIDE DEF kb, target, sized, counts
<1>3. /\ sized => kb \in Allowed /\ kb \in Int /\ kb > 0 /\ kb # Unset
      /\ ~sized => kb = 0
  BY <1>1, <1>2, NotUnset DEF Setting
<1>4. /\ counts => target \in Int /\ target > 0 /\ target # Unset
      /\ ~counts => target = Unset
  <2>1. Unset \notin Int
    BY RulesAssumption, Zenon
  <2>2. /\ counts => target \in Int /\ target > 0
        /\ ~counts => target = Unset
    BY <1>1, <1>2 DEF Setting
  <2> QED
    BY <2>1, <2>2, Zenon
<1>5. JobRequest(settings) = wanted
  <2>1. ((sized /\ counts) \/ (target # Unset /\ target <= 0) \/ (kb > 0 /\ kb \notin Allowed))
            = (sized /\ counts)
    BY <1>3, <1>4
  <2>2. (IF kb > 0 THEN kb ELSE Unset) = (IF sized THEN kb ELSE Unset)
    BY <1>3
  <2> QED
    BY <2>1, <2>2, Zenon DEF JobRequest, kb, target, sized, counts
<1>6. CommandRequest(flags, preset) = wanted
  <2> DEFINE pkb == Setting(preset, "piece_size", 0)
             pno == Setting(preset, "target_piece_count", 0)
             size   == CASE Sets(flags, "piece_size") -> flags["piece_size"]
                         [] ~Sets(flags, "piece_size") /\ pkb \in Allowed -> pkb
                         [] OTHER -> Unset
             number == CASE Sets(flags, "target_piece_count") -> flags["target_piece_count"]
                         [] ~Sets(flags, "target_piece_count") /\ pno > 0 -> pno
                         [] OTHER -> Unset
  <2>1. 0 \notin Allowed
    BY NotUnset
  <2>2. size = IF sized THEN kb ELSE Unset
    BY <1>1, <1>2, <2>1 DEF Setting
  <2>3. number = target
    BY <1>1, <1>2 DEF Setting
  <2> HIDE DEF size, number
  <2>4. (\/ size # Unset /\ size \notin Allowed
         \/ number # Unset /\ number <= 0
         \/ size # Unset /\ number # Unset) <=> (sized /\ counts)
    <3>1. (size # Unset <=> sized) /\ (size # Unset => size \in Allowed)
      BY <1>3, <2>2
    <3>2. (number # Unset <=> counts) /\ (number # Unset => ~(number <= 0))
      BY <1>4, <2>3
    <3> QED
      BY <3>1, <3>2, Zenon
  <2>5. CommandRequest(flags, preset) =
            [refused    |-> \/ size # Unset /\ size \notin Allowed
                            \/ number # Unset /\ number <= 0
                            \/ size # Unset /\ number # Unset,
             piece_size |-> size, target |-> number]
    BY Zenon DEF CommandRequest, size, number
  <2> QED
    BY <2>2, <2>3, <2>4, <2>5, Zenon
<1> QED
  BY <1>5, <1>6

\* What the two look up alike.
LEMMA PlainAgrees ==
    ASSUME NEW in, NEW preset, preset = PresetOf(in),
           NEW settings, settings = Over(in.values, preset)
    PROVE  Plain(settings, NoSettings) = Plain(in.values, preset)
<1>1. \A key, default : Setting(NoSettings, key, default) = default
  BY DEF Setting, Sets, NoSettings
<1>2. \A key, default : Setting(settings, key, Setting(NoSettings, key, default))
                            = Setting(in.values, key, Setting(preset, key, default))
  BY <1>1, SettingOver
<1> QED
  BY <1>2, Zenon DEF Plain

\* The command line makes of ordinary settings what the batch makes of them.
LEMMA CommandAgrees ==
    ASSUME NEW in, IsInput(in), ~Sets(in.values, "default_trackers"),
           Ordinary(in), IsCommandLine(in.values)
    PROVE  get_commandline_config(in) = execute_job(in)
<1> DEFINE flags    == in.values
           presets  == LoadedPresets(in.preset_file)
           preset   == PresetOf(in)
           settings == ResolvedJob(presets, in)
           loaded   == LoadedRules(in.rules_file)
           there    == in.preset = None \/ has_preset(presets, in.preset)
           Valids   == /\ Valid(Setting(flags, "trackers", <<>>))
                       /\ Valid(Setting(flags, "web_seeds", <<>>))
<1>1. settings = Over(flags, preset)
  BY Zenon DEF ResolvedJob, merge_config_values, PresetOf
<1>2. (IF loaded.complete THEN loaded ELSE NoRules) = loaded
  <2>1. CASE loaded.complete
    BY <2>1, Zenon
  <2>2. CASE ~loaded.complete
    <3>1. ~in.rules_file.found
      BY <2>2, Zenon DEF Ordinary
    <3>2. loaded = NoRules
      BY <3>1 DEF LoadedRules, Loaded, NoRules
    <3> QED
      BY <3>2, Zenon
  <2> QED
    BY <2>1, <2>2
<1>3. parse_yaml_config(flags) <=> Valids
  BY Zenon DEF parse_yaml_config
<1>4. RefusedTrackers(flags) <=> ~Valid(Setting(flags, "trackers", <<>>))
  BY Zenon DEF RefusedTrackers
<1>5. /\ in.preset # None => presets.complete
      /\ ~(in.rules_named /\ ~loaded.complete)
  BY Zenon DEF Ordinary
<1>6. IsOrdinary(flags)
  <2>1. 1 \in DOMAIN Layers(in) /\ Layers(in)[1] = flags
    BY DEF Layers
  <2> QED
    BY <2>1 DEF Ordinary
<1>7. Setting(flags, "name", None) \notin {"", " "}
  BY <1>6 DEF IsOrdinary
<1> DEFINE jobRest ==
             [source   |-> Setting(settings, "source", None),
              trackers |-> Setting(settings, "trackers", <<>>),
              version  |-> resolve_version(Setting(settings, "torrent_version", 3)),
              creator  |-> IF Setting(settings, "no_creator", FALSE) THEN None
                           ELSE Setting(settings, "creator", TheCreator),
              include_creation_date |->
                IF Setting(settings, "no_date", FALSE) THEN FALSE
                ELSE Setting(settings, "creation_date", TRUE)]
           rest == [source   |-> CommandSource(flags, preset),
                    trackers |-> ChosenTrackers(flags, preset),
                    version  |-> CommandVersion(Setting(flags, "torrent_version",
                                                Setting(preset, "torrent_version", 3))),
                    creator  |-> CommandCreator(flags, preset),
                    include_creation_date |-> CommandDate(flags, preset)]
           Made(request, asked) == Configured(asked, request, RuleFor(loaded, asked.trackers), in)
<1>8. execute_job(in) =
        IF ~Valids \/ ~there \/ JobRequest(settings).refused THEN Refused
        ELSE Made(JobRequest(settings), Over(Plain(settings, NoSettings), jobRest))
  <2>1. build_torrent_config(settings) = Over(Plain(settings, NoSettings), jobRest)
    BY Zenon DEF build_torrent_config
  <2> HIDE DEF jobRest, settings, loaded
  <2> QED
    BY <1>3, <2>1, Zenon DEF execute_job, settings, loaded
<1>9. get_commandline_config(in) =
        IF ~Valids \/ ~there \/ CommandRequest(flags, preset).refused THEN Refused
        ELSE Made(CommandRequest(flags, preset), Over(Plain(flags, preset), rest))
  BY <1>2, <1>4, <1>5, <1>7, Zenon DEF get_commandline_config, PresetOf
<1>10. CASE ~there
  BY <1>8, <1>9, <1>10, Zenon
<1>11. CASE there
  <2>1. IsSettings(flags) /\ IsSettings(preset) /\ IsOrdinary(preset)
    BY <1>11, PresetTyped, PresetOrdinary, Zenon DEF IsInput
  <2> HIDE DEF preset, settings
  <2>2. JobRequest(settings) = CommandRequest(flags, preset)
    BY <1>1, <1>6, <2>1, RequestsAgree, Zenon
  <2>3. Plain(settings, NoSettings) = Plain(flags, preset)
    BY <1>1, PlainAgrees DEF preset
  <2>4. \A key, default : Setting(settings, key, default) = Found(in, key, default)
    BY <1>1, SettingOver DEF Found, preset
  <2>5. Setting(settings, "source", None) = CommandSource(flags, preset)
    <3>1. Setting(flags, "source", None) # ""
      BY <1>6 DEF IsOrdinary
    <3> QED
      BY <2>4, <3>1 DEF CommandSource, Found, Setting, preset
  <2>6. Setting(settings, "trackers", <<>>) = ChosenTrackers(flags, preset)
    BY <2>1, <2>4, CommandTrackers DEF preset
  <2>7. resolve_version(Setting(settings, "torrent_version", 3))
            = CommandVersion(Setting(flags, "torrent_version",
                                     Setting(preset, "torrent_version", 3)))
    <3> DEFINE v == Setting(flags, "torrent_version", Setting(preset, "torrent_version", 3))
    <3>1. v \in 1..3
      BY <1>6, <2>1 DEF IsOrdinary, Setting
    <3>2. v \in DOMAIN VersionOf
      BY <3>1 DEF VersionOf
    <3>3. Setting(settings, "torrent_version", 3) = v
      BY <2>4 DEF Found, preset
    <3> HIDE DEF v
    <3>4. resolve_version(v) = CommandVersion(v)
      BY <3>2, VersionRight
    <3> QED
      BY <3>3, <3>4 DEF v
  <2>8. jobRest = rest
    <3>1. /\ (IF Setting(settings, "no_creator", FALSE) THEN None
              ELSE Setting(settings, "creator", TheCreator)) = CommandCreator(flags, preset)
          /\ (IF Setting(settings, "no_date", FALSE) THEN FALSE
              ELSE Setting(settings, "creation_date", TRUE)) = CommandDate(flags, preset)
      BY <2>4, CommandFlags, Zenon DEF preset
    <3> QED
      BY <2>5, <2>6, <2>7, <3>1, Zenon
  <2> HIDE DEF jobRest, rest, Made, Valids, there
  <2> QED
    BY <1>8, <1>9, <2>2, <2>3, <2>8
<1> QED
  BY <1>10, <1>11

\* Every URL that is not there already is taken: all of a list that has each once.
LEMMA NewRight ==
    ASSUME NEW T, NEW base \in Seq(T), NEW s \in Seq(T)
    PROVE  /\ WithNew(base, s) \in Seq(T)
           /\ base = <<>> /\ IsInjective(s) => WithNew(base, s) = s
<1> DEFINE N == Len(s)
           Step(it, r) == IF r = {} THEN base
                          ELSE IF Contains(it[r \ {Max(r)}], s[Max(r)]) THEN it[r \ {Max(r)}]
                          ELSE Append(it[r \ {Max(r)}], s[Max(r)])
           iter == CHOOSE it : it = [r \in SUBSET (DOMAIN s) |-> Step(it, r)]
<1>1. N \in Nat /\ DOMAIN s = 1..N /\ s \in [1..N -> T]
  OBVIOUS
<1>2. WithNew(base, s) = iter[DOMAIN s]
  BY Zenon DEF WithNew, FoldLeft, MapThenFoldSet
<1>3. \E it : it = [r \in SUBSET (DOMAIN s) |-> Step(it, r)]
  <2> DEFINE op == [p \in Seq(T) \X T |->
                      IF Contains(p[1], p[2]) THEN p[1] ELSE Append(p[1], p[2])]
  <2>1. op \in [Seq(T) \X T -> Seq(T)]
    OBVIOUS
  <2>2. \A k \in Seq(T), x \in T :
            op[<<k, x>>] = IF Contains(k, x) THEN k ELSE Append(k, x)
    OBVIOUS
  <2> HIDE DEF op, N
  <2>3. PICK it : Folding(Seq(T), op, base, N, s, it)
    BY <1>1, <2>1, FoldExists
  <2>4. ASSUME NEW r \in SUBSET (1..N)
        PROVE  it[r] = Step(it, r)
    <3>1. CASE r = {}
      BY <2>3, <3>1 DEF Folding
    <3>2. CASE r # {}
      <4>1. Max(r) \in r
        BY <1>1, <3>2, GreatestOf
      <4>2. s[Max(r)] \in T /\ it[r \ {Max(r)}] \in Seq(T)
        BY <1>1, <2>3, <4>1 DEF Folding
      <4>3. it[r] = op[<<it[r \ {Max(r)}], s[Max(r)]>>]
        BY <2>3, <3>2 DEF Folding
      <4> QED
        BY <2>2, <3>2, <4>2, <4>3
    <3> QED
      BY <3>1, <3>2
  <2> HIDE DEF Step
  <2>5. it = [r \in SUBSET (1..N) |-> Step(it, r)]
    BY <2>3, <2>4 DEF Folding
  <2> QED
    BY <1>1, <2>5
<1>4. iter = [r \in SUBSET (DOMAIN s) |-> Step(iter, r)]
  BY <1>3, Zenon
<1> HIDE DEF iter, Step
<1>5. \A r \in SUBSET (1..N) : iter[r] = Step(iter, r)
  BY <1>1, <1>4
<1> DEFINE Taken(k) == /\ iter[1..k] \in Seq(T)
                       /\ base = <<>> /\ IsInjective(s) => iter[1..k] = SubSeq(s, 1, k)
           K == {k \in Nat : k <= N => Taken(k)}
<1>6. 0 \in K
  <2>1. 1..0 = {} /\ 1..0 \in SUBSET (1..N)
    OBVIOUS
  <2>2. iter[1..0] = base
    BY <1>5, <2>1 DEF Step
  <2>3. SubSeq(s, 1, 0) = <<>>
    BY <1>1
  <2> QED
    BY <2>2, <2>3
<1>7. ASSUME NEW k \in Nat, k \in K
      PROVE  k + 1 \in K
  <2> SUFFICES ASSUME k + 1 <= N
               PROVE  Taken(k + 1)
    BY <1>7
  <2>1. Taken(k)
    <3> HIDE DEF Taken
    <3> QED
      BY <1>1, <1>7
  <2>2. iter[1..(k + 1)] = IF Contains(iter[1..k], s[k + 1]) THEN iter[1..k]
                           ELSE Append(iter[1..k], s[k + 1])
    <3> HIDE DEF Taken, N
    <3>1. iter[1..(k + 1)] = Step(iter, 1..(k + 1))
      BY <1>1, <1>5, FirstNumbers
    <3> QED
      BY <1>1, <3>1, FirstNumbers, Zenon DEF Step
  <2>3. iter[1..(k + 1)] \in Seq(T)
    <3>1. s[k + 1] \in T
      BY <1>1
    <3> QED
      BY <2>1, <2>2, <3>1
  <2>4. ASSUME base = <<>>, IsInjective(s)
        PROVE  iter[1..(k + 1)] = SubSeq(s, 1, k + 1)
    <3>1. ASSUME Contains(SubSeq(s, 1, k), s[k + 1])
          PROVE  FALSE
      <4>1. PICK i \in 1..k : s[i] = s[k + 1]
        BY <1>1, <3>1 DEF Contains
      <4>2. i \in DOMAIN s /\ k + 1 \in DOMAIN s /\ i # k + 1
        BY <1>1
      <4> QED
        BY <2>4, <4>1, <4>2 DEF IsInjective
    <3>2. SubSeq(s, 1, k + 1) = Append(SubSeq(s, 1, k), s[k + 1])
      BY <1>1
    <3>3. iter[1..k] = SubSeq(s, 1, k)
      BY <2>1, <2>4
    <3> QED
      BY <2>2, <3>1, <3>2, <3>3, Zenon
  <2> QED
    BY <2>3, <2>4
<1>8. Taken(N)
  <2> HIDE DEF N, Taken
  <2>1. Nat \subseteq K
    <3> HIDE DEF K
    <3> QED
      BY <1>6, <1>7, NatSetInduction
  <2> QED
    BY <1>1, <2>1
<1>9. SubSeq(s, 1, N) = s
  BY <1>1
<1> QED
  BY <1>1, <1>2, <1>8, <1>9

\* A list of valid URLs that has each once is taken as it is.
LEMMA AnsweredTrackersRight ==
    ASSUME NEW answers, ~Sets(answers, "default_trackers"),
           NEW T, NEW s \in Seq(T), s = Setting(answers, "trackers", <<>>),
           Valid(s), IsInjective(s)
    PROVE  AnsweredTrackers(answers) = s
<1>1. Only(s, DOMAIN DomainOf) = s
  BY OnlyRight DEF Valid
<1>2. AnsweredTrackers(answers) = WithNew(<<>>, s)
  BY <1>1, Zenon DEF AnsweredTrackers
<1>3. <<>> \in Seq(T)
  OBVIOUS
<1> QED
  BY <1>2, <1>3, NewRight

\* Without a constraint the rule does not matter.
LEMMA Unconstrained ==
    ASSUME NEW job, NEW other, NEW rule, NEW none, NEW measured, NEW hashed,
           job.piece_size = other.piece_size, job.target = other.target,
           ~Constrained(rule), ~Constrained(none)
    PROVE  ChoosePieceSize(job, rule, measured, hashed)
             = ChoosePieceSize(other, none, measured, hashed)
<1>1. Current(job, measured) = Current(other, measured)
  BY DEF Current
<1> DEFINE current == Current(job, measured)
           choice  == [kb |-> IF current # Unset THEN current ELSE auto_piece_size(hashed),
                       warned |-> FALSE]
<1>2. ChoosePieceSize(job, rule, measured, hashed) = choice
  BY Zenon DEF ChoosePieceSize
<1>3. ChoosePieceSize(other, none, measured, hashed) = choice
  BY <1>1, Zenon DEF ChoosePieceSize
<1> QED
  BY <1>2, <1>3

\* The questions make of settings that can be answers what a batch makes of them, where
\* there is neither preset nor rule.
LEMMA QuestionsAgree ==
    ASSUME NEW in, IsInput(in), ~Sets(in.values, "default_trackers"),
           Ordinary(in), IsCommandLine(in.values), in.preset = None,
           CanBeAnswers(in.values), ~execute_job(in).refused,
           NoRuleFor(in, execute_job(in).trackers)
    PROVE  get_interactive_config(in) = execute_job(in)
<1> DEFINE answers  == in.values
           settings == ResolvedJob(LoadedPresets(in.preset_file), in)
           loaded   == LoadedRules(in.rules_file)
           jobRest ==
             [source   |-> Setting(settings, "source", None),
              trackers |-> Setting(settings, "trackers", <<>>),
              version  |-> resolve_version(Setting(settings, "torrent_version", 3)),
              creator  |-> IF Setting(settings, "no_creator", FALSE) THEN None
                           ELSE Setting(settings, "creator", TheCreator),
              include_creation_date |->
                IF Setting(settings, "no_date", FALSE) THEN FALSE
                ELSE Setting(settings, "creation_date", TRUE)]
           jobAsked == Over(Plain(settings, NoSettings), jobRest)
           rule     == RuleFor(loaded, jobAsked.trackers)
           texts    == [web_seeds |-> Only(Setting(answers, "web_seeds", <<>>), DOMAIN DomainOf),
                        comment   |-> prompt_optional_string(answers, "comment"),
                        name      |-> IF Setting(answers, "name", "") = " " THEN None
                                      ELSE prompt_optional_string(answers, "name")]
           given    == Over(texts, answers)
           rest ==
             [source   |-> prompt_optional_string(answers, "source"),
              trackers |-> AnsweredTrackers(answers),
              version  |-> resolve_version(Setting(answers, "torrent_version", 3)),
              creator  |-> IF Sets(answers, "no_creator") THEN None ELSE TheCreator,
              include_creation_date |-> ~Sets(answers, "no_date")]
           asked    == Over(Plain(given, NoSettings), rest)
<1>1. /\ parse_yaml_config(answers) /\ ~JobRequest(settings).refused
      /\ execute_job(in) = Configured(jobAsked, JobRequest(settings), rule, in)
  <2>1. Refused.refused
    BY DEF Refused
  <2>2. build_torrent_config(settings) = jobAsked
    BY Zenon DEF build_torrent_config
  <2> HIDE DEF jobAsked
  <2> QED
    BY <2>1, <2>2, Zenon DEF execute_job
<1>2. get_interactive_config(in) = Configured(asked, AnsweredRequest(answers), NoRule, in)
  BY Zenon DEF get_interactive_config
<1>3. /\ \A key, default : Setting(settings, key, default) = Setting(answers, key, default)
      /\ \A key : Sets(settings, key) <=> Sets(answers, key)
      /\ \A key, default : Setting(NoSettings, key, default) = default
  <2>1. settings = Over(answers, NoSettings)
    BY Zenon DEF ResolvedJob, merge_config_values
  <2>2. \A key, default : Setting(NoSettings, key, default) = default
    BY DEF Setting, Sets, NoSettings
  <2>3. \A key : ~Sets(NoSettings, key)
    BY DEF Sets, NoSettings
  <2>4. \A key : Sets(settings, key) <=> Sets(answers, key)
    BY <2>1, <2>3, Zenon DEF Over, Sets
  <2>5. ASSUME NEW key, NEW default
        PROVE  Setting(settings, key, default) = Setting(answers, key, default)
    <3> HIDE DEF settings, answers
    <3>1. CASE Sets(answers, key)
      <4>1. settings[key] = answers[key]
        BY <2>1, <3>1 DEF Over, Sets
      <4> QED
        BY <2>4, <3>1, <4>1 DEF Setting
    <3>2. CASE ~Sets(answers, key)
      BY <2>4, <3>2 DEF Setting
    <3> QED
      BY <3>1, <3>2
  <2> HIDE DEF settings, answers
  <2> QED
    BY <2>2, <2>4, <2>5
<1>4. IsSettings(answers) /\ IsOrdinary(answers)
  <2>1. 1 \in DOMAIN Layers(in) /\ Layers(in)[1] = answers
    BY DEF Layers
  <2> QED
    BY <2>1 DEF Ordinary, IsInput
<1>5. /\ ~Sets(answers, "default_trackers") /\ ~Sets(answers, "creator")
      /\ ~Sets(answers, "creation_date")
      /\ \A key \in {"no_creator", "no_date"} : Sets(answers, key) => answers[key]
  BY Zenon DEF IsCommandLine, Sets, Setting
<1>6. /\ Valid(Setting(answers, "trackers", <<>>)) /\ Valid(Setting(answers, "web_seeds", <<>>))
      /\ Setting(answers, "trackers", <<>>) \in Seq(STRING)
      /\ Setting(answers, "web_seeds", <<>>) \in Seq(STRING)
  BY <1>1, <1>4 DEF parse_yaml_config, IsSettings
<1>7. /\ IsInjective(Setting(answers, "trackers", <<>>))
      /\ Setting(answers, "comment", None) # ""
  BY Zenon DEF CanBeAnswers
<1> HIDE DEF answers, settings
<1>8. AnsweredTrackers(answers) = Setting(answers, "trackers", <<>>)
  BY <1>5, <1>6, <1>7, AnsweredTrackersRight
<1>9. Only(Setting(answers, "web_seeds", <<>>), DOMAIN DomainOf)
        = Setting(answers, "web_seeds", <<>>)
  BY <1>6, OnlyRight DEF Valid
<1>10. ASSUME NEW key, Setting(answers, key, None) # ""
       PROVE  prompt_optional_string(answers, key) = Setting(answers, key, None)
  BY <1>10 DEF prompt_optional_string, Setting
<1>11. /\ Setting(answers, "source", None) # ""
       /\ Setting(answers, "name", None) \notin {"", " "}
  BY <1>4 DEF IsOrdinary
<1>12. rest = jobRest
  <2>1. rest.source = Setting(settings, "source", None)
    BY <1>3, <1>10, <1>11
  <2>2. AnsweredTrackers(answers) = Setting(settings, "trackers", <<>>)
    BY <1>3, <1>8
  <2>3. (IF Setting(settings, "no_creator", FALSE) THEN None
         ELSE Setting(settings, "creator", TheCreator))
            = IF Sets(answers, "no_creator") THEN None ELSE TheCreator
    BY <1>3, <1>5, Zenon DEF Setting
  <2>4. (IF Setting(settings, "no_date", FALSE) THEN FALSE
         ELSE Setting(settings, "creation_date", TRUE)) = ~Sets(answers, "no_date")
    <3>1. Setting(settings, "no_date", FALSE) <=> Sets(answers, "no_date")
      BY <1>3, <1>5, Zenon DEF Setting
    <3>2. Setting(settings, "creation_date", TRUE) = TRUE
      BY <1>3, <1>5, Zenon DEF Setting
    <3>3. CASE Sets(answers, "no_date")
      BY <3>1, <3>3, Zenon
    <3>4. CASE ~Sets(answers, "no_date")
      BY <3>1, <3>2, <3>4, Zenon
    <3> QED
      BY <3>3, <3>4
  <2>5. prompt_optional_string(answers, "source") = Setting(settings, "source", None)
    BY <1>3, <1>10, <1>11
  <2>6. Setting(answers, "torrent_version", 3) = Setting(settings, "torrent_version", 3)
    BY <1>3, Zenon
  <2> QED
    BY <2>2, <2>3, <2>4, <2>5, <2>6, Zenon
<1>13. Plain(given, NoSettings) = Plain(settings, NoSettings)
  <2>1. /\ DOMAIN texts = {"web_seeds", "comment", "name"}
        /\ texts.web_seeds = Setting(answers, "web_seeds", <<>>)
        /\ texts.comment = Setting(answers, "comment", None)
        /\ texts.name = Setting(answers, "name", None)
    <3>1. (IF Setting(answers, "name", "") = " " THEN None
           ELSE prompt_optional_string(answers, "name")) = Setting(answers, "name", None)
      <4>1. Setting(answers, "name", "") # " "
        BY <1>11 DEF Setting
      <4> QED
        BY <1>10, <1>11, <4>1
    <3>2. prompt_optional_string(answers, "comment") = Setting(answers, "comment", None)
      BY <1>7, <1>10
    <3> QED
      BY <1>9, <3>1, <3>2
  <2> HIDE DEF texts
  <2>2. ASSUME NEW key, key \notin {"web_seeds", "comment", "name"}, NEW default
        PROVE  Setting(given, key, default) = Setting(settings, key, default)
    <3> HIDE DEF given
    <3>1. given = Over(texts, answers)
      BY Zenon DEF given
    <3>2. Sets(given, key) <=> Sets(answers, key)
      BY <2>1, <2>2, <3>1, Zenon DEF Over, Sets
    <3>3. CASE Sets(answers, key)
      <4>1. given[key] = answers[key]
        BY <2>1, <2>2, <3>1, <3>3 DEF Over, Sets
      <4> QED
        BY <1>3, <3>2, <3>3, <4>1 DEF Setting
    <3>4. CASE ~Sets(answers, key)
      BY <1>3, <3>2, <3>4 DEF Setting
    <3> QED
      BY <3>3, <3>4
  <2>3. /\ Setting(given, "web_seeds", <<>>) = Setting(settings, "web_seeds", <<>>)
        /\ Setting(given, "comment", None) = Setting(settings, "comment", None)
        /\ Setting(given, "name", None) = Setting(settings, "name", None)
    <3>1. \A key \in DOMAIN texts : Sets(given, key) /\ given[key] = texts[key]
      BY DEF Over, Sets
    <3> HIDE DEF given
    <3>2. \A default : \A key \in DOMAIN texts : Setting(given, key, default) = texts[key]
      BY <3>1 DEF Setting
    <3> QED
      BY <1>3, <2>1, <3>2
  <2> HIDE DEF given
  <2>4. /\ Setting(given, "private", FALSE) = Setting(settings, "private", FALSE)
        /\ Setting(given, "entropy", FALSE) = Setting(settings, "entropy", FALSE)
        /\ Setting(given, "builtin_excludes", TRUE) = Setting(settings, "builtin_excludes", TRUE)
        /\ Setting(given, "exclude_patterns", <<>>) = Setting(settings, "exclude_patterns", <<>>)
        /\ Setting(given, "include_patterns", <<>>) = Setting(settings, "include_patterns", <<>>)
    BY <2>2
  <2>5. /\ Setting(NoSettings, "web_seeds", <<>>) = <<>>
        /\ Setting(NoSettings, "comment", None) = None
        /\ Setting(NoSettings, "name", None) = None
        /\ Setting(NoSettings, "private", FALSE) = FALSE
        /\ Setting(NoSettings, "entropy", FALSE) = FALSE
        /\ Setting(NoSettings, "builtin_excludes", TRUE) = TRUE
        /\ Setting(NoSettings, "exclude_patterns", <<>>) = <<>>
        /\ Setting(NoSettings, "include_patterns", <<>>) = <<>>
    BY <1>3
  <2> QED
    BY <2>3, <2>4, <2>5, Zenon DEF Plain
<1>14. jobAsked.trackers = jobRest.trackers /\ jobRest.trackers = execute_job(in).trackers
  <2>1. "trackers" \notin DOMAIN Plain(settings, NoSettings)
    BY DEF Plain
  <2>2. "trackers" \in DOMAIN jobRest
    OBVIOUS
  <2>3. jobAsked.trackers = jobRest.trackers
    <3> HIDE DEF jobRest
    <3> QED
      BY <2>1, <2>2 DEF Over
  <2>4. jobRest.trackers = Found(in, "trackers", <<>>)
    BY ResolvedRight, Zenon DEF settings
  <2>5. execute_job(in).trackers = Found(in, "trackers", <<>>)
    <3>1. JobFields(in, execute_job(in), settings,
                    RuleFor(LoadedRules(in.rules_file), execute_job(in).trackers))
      BY JobRight, Zenon DEF settings
    <3> QED
      BY <3>1, Zenon DEF JobFields
  <2> QED
    BY <2>3, <2>4, <2>5
<1>15. rule.source = None /\ ~Constrained(rule.limits)
  BY <1>14, Zenon DEF NoRuleFor
<1>16. NoRule.source = None /\ ~Constrained(NoRule.limits)
  BY DEF NoRule, Constrained
<1>17. /\ JobRequest(settings).piece_size = AnsweredRequest(answers).piece_size
       /\ JobRequest(settings).target = AnsweredRequest(answers).target
  <2>1. /\ Sets(answers, "piece_size") =>
                answers["piece_size"] \in Allowed /\ answers["piece_size"] > 0
        /\ Sets(answers, "target_piece_count") => answers["target_piece_count"] > 0
    <3>1. /\ Sets(answers, "piece_size") => answers["piece_size"] \in Allowed
          /\ Sets(answers, "target_piece_count") => answers["target_piece_count"] > 0
      BY <1>4, Zenon DEF IsOrdinary, Setting
    <3> QED
      BY <3>1, NotUnset
  <2>2. 0 \notin Allowed /\ ~(0 > 0)
    BY NotUnset
  <2>3. /\ JobRequest(settings).piece_size
                = IF Setting(answers, "piece_size", 0) > 0
                  THEN Setting(answers, "piece_size", 0) ELSE Unset
        /\ JobRequest(settings).target = Setting(answers, "target_piece_count", Unset)
        /\ ~(Sets(answers, "piece_size") /\ Sets(answers, "target_piece_count"))
    BY <1>1, <1>3, Zenon DEF JobRequest
  <2>4. /\ AnsweredRequest(answers).piece_size
                = IF Setting(answers, "piece_size", 0) \in Allowed
                  THEN Setting(answers, "piece_size", 0) ELSE Unset
        /\ AnsweredRequest(answers).target
                = IF /\ Setting(answers, "piece_size", 0) \notin Allowed
                     /\ Setting(answers, "target_piece_count", 0) > 0
                  THEN Setting(answers, "target_piece_count", 0) ELSE Unset
    BY Zenon DEF AnsweredRequest
  <2> DEFINE kb == answers["piece_size"]
             number == answers["target_piece_count"]
  <2> HIDE DEF kb, number
  <2>5. Setting(answers, "piece_size", 0) = IF Sets(answers, "piece_size") THEN kb ELSE 0
    BY Zenon DEF Setting, kb
  <2>6. /\ Setting(answers, "target_piece_count", 0)
             = IF Sets(answers, "target_piece_count") THEN number ELSE 0
        /\ Setting(answers, "target_piece_count", Unset)
             = IF Sets(answers, "target_piece_count") THEN number ELSE Unset
    BY Zenon DEF Setting, number
  <2>7. /\ Sets(answers, "piece_size") => kb \in Allowed /\ kb > 0
        /\ Sets(answers, "target_piece_count") => number > 0
    BY <2>1, Zenon DEF kb, number
  <2> QED
    BY <2>2, <2>3, <2>4, <2>5, <2>6, <2>7, SMT
<1>18. asked = jobAsked
  <2> HIDE DEF given, rest, jobRest
  <2> QED
    BY <1>12, <1>13
<1> HIDE DEF asked, jobAsked, rule
<1>19. ChoosePieceSize(JobRequest(settings), rule.limits, in.measured, in.hashed)
         = ChoosePieceSize(AnsweredRequest(answers), NoRule.limits, in.measured, in.hashed)
  BY <1>15, <1>16, <1>17, Unconstrained
<1>20. Configured(jobAsked, JobRequest(settings), rule, in)
         = Configured(jobAsked, AnsweredRequest(answers), NoRule, in)
  BY <1>15, <1>16, <1>19, Zenon DEF Configured
<1> QED
  BY <1>1, <1>2, <1>18, <1>20, Zenon

--------------------------------------------------------------------------------
(* The trackers of a torrent. *)

LEMMA ElementsOfBoth ==
    ASSUME NEW T, NEW s \in Seq(T), NEW t \in Seq(T)
    PROVE  ToSet(s \o t) = ToSet(s) \cup ToSet(t)
<1> DEFINE m == Len(s)
           n == Len(t)
           u == s \o t
<1>1. m \in Nat /\ n \in Nat /\ DOMAIN s = 1..m /\ DOMAIN t = 1..n /\ DOMAIN u = 1..(m + n)
  OBVIOUS
<1>2. /\ \A i \in 1..m : u[i] = s[i]
      /\ \A i \in 1..n : u[m + i] = t[i]
  OBVIOUS
<1> HIDE DEF m, n, u
<1>3. ASSUME NEW i \in 1..(m + n)
      PROVE  i \in 1..m \/ \E j \in 1..n : i = m + j
  <2>1. i \notin 1..m => i - m \in 1..n /\ i = m + (i - m)
    BY <1>1
  <2> QED
    BY <2>1
<1>4. \A i \in 1..m : i \in 1..(m + n)
  BY <1>1
<1>5. \A i \in 1..n : m + i \in 1..(m + n)
  BY <1>1
<1>6. ToSet(u) \subseteq ToSet(s) \cup ToSet(t)
  <2> SUFFICES ASSUME NEW i \in 1..(m + n)
               PROVE  u[i] \in ToSet(s) \cup ToSet(t)
    BY <1>1 DEF ToSet
  <2>1. CASE i \in 1..m
    BY <1>1, <1>2, <2>1 DEF ToSet
  <2>2. CASE \E j \in 1..n : i = m + j
    BY <1>1, <1>2, <2>2 DEF ToSet
  <2> QED
    BY <1>3, <2>1, <2>2
<1>7. ToSet(s) \subseteq ToSet(u)
  BY <1>1, <1>2, <1>4 DEF ToSet
<1>8. ToSet(t) \subseteq ToSet(u)
  BY <1>1, <1>2, <1>5 DEF ToSet
<1> QED
  BY <1>6, <1>7, <1>8 DEF u

\* The URLs of a list are those of its tiers.
UrlsOf(tiers) == UNION {ToSet(tiers[i]) : i \in DOMAIN tiers}

LEMMA FlattenRight ==
    ASSUME NEW T, NEW s \in Seq(Seq(T))
    PROVE  FlattenSeq(s) \in Seq(T) /\ ToSet(FlattenSeq(s)) = UrlsOf(s)
<1> DEFINE N == Len(s)
           Step(it, i) == IF i = 1 THEN s[i] ELSE it[i - 1] \o s[i]
           iter == CHOOSE it : it = [i \in 1..Len(s) |-> Step(it, i)]
<1>1. N \in Nat /\ DOMAIN s = 1..N /\ \A i \in 1..N : s[i] \in Seq(T)
  OBVIOUS
<1>2. CASE N = 0
  <2>1. s = <<>> /\ FlattenSeq(s) = s
    BY <1>2 DEF FlattenSeq
  <2>2. <<>> \in Seq(T) /\ DOMAIN <<>> = {}
    OBVIOUS
  <2>3. ToSet(<<>>) = {} /\ UrlsOf(<<>>) = {}
    <3> DEFINE e == <<>>
    <3>1. DOMAIN e = {}
      OBVIOUS
    <3> HIDE DEF e
    <3>2. ToSet(e) = {} /\ UrlsOf(e) = {}
      BY <3>1 DEF ToSet, UrlsOf
    <3> QED
      BY <3>2 DEF e
  <2> QED
    BY <2>1, <2>2, <2>3
<1>3. CASE N # 0
  <2>1. FlattenSeq(s) = iter[N]
    BY <1>3, Zenon DEF FlattenSeq
  <2>2. \E it : it = [i \in 1..N |-> Step(it, i)]
    <3> DEFINE Good(n, it) == /\ it \in [1..n -> Seq(T)]
                              /\ \A i \in 1..n : it[i] = Step(it, i)
               S == {n \in Nat : n <= N => \E it : Good(n, it)}
    <3>1. 0 \in S
      <4> DEFINE it == [i \in 1..0 |-> <<>>]
      <4>1. Good(0, it)
        OBVIOUS
      <4> HIDE DEF Good, it
      <4> QED
        BY <4>1
    <3>2. ASSUME NEW n \in Nat, n \in S
          PROVE  n + 1 \in S
      <4> HIDE DEF Good, N
      <4> SUFFICES ASSUME n + 1 <= N
                   PROVE  \E it : Good(n + 1, it)
        OBVIOUS
      <4>1. PICK it : Good(n, it)
        BY <1>1, <3>2
      <4> DEFINE last == Step(it, n + 1)
                 more == [i \in 1..(n + 1) |-> IF i = n + 1 THEN last ELSE it[i]]
      <4>2. it \in [1..n -> Seq(T)] /\ \A i \in 1..n : it[i] = Step(it, i)
        BY <4>1 DEF Good
      <4>3. last \in Seq(T)
        <5>1. s[n + 1] \in Seq(T)
          BY <1>1
        <5>2. n + 1 # 1 => it[(n + 1) - 1] \in Seq(T)
          BY <4>2
        <5> QED
          BY <5>1, <5>2
      <4> HIDE DEF last
      <4>4. more \in [1..(n + 1) -> Seq(T)]
        BY <4>2, <4>3
      <4>5. ASSUME NEW i \in 1..(n + 1)
            PROVE  more[i] = Step(more, i)
        <5>1. i # 1 => more[i - 1] = it[i - 1]
          OBVIOUS
        <5>2. CASE i = n + 1
          BY <5>1, <5>2 DEF last
        <5>3. CASE i # n + 1
          <6>1. i \in 1..n /\ more[i] = it[i]
            BY <5>3
          <6> QED
            BY <4>2, <5>1, <6>1
        <5> QED
          BY <5>2, <5>3
      <4> HIDE DEF more, Step
      <4>6. Good(n + 1, more)
        BY <4>4, <4>5 DEF Good
      <4> QED
        BY <4>6
    <3> HIDE DEF S, N
    <3>3. N \in S
      BY <1>1, <3>1, <3>2, NatSetInduction
    <3> HIDE DEF Step
    <3>4. PICK it : Good(N, it)
      BY <1>1, <3>3 DEF S
    <3>5. it = [i \in 1..N |-> Step(it, i)]
      BY <3>4
    <3> QED
      BY <3>5
  <2>3. iter = [i \in 1..N |-> Step(iter, i)]
    BY <2>2, Zenon
  <2> HIDE DEF iter
  <2> DEFINE UrlsTo(k) == UNION {ToSet(s[i]) : i \in 1..k}
             Kept(k) == iter[k] \in Seq(T) /\ ToSet(iter[k]) = UrlsTo(k)
             K == {k \in Nat : k \in 1..N => Kept(k)}
  <2>4. 0 \in K
    OBVIOUS
  <2>5. ASSUME NEW k \in Nat, k \in K
        PROVE  k + 1 \in K
    <3> HIDE DEF N
    <3> SUFFICES ASSUME k + 1 \in 1..N
                 PROVE  Kept(k + 1)
      OBVIOUS
    <3>1. s[k + 1] \in Seq(T) /\ iter[k + 1] = Step(iter, k + 1)
      BY <1>1, <2>3
    <3>2. CASE k = 0
      <4>1. 1..(k + 1) = {k + 1} /\ iter[k + 1] = s[k + 1]
        BY <3>1, <3>2
      <4> QED
        BY <3>1, <4>1
    <3>3. CASE k # 0
      <4>1. k \in 1..N
        BY <1>1, <3>3
      <4>2. Kept(k)
        <5> HIDE DEF Kept
        <5> QED
          BY <2>5, <4>1
      <4>3. iter[k + 1] = iter[k] \o s[k + 1]
        <5>1. (k + 1) - 1 = k /\ k + 1 # 1
          BY <3>3
        <5> QED
          BY <3>1, <5>1, Zenon
      <4>4. ToSet(iter[k + 1]) = ToSet(iter[k]) \cup ToSet(s[k + 1])
        <5>1. iter[k] \in Seq(T)
          BY <4>2
        <5> DEFINE front == iter[k]
                   back  == s[k + 1]
        <5>2. front \in Seq(T) /\ back \in Seq(T)
          BY <3>1, <5>1
        <5> HIDE DEF front, back
        <5>3. ToSet(front \o back) = ToSet(front) \cup ToSet(back)
          BY <5>2, ElementsOfBoth
        <5> QED
          BY <4>3, <5>3, Zenon DEF front, back
      <4>5. 1..(k + 1) = (1..k) \cup {k + 1}
        OBVIOUS
      <4>6. UrlsTo(k + 1) = UrlsTo(k) \cup ToSet(s[k + 1])
        BY <4>5
      <4>7. iter[k + 1] \in Seq(T)
        BY <3>1, <4>2, <4>3
      <4> QED
        BY <4>2, <4>4, <4>6, <4>7
    <3> QED
      BY <3>2, <3>3
  <2>6. Kept(N)
    <3> HIDE DEF Kept, N
    <3>1. N \in K
      <4> HIDE DEF K
      <4> QED
        BY <1>1, <2>4, <2>5, NatSetInduction
    <3> QED
      BY <1>1, <1>3, <3>1
  <2> QED
    BY <1>1, <2>1, <2>6 DEF UrlsOf
<1> QED
  BY <1>2, <1>3

LEMMA SequenceOfValues ==
    ASSUME NEW T, NEW n \in Nat, NEW f \in [1..n -> T]
    PROVE  f \in Seq(T)
OBVIOUS

LEMMA UrlsOfElements ==
    ASSUME NEW tiers
    PROVE  UrlsOf(tiers) = UNION {ToSet(tier) : tier \in ToSet(tiers)}
<1>1. {ToSet(tier) : tier \in ToSet(tiers)} = {ToSet(tiers[i]) : i \in DOMAIN tiers}
  <2> DEFINE Set(x) == ToSet(x)
  <2> HIDE DEF Set
  <2>1. {Set(tier) : tier \in ToSet(tiers)} = {Set(tiers[i]) : i \in DOMAIN tiers}
    BY DEF ToSet
  <2> QED
    BY <2>1 DEF Set
<1> QED
  BY <1>1 DEF UrlsOf

\* Trackers whose URLs are in T.
IsTrackers(t, T) ==
    /\ t \in [announce : T \cup {None}, listed : BOOLEAN, tiers : Seq(Seq(T))]
    /\ ~t.listed => t.tiers = <<>>
    /\ None \notin T

\* The trackers that inspect shows of them.
Listed(t) == IF t.tiers # <<>> THEN UrlsOf(t.tiers) ELSE {t.announce} \ {None}

LEMMA FlattenElements ==
    ASSUME NEW T, NEW tiers \in Seq(Seq(T))
    PROVE  /\ ToSet(FlattenSeq(tiers)) = UrlsOf(tiers)
           /\ UrlsOf(tiers) \subseteq T
           /\ UrlsOf(tiers) # {} => /\ FlattenSeq(tiers) # <<>>
                                  /\ Head(FlattenSeq(tiers)) \in UrlsOf(tiers)
<1> DEFINE f == FlattenSeq(tiers)
<1>1. f \in Seq(T) /\ ToSet(f) = UrlsOf(tiers)
  BY FlattenRight
<1> HIDE DEF f
<1>2. ToSet(f) \subseteq T
  BY <1>1 DEF ToSet
<1>3. ASSUME f # <<>>
      PROVE  Head(f) \in ToSet(f)
  <2>1. Head(f) = f[1] /\ 1 \in DOMAIN f
    BY <1>1, <1>3
  <2> QED
    BY <2>1 DEF ToSet
<1>4. f = <<>> => ToSet(f) = {}
  BY <1>1 DEF ToSet
<1> QED
  BY <1>1, <1>2, <1>3, <1>4 DEF f

LEMMA ConsistentRight ==
    ASSUME NEW T, NEW t, IsTrackers(t, T)
    PROVE  Consistent(t) <=> (t.listed /\ t.announce # None => t.announce \in UrlsOf(t.tiers))
<1>1. t.tiers \in Seq(Seq(T))
  BY DEF IsTrackers
<1>2. ToSet(FlattenSeq(t.tiers)) = UrlsOf(t.tiers)
  BY <1>1, FlattenElements
<1> QED
  BY <1>2, Zenon DEF Consistent

\* The tiers that remain.
Remaining(T, tiers, urls, r) ==
    /\ r \in Seq(Seq(T))
    /\ UrlsOf(r) = UrlsOf(tiers) \ ToSet(urls)
    /\ r # <<>> => UrlsOf(r) # {}
    /\ tiers = <<>> => r = <<>>

LEMMA TiersRemoved ==
    ASSUME NEW T, NEW tiers \in Seq(Seq(T)), NEW urls \in Seq(T)
    PROVE  Remaining(T, tiers, urls, remove_url_from_tiers(tiers, urls))
<1> DEFINE n == Len(tiers)
           kept == [i \in DOMAIN tiers |-> Only(tiers[i], ToSet(tiers[i]) \ ToSet(urls))]
           r    == remove_url_from_tiers(tiers, urls)
<1>1. n \in Nat /\ DOMAIN tiers = 1..n /\ \A i \in 1..n : tiers[i] \in Seq(T)
  OBVIOUS
<1>2. ASSUME NEW i \in DOMAIN tiers
      PROVE  kept[i] \in Seq(T) /\ ToSet(kept[i]) = ToSet(tiers[i]) \ ToSet(urls)
  <2> DEFINE tier == tiers[i]
  <2>1. tier \in Seq(T)
    BY <1>1
  <2> HIDE DEF tier
  <2>2. /\ Only(tier, ToSet(tier) \ ToSet(urls)) \in Seq(T)
        /\ ToSet(Only(tier, ToSet(tier) \ ToSet(urls)))
                = ToSet(tier) \cap (ToSet(tier) \ ToSet(urls))
    BY <2>1, OnlyRight
  <2>3. kept[i] = Only(tier, ToSet(tier) \ ToSet(urls))
    BY DEF tier
  <2> HIDE DEF kept
  <2> QED
    BY <2>2, <2>3 DEF tier
<1>3. DOMAIN kept = DOMAIN tiers
  OBVIOUS
<1>4. r = Only(kept, ToSet(kept) \ {<<>>})
  BY Zenon DEF remove_url_from_tiers
<1>5. kept \in Seq(Seq(T)) /\ kept = [i \in 1..n |-> kept[i]]
  <2>1. kept \in [1..n -> Seq(T)]
    <3>1. kept = [i \in 1..n |-> kept[i]]
      BY <1>1
    <3> HIDE DEF kept
    <3> QED
      BY <1>1, <1>2, <3>1
  <2> HIDE DEF kept, n
  <2>2. kept = [i \in 1..n |-> kept[i]]
    BY <2>1
  <2> QED
    BY <1>1, <2>1, <2>2, SequenceOfValues
<1> HIDE DEF kept, n, r
<1>6. r \in Seq(Seq(T)) /\ ToSet(r) = ToSet(kept) \cap (ToSet(kept) \ {<<>>})
  <2> DEFINE U == Seq(T)
             some == ToSet(kept) \ {<<>>}
  <2>1. kept \in Seq(U)
    BY <1>5
  <2> HIDE DEF U, some
  <2>2. Only(kept, some) \in Seq(U) /\ ToSet(Only(kept, some)) = ToSet(kept) \cap some
    BY <2>1, OnlyRight
  <2> QED
    BY <1>4, <2>2, Zenon DEF U, some
<1>7. ASSUME NEW tier \in ToSet(r)
      PROVE  tier # <<>> /\ ToSet(tier) # {}
  <2>1. tier \in Seq(T) /\ tier # <<>>
    <3>1. \A i \in DOMAIN r : r[i] \in Seq(T)
      BY <1>6
    <3>2. \E i \in DOMAIN r : tier = r[i]
      BY DEF ToSet
    <3>3. tier # <<>>
      BY <1>6
    <3> QED
      BY <3>1, <3>2, <3>3
  <2>2. 1 \in DOMAIN tier
    BY <2>1
  <2> QED
    BY <2>1, <2>2 DEF ToSet
<1>8. ToSet(<<>>) = {}
  BY DEF ToSet
<1>9. UrlsOf(r) = UrlsOf(kept)
  <2>1. UNION {ToSet(tier) : tier \in ToSet(r)} = UNION {ToSet(tier) : tier \in ToSet(kept)}
    BY <1>6, <1>8
  <2> QED
    BY <2>1, UrlsOfElements
<1>10. UrlsOf(kept) = UrlsOf(tiers) \ ToSet(urls)
  BY <1>2, <1>3 DEF UrlsOf
<1>11. r # <<>> => UrlsOf(r) # {}
  <2> SUFFICES ASSUME r # <<>>
               PROVE  UrlsOf(r) # {}
    OBVIOUS
  <2>1. 1 \in DOMAIN r
    BY <1>6
  <2>2. r[1] \in ToSet(r)
    BY <2>1 DEF ToSet
  <2>3. ToSet(r[1]) # {}
    BY <1>7, <2>2
  <2> QED
    BY <2>1, <2>3 DEF UrlsOf
<1>12. tiers = <<>> => r = <<>>
  <2> SUFFICES ASSUME tiers = <<>>
               PROVE  r = <<>>
    OBVIOUS
  <2>1. UrlsOf(tiers) = {}
    BY DEF UrlsOf
  <2> QED
    BY <1>9, <1>10, <1>11, <2>1
<1> QED
  BY <1>6, <1>9, <1>10, <1>11, <1>12 DEF Remaining, r

\* What remains of trackers are those not removed.
LEMMA TrackersRemoved ==
    ASSUME NEW T, NEW t, IsTrackers(t, T), NEW urls \in Seq(T),
           NEW r, r = remove_trackers(t, urls)
    PROVE  /\ IsTrackers(r, T)
           /\ Consistent(t) => Consistent(r) /\ Listed(r) = Listed(t) \ ToSet(urls)
<1>1. CASE urls = <<>>
  <2>1. r = t
    BY <1>1, Zenon DEF remove_trackers
  <2>2. ToSet(urls) = {}
    BY <1>1 DEF ToSet
  <2> QED
    BY <2>1, <2>2
<1>2. CASE urls # <<>>
  <2> DEFINE tiers == remove_url_from_tiers(t.tiers, urls)
             alone == IF t.announce \in ToSet(urls) THEN None ELSE t.announce
             head  == HeadOr(FlattenSeq(tiers), None)
  <2>1. /\ t.tiers \in Seq(Seq(T)) /\ t.announce \in T \cup {None} /\ None \notin T
        /\ ~t.listed => t.tiers = <<>>
    BY DEF IsTrackers
  <2>2. ToSet(urls) \subseteq T
    BY DEF ToSet
  <2>3. /\ tiers \in Seq(Seq(T))
        /\ UrlsOf(tiers) = UrlsOf(t.tiers) \ ToSet(urls)
        /\ tiers # <<>> => UrlsOf(tiers) # {}
        /\ t.tiers = <<>> => tiers = <<>>
    <3>1. t.tiers \in Seq(Seq(T))
      BY <2>1
    <3>2. Remaining(T, t.tiers, urls, tiers)
      BY <3>1, TiersRemoved
    <3> QED
      BY <3>2 DEF Remaining
  <2>4. r = [announce |-> IF t.listed THEN head ELSE alone,
             listed |-> tiers # <<>>, tiers |-> tiers]
    BY <1>2, Zenon DEF remove_trackers, Trackers
  <2> HIDE DEF tiers
  <2>5. /\ tiers # <<>> => head \in UrlsOf(tiers)
        /\ UrlsOf(tiers) \subseteq T
        /\ tiers = <<>> => head = None /\ UrlsOf(tiers) = {}
    <3>1. tiers # <<>> => head \in UrlsOf(tiers)
      BY <2>3, FlattenElements DEF HeadOr
    <3>2. tiers = <<>> => head = None
      BY DEF FlattenSeq, HeadOr
    <3>3. tiers = <<>> => UrlsOf(tiers) = {}
      BY DEF UrlsOf
    <3> QED
      BY <2>3, <3>1, <3>2, <3>3, FlattenElements
  <2> HIDE DEF head
  <2>6. /\ r.announce = (IF t.listed THEN head ELSE alone)
        /\ r.listed = (tiers # <<>>) /\ r.tiers = tiers
    BY <2>4
  <2>7. IsTrackers(r, T)
    <3>1. (IF t.listed THEN head ELSE alone) \in T \cup {None}
      BY <2>1, <2>5
    <3>2. ~r.listed => r.tiers = <<>>
      BY <2>6
    <3> QED
      BY <2>1, <2>3, <2>4, <3>1, <3>2 DEF IsTrackers
  <2>8. Consistent(r)
    <3>1. r.listed => r.announce \in UrlsOf(r.tiers)
      BY <2>1, <2>3, <2>5, <2>6
    <3> QED
      BY <2>7, <3>1, ConsistentRight
  <2>9. ASSUME Consistent(t)
        PROVE  Listed(r) = Listed(t) \ ToSet(urls)
    <3>1. t.listed /\ t.announce # None => t.announce \in UrlsOf(t.tiers)
      BY <2>9, ConsistentRight
    <3>2. Listed(r) = IF tiers # <<>> THEN UrlsOf(tiers) ELSE {r.announce} \ {None}
      BY <2>6 DEF Listed
    <3>3. t.tiers = <<>> => UrlsOf(t.tiers) = {}
      BY DEF UrlsOf
    <3>4. CASE t.listed
      BY <2>3, <2>5, <2>6, <3>1, <3>2, <3>3, <3>4 DEF Listed
    <3>5. CASE ~t.listed
      <4>1. tiers = <<>> /\ t.tiers = <<>>
        BY <2>1, <2>3, <3>5
      <4>2. r.announce = alone
        BY <2>6, <3>5
      <4> QED
        BY <2>1, <2>2, <3>2, <4>1, <4>2 DEF Listed
    <3> QED
      BY <3>4, <3>5
  <2> QED
    BY <2>7, <2>8, <2>9
<1> QED
  BY <1>1, <1>2

LEMMA TrackersRebuilt ==
    ASSUME NEW T, None \notin T, NEW urls \in Seq(T), NEW r, r = rebuild_trackers(urls)
    PROVE  IsTrackers(r, T) /\ Consistent(r) /\ Listed(r) = ToSet(urls)
<1> DEFINE n     == Len(urls)
           tiers == [i \in DOMAIN urls |-> <<urls[i]>>]
           head  == HeadOr(urls, None)
<1>1. n \in Nat /\ DOMAIN urls = 1..n /\ \A i \in 1..n : urls[i] \in T
  OBVIOUS
<1>2. r = [announce |-> head, listed |-> tiers # <<>>, tiers |-> tiers]
  BY Zenon DEF rebuild_trackers, Trackers
<1>3. tiers \in Seq(Seq(T))
  <2>1. \A i \in 1..n : <<urls[i]>> \in Seq(T)
    BY <1>1
  <2>2. tiers \in [1..n -> Seq(T)]
    BY <1>1, <2>1
  <2> HIDE DEF tiers, n
  <2> QED
    BY <1>1, <2>2, SequenceOfValues
<1>4. UrlsOf(tiers) = ToSet(urls)
  <2>1. \A i \in 1..n : ToSet(<<urls[i]>>) = {urls[i]}
    BY DEF ToSet
  <2>2. UrlsOf(tiers) = UNION {{urls[i]} : i \in 1..n}
    <3>1. DOMAIN tiers = 1..n /\ \A i \in 1..n : tiers[i] = <<urls[i]>>
      BY <1>1
    <3> HIDE DEF tiers, n
    <3> QED
      BY <2>1, <3>1 DEF UrlsOf
  <2> HIDE DEF tiers, n
  <2>3. ToSet(urls) = {urls[i] : i \in 1..n}
    BY <1>1 DEF ToSet
  <2> QED
    BY <2>2, <2>3
<1>5. tiers = <<>> <=> urls = <<>>
  <2>1. DOMAIN tiers = 1..n
    BY <1>1
  <2>2. urls = <<>> <=> n = 0
    OBVIOUS
  <2>3. tiers = <<>> <=> DOMAIN tiers = {}
    <3> HIDE DEF tiers
    <3> QED
      BY <1>3
  <2> HIDE DEF tiers, n
  <2> QED
    BY <1>1, <2>1, <2>2, <2>3
<1> HIDE DEF tiers
<1>6. /\ urls # <<>> => head \in ToSet(urls) /\ head \in T
      /\ urls = <<>> => head = None
  <2>1. urls # <<>> => 1 \in DOMAIN urls /\ Head(urls) = urls[1]
    OBVIOUS
  <2> QED
    BY <1>1, <2>1 DEF HeadOr, ToSet
<1> HIDE DEF head
<1>7. r.announce = head /\ r.listed = (tiers # <<>>) /\ r.tiers = tiers
  BY <1>2
<1>8. IsTrackers(r, T)
  BY <1>2, <1>3, <1>6, <1>7 DEF IsTrackers
<1>9. Consistent(r)
  <2>1. r.listed => r.announce \in UrlsOf(r.tiers)
    BY <1>4, <1>5, <1>6, <1>7
  <2> QED
    BY <1>8, <2>1, ConsistentRight
<1>10. Listed(r) = ToSet(urls)
  <2>1. urls = <<>> => ToSet(urls) = {}
    BY DEF ToSet
  <2> QED
    BY <1>4, <1>5, <1>6, <1>7, <2>1 DEF Listed
<1> QED
  BY <1>8, <1>9, <1>10

LEMMA TiersAdded ==
    ASSUME NEW T, NEW tiers \in Seq(Seq(T)), tiers # <<>>, NEW urls \in Seq(T)
    PROVE  /\ [tiers EXCEPT ![Len(tiers)] = @ \o urls] \in Seq(Seq(T))
           /\ UrlsOf([tiers EXCEPT ![Len(tiers)] = @ \o urls]) = UrlsOf(tiers) \cup ToSet(urls)
           /\ [tiers EXCEPT ![Len(tiers)] = @ \o urls] # <<>>
<1> DEFINE n    == Len(tiers)
           more == [tiers EXCEPT ![Len(tiers)] = @ \o urls]
           last == tiers[n]
<1>1. n \in Nat /\ n \in 1..n /\ DOMAIN tiers = 1..n /\ \A i \in 1..n : tiers[i] \in Seq(T)
  OBVIOUS
<1>2. more = [i \in 1..n |-> IF i = n THEN last \o urls ELSE tiers[i]]
  <2>1. tiers = [i \in 1..n |-> tiers[i]]
    OBVIOUS
  <2> QED
    BY <1>1, <2>1
<1> HIDE DEF more, n
<1>3. last \in Seq(T)
  BY <1>1
<1>4. last \o urls \in Seq(T) /\ ToSet(last \o urls) = ToSet(last) \cup ToSet(urls)
  <2> HIDE DEF last
  <2> QED
    BY <1>3, ElementsOfBoth
<1>5. more \in [1..n -> Seq(T)]
  BY <1>1, <1>2, <1>4
<1>6. more \in Seq(Seq(T))
  BY <1>1, <1>5, SequenceOfValues
<1>7. UrlsOf(more) = UrlsOf(tiers) \cup ToSet(urls)
  <2>1. /\ UrlsOf(more) = UNION {ToSet(more[i]) : i \in 1..n}
        /\ UrlsOf(tiers) = UNION {ToSet(tiers[i]) : i \in 1..n}
    BY <1>1, <1>2 DEF UrlsOf
  <2>2. ToSet(more[n]) = ToSet(tiers[n]) \cup ToSet(urls)
    BY <1>1, <1>2, <1>4
  <2>3. \A i \in 1..n : i # n => ToSet(more[i]) = ToSet(tiers[i])
    BY <1>2
  <2> HIDE DEF last
  <2> QED
    BY <1>1, <2>1, <2>2, <2>3
<1>8. more # <<>>
  <2>1. DOMAIN more # {}
    BY <1>1, <1>2
  <2> QED
    BY <2>1
<1> QED
  BY <1>6, <1>7, <1>8 DEF more, n

\* The new URLs are among the trackers, beside those that were there.
LEMMA TrackersAdded ==
    ASSUME NEW T, NEW t, IsTrackers(t, T), NEW urls \in Seq(T),
           NEW r, r = add_trackers(t, urls)
    PROVE  /\ IsTrackers(r, T)
           /\ Consistent(t) => Consistent(r) /\ Listed(r) = Listed(t) \cup ToSet(urls)
<1>1. CASE urls = <<>>
  <2>1. r = t
    BY <1>1, Zenon DEF add_trackers
  <2>2. ToSet(urls) = {}
    BY <1>1 DEF ToSet
  <2> QED
    BY <2>1, <2>2
<1>2. CASE urls # <<>>
  <2> DEFINE first    == IF t.listed \/ t.announce = None THEN <<>> ELSE <<t.announce>>
             announce == IF t.announce = None THEN Head(urls) ELSE t.announce
             tiers    == IF t.tiers = <<>> THEN <<first \o urls>>
                         ELSE [t.tiers EXCEPT ![Len(t.tiers)] = @ \o urls]
  <2>1. /\ t.tiers \in Seq(Seq(T)) /\ t.announce \in T \cup {None} /\ None \notin T
        /\ ~t.listed => t.tiers = <<>>
    BY DEF IsTrackers
  <2>2. r = [announce |-> announce, listed |-> tiers # <<>>, tiers |-> tiers]
    BY <1>2, Zenon DEF add_trackers, Trackers
  <2>3. Head(urls) \in T /\ Head(urls) \in ToSet(urls) /\ ToSet(urls) \subseteq T
    <3>1. 1 \in DOMAIN urls /\ Head(urls) = urls[1] /\ \A i \in DOMAIN urls : urls[i] \in T
      BY <1>2
    <3> QED
      BY <3>1 DEF ToSet
  <2>4. first \in Seq(T)
        /\ ToSet(first) = IF t.listed \/ t.announce = None THEN {} ELSE {t.announce}
    BY <2>1 DEF ToSet
  <2>5. /\ tiers \in Seq(Seq(T)) /\ tiers # <<>>
        /\ t.tiers = <<>> => UrlsOf(tiers) = ToSet(first) \cup ToSet(urls)
        /\ t.tiers # <<>> => UrlsOf(tiers) = UrlsOf(t.tiers) \cup ToSet(urls)
    <3>1. CASE t.tiers = <<>>
      <4> DEFINE tier == first \o urls
      <4> HIDE DEF first
      <4>1. tier \in Seq(T) /\ ToSet(tier) = ToSet(first) \cup ToSet(urls)
        BY <2>4, ElementsOfBoth
      <4> HIDE DEF tier
      <4>2. /\ <<tier>> \in Seq(Seq(T)) /\ <<tier>> # <<>> /\ UrlsOf(<<tier>>) = ToSet(tier)
        BY <4>1 DEF UrlsOf
      <4>3. tiers = <<tier>>
        BY <3>1, Zenon DEF tier
      <4> HIDE DEF tiers
      <4> QED
        BY <3>1, <4>1, <4>2, <4>3
    <3>2. CASE t.tiers # <<>>
      <4> DEFINE had == t.tiers
      <4>1. had \in Seq(Seq(T)) /\ had # <<>>
        BY <2>1, <3>2
      <4>2. tiers = [had EXCEPT ![Len(had)] = @ \o urls]
        BY <3>2, Zenon
      <4> HIDE DEF had, tiers
      <4>3. tiers \in Seq(Seq(T)) /\ UrlsOf(tiers) = UrlsOf(had) \cup ToSet(urls) /\ tiers # <<>>
        BY <4>1, <4>2, TiersAdded
      <4> QED
        BY <3>2, <4>3 DEF had
    <3> QED
      BY <3>1, <3>2
  <2> HIDE DEF tiers, first
  <2>6. announce \in T
    BY <2>1, <2>3
  <2>7. announce = IF t.announce = None THEN Head(urls) ELSE t.announce
    OBVIOUS
  <2> HIDE DEF announce
  <2>8. r.announce = announce /\ r.listed = (tiers # <<>>) /\ r.tiers = tiers
    BY <2>2
  <2>9. IsTrackers(r, T)
    BY <2>1, <2>2, <2>5, <2>6, <2>8 DEF IsTrackers
  <2>10. ASSUME Consistent(t)
         PROVE  Consistent(r) /\ Listed(r) = Listed(t) \cup ToSet(urls)
    <3>1. t.listed /\ t.announce # None => t.announce \in UrlsOf(t.tiers)
      BY <2>10, ConsistentRight
    <3>2. t.tiers = <<>> => UrlsOf(t.tiers) = {}
      BY DEF UrlsOf
    <3>3. Listed(t) = IF t.tiers # <<>> THEN UrlsOf(t.tiers) ELSE {t.announce} \ {None}
      BY DEF Listed
    <3>4. UrlsOf(tiers) = Listed(t) \cup ToSet(urls)
      BY <2>1, <2>4, <2>5, <3>1, <3>2, <3>3
    <3>5. announce \in UrlsOf(tiers)
      BY <2>1, <2>3, <2>4, <2>5, <2>7, <3>1, <3>2
    <3>6. Consistent(r)
      BY <2>8, <2>9, <3>5, ConsistentRight
    <3> QED
      BY <2>5, <2>8, <3>4, <3>6 DEF Listed
  <2> QED
    BY <2>9, <2>10
<1> QED
  BY <1>1, <1>2

LEMMA TrackersGenerated ==
    ASSUME NEW T, None \notin T, NEW urls \in Seq(T)
    PROVE  IsTrackers(GeneratedTrackers(urls), T)
<1> DEFINE once == WithNew(<<>>, urls)
<1>1. once \in Seq(T)
  <2>1. <<>> \in Seq(T)
    OBVIOUS
  <2> QED
    BY <2>1, NewRight
<1> HIDE DEF once
<1>2. CASE Len(once) > 1
  <2>1. GeneratedTrackers(urls) = rebuild_trackers(once)
    BY <1>2, Zenon DEF GeneratedTrackers, once
  <2> QED
    BY <1>1, <2>1, TrackersRebuilt
<1>3. CASE ~(Len(once) > 1)
  <2> DEFINE head == HeadOr(once, None)
  <2>1. GeneratedTrackers(urls) = [announce |-> head, listed |-> FALSE, tiers |-> <<>>]
    BY <1>3, Zenon DEF GeneratedTrackers, once
  <2>2. head \in T \cup {None}
    BY <1>1 DEF HeadOr
  <2>3. <<>> \in Seq(Seq(T))
    OBVIOUS
  <2> HIDE DEF head
  <2> QED
    BY <2>1, <2>2, <2>3 DEF IsTrackers
<1> QED
  BY <1>2, <1>3

LEMMA TrackersAsSet ==
    ASSUME NEW t
    PROVE  IsTrackers(t, STRING) <=> t \in TorrentTrackers
BY TrackerAssumption DEF IsTrackers, TorrentTrackers

\* What a configuration has for trackers is a list of URLs, whoever makes it.
LEMMA JobUrls ==
    ASSUME NEW in, IsInput(in), NEW c, c = execute_job(in), ~c.refused
    PROVE  c.trackers \in Seq(STRING)
<1> DEFINE settings == ResolvedJob(LoadedPresets(in.preset_file), in)
           rule == RuleFor(LoadedRules(in.rules_file), c.trackers)
<1>1. JobFields(in, c, settings, rule)
  BY JobRight, Zenon
<1>2. IsSettings(in.values) /\ IsSettings(PresetOf(in))
  BY <1>1, PresetTyped, Zenon DEF IsInput, JobFields
<1>3. /\ Setting(in.values, "trackers", <<>>) \in Seq(STRING)
      /\ Setting(PresetOf(in), "trackers", <<>>) \in Seq(STRING)
  BY <1>2 DEF IsSettings
<1>4. Found(in, "trackers", <<>>) \in Seq(STRING)
  BY <1>1, <1>3, FoundTyped, Zenon DEF JobFields
<1> QED
  BY <1>1, <1>4, Zenon DEF JobFields

LEMMA CommandUrls ==
    ASSUME NEW in, IsInput(in), DefaultTrackers \in Seq(STRING),
           NEW c, c = get_commandline_config(in), ~c.refused
    PROVE  c.trackers \in Seq(STRING)
<1> DEFINE flags == in.values
           preset == PresetOf(in)
           rules == IF LoadedRules(in.rules_file).complete
                    THEN LoadedRules(in.rules_file) ELSE NoRules
           rule == RuleFor(rules, c.trackers)
<1>1. CommandFields(in, c, flags, preset, rule)
  <2> HIDE DEF rules
  <2> QED
    BY CommandRight, Zenon DEF rules
<1>2. IsSettings(flags) /\ IsSettings(preset)
  BY <1>1, PresetTyped, Zenon DEF IsInput, CommandFields
<1> HIDE DEF flags, preset, rule
<1>3. /\ Setting(flags, "trackers", <<>>) \in Seq(STRING)
      /\ Sets(preset, "trackers") => preset["trackers"] \in Seq(STRING)
  BY <1>2 DEF IsSettings, Setting
<1>4. \A s, t \in Seq(STRING) : s \o t \in Seq(STRING)
  OBVIOUS
<1>5. <<>> \in Seq(STRING)
  OBVIOUS
<1>6. ChosenTrackers(flags, preset) \in Seq(STRING)
  BY <1>3, <1>4, <1>5, Zenon DEF ChosenTrackers
<1> QED
  BY <1>1, <1>6, Zenon DEF CommandFields

LEMMA QuestionsUrls ==
    ASSUME NEW in, IsInput(in), DefaultTrackers \in Seq(STRING),
           NEW c, c = get_interactive_config(in)
    PROVE  c.trackers \in Seq(STRING)
<1> DEFINE answers == in.values
           custom  == Setting(answers, "trackers", <<>>)
           texts   == [web_seeds |-> Only(Setting(answers, "web_seeds", <<>>), DOMAIN DomainOf),
                       comment   |-> prompt_optional_string(answers, "comment"),
                       name      |-> IF Setting(answers, "name", "") = " " THEN None
                                     ELSE prompt_optional_string(answers, "name")]
           given   == Over(texts, answers)
           rest ==
             [source   |-> prompt_optional_string(answers, "source"),
              trackers |-> AnsweredTrackers(answers),
              version  |-> resolve_version(Setting(answers, "torrent_version", 3)),
              creator  |-> IF Sets(answers, "no_creator") THEN None ELSE TheCreator,
              include_creation_date |-> ~Sets(answers, "no_date")]
<1>1. c = Configured(Over(Plain(given, NoSettings), rest), AnsweredRequest(answers), NoRule, in)
  BY Zenon DEF get_interactive_config
<1>2. /\ DOMAIN rest = {"source", "trackers", "version", "creator", "include_creation_date"}
      /\ rest.trackers = AnsweredTrackers(answers)
  OBVIOUS
<1> HIDE DEF given, rest
<1>3. MadeOf(c, given, NoSettings, rest, AnsweredRequest(answers), NoRule, in)
  BY <1>1, <1>2, ConfiguredRight, Zenon
<1>4. c.trackers = AnsweredTrackers(answers)
  BY <1>2, <1>3, Zenon DEF MadeOf
<1>5. custom \in Seq(STRING)
  BY DEF IsInput, IsSettings
<1>6. AnsweredTrackers(answers)
        = WithNew(IF Sets(answers, "default_trackers") THEN DefaultTrackers ELSE <<>>,
                  Only(custom, DOMAIN DomainOf))
  BY Zenon DEF AnsweredTrackers
<1> HIDE DEF custom, answers
<1>7. Only(custom, DOMAIN DomainOf) \in Seq(STRING)
  BY <1>5, OnlyRight
<1>8. (IF Sets(answers, "default_trackers") THEN DefaultTrackers ELSE <<>>) \in Seq(STRING)
  <2>1. <<>> \in Seq(STRING)
    OBVIOUS
  <2> QED
    BY <2>1
<1> QED
  BY <1>4, <1>6, <1>7, <1>8, NewRight, Zenon

\* What edits need of a torrent.
Shaped(t) ==
    /\ {"trackers", "comment", "info"} \subseteq DOMAIN t
    /\ t.trackers \in TorrentTrackers
    /\ t.info = [key \in DOMAIN t.info |-> t.info[key]]

LEMMA MetainfoShaped ==
    ASSUME NEW t \in TorrentMetainfo
    PROVE  Shaped(t)
<1>1. t.info \in Infos /\ t.trackers \in TorrentTrackers
  BY DEF TorrentMetainfo
<1>2. t.info = [key \in DOMAIN t.info |-> t.info[key]]
  BY <1>1 DEF Infos
<1>3. {"trackers", "comment", "info"} \subseteq DOMAIN t
  BY DEF TorrentMetainfo
<1> QED
  BY <1>1, <1>2, <1>3 DEF Shaped

LEMMA CreatedShaped ==
    ASSUME NEW config, config.trackers \in Seq(STRING)
    PROVE  Shaped(create_torrent(config))
<1> DEFINE t == create_torrent(config)
<1>1. t.trackers = GeneratedTrackers(config.trackers)
  BY DEF create_torrent
<1>2. GeneratedTrackers(config.trackers) \in TorrentTrackers
  BY TrackersGenerated, TrackersAsSet, TrackerAssumption
<1>3. t.info = [key \in DOMAIN t.info |-> t.info[key]]
  BY DEF create_torrent
<1>4. {"trackers", "comment", "info"} \subseteq DOMAIN t
  BY DEF create_torrent
<1> QED
  BY <1>1, <1>2, <1>3, <1>4 DEF Shaped

\* The trackers after an edit are consistent if they were, without the removed URLs and
\* with the added ones.
Asked(options, had, has) ==
    Consistent(had) =>
        /\ Consistent(has)
        /\ Listed(has) =
             IF Sets(options, "tracker") THEN ToSet(Setting(options, "tracker", <<>>))
             ELSE (Listed(had) \ ToSet(Setting(options, "remove_tracker", <<>>)))
                    \cup ToSet(Setting(options, "add_tracker", <<>>))

\* Options that are not about the info dictionary leave it as it is.
LEMMA InfoEdited ==
    ASSUME NEW old, old = [key \in DOMAIN old |-> old[key]], NEW o,
           NEW info, info = EditedInfo(old, o)
    PROVE  /\ info = [key \in DOMAIN info |-> info[key]]
           /\ DOMAIN o \cap InfoOptions = {} => info = old
<1> DEFINE private == CASE Sets(o, "private") -> 1
                        [] Sets(o, "public") -> 0
                        [] OTHER -> old.private
           source  == Edited(o, "source", old.source)
           name    == Setting(o, "name", old.name)
           entropy == IF Sets(o, "entropy") THEN Drawn(old.entropy) ELSE old.entropy
           changed == [old EXCEPT !.private = private, !.source = source,
                                  !.name = name, !.entropy = entropy]
<1>1. info = InfoBytes(changed, o)
  BY Zenon DEF EditedInfo
<1> HIDE DEF private, source, name, entropy
<1>2. changed = [key \in DOMAIN changed |-> changed[key]]
  OBVIOUS
<1>3. ASSUME DOMAIN o \cap InfoOptions = {}
      PROVE  info = old
  <2>1. /\ ~Sets(o, "private") /\ ~Sets(o, "public") /\ ~Sets(o, "source")
        /\ ~Sets(o, "name") /\ ~Sets(o, "entropy")
    BY <1>3 DEF InfoOptions, Sets
  <2>2. /\ private = old.private /\ source = old.source
        /\ name = old.name /\ entropy = old.entropy
    BY <2>1, Zenon DEF private, source, name, entropy, Edited, Setting
  <2>3. changed = old
    BY <2>2
  <2> HIDE DEF changed
  <2>4. info = changed
    BY <1>1, <1>3, Zenon DEF InfoBytes, InfoOptions
  <2> QED
    BY <2>3, <2>4
<1> HIDE DEF changed
<1>4. info = changed \/ info = [changed EXCEPT !.form = "sorted"]
  BY <1>1, Zenon DEF InfoBytes
<1> QED
  BY <1>2, <1>3, <1>4

\* All that an edit does to the trackers, and all that it may do to the info.
LEMMA ModifiedRight ==
    ASSUME NEW t, Shaped(t), NEW o,
           \A key \in {"tracker", "add_tracker", "remove_tracker"} :
                Setting(o, key, <<>>) \in Seq(STRING),
           NEW r, r = apply_modifications(t, o)
    PROVE  /\ Shaped(r)
           /\ Asked(o, t.trackers, r.trackers)
           /\ DOMAIN o \cap InfoOptions = {} => r.info = t.info
<1> DEFINE had     == t.trackers
           removed == remove_trackers(had, Setting(o, "remove_tracker", <<>>))
           edited  == IF Sets(o, "tracker") THEN rebuild_trackers(o["tracker"])
                      ELSE add_trackers(removed, Setting(o, "add_tracker", <<>>))
           info    == EditedInfo(t.info, o)
           comment == Edited(o, "comment", t.comment)
<1>1. r = [t EXCEPT !.trackers = edited, !.comment = comment, !.info = info]
  BY Zenon DEF apply_modifications
<1>2. {"trackers", "comment", "info"} \subseteq DOMAIN t
  BY DEF Shaped
<1> HIDE DEF edited, comment, info
<1>3. r.trackers = edited /\ r.info = info /\ DOMAIN r = DOMAIN t
  BY <1>1, <1>2
<1>4. /\ Setting(o, "tracker", <<>>) \in Seq(STRING)
      /\ Setting(o, "add_tracker", <<>>) \in Seq(STRING)
      /\ Setting(o, "remove_tracker", <<>>) \in Seq(STRING)
  OBVIOUS
<1>5. IsTrackers(had, STRING)
  BY TrackersAsSet DEF Shaped
<1> HIDE DEF had
<1>6. IsTrackers(edited, STRING) /\ Asked(o, had, edited)
  <2>1. CASE Sets(o, "tracker")
    <3>1. o["tracker"] = Setting(o, "tracker", <<>>)
      BY <2>1 DEF Setting
    <3>2. edited = rebuild_trackers(Setting(o, "tracker", <<>>))
      BY <2>1, <3>1, Zenon DEF edited
    <3>3. /\ IsTrackers(edited, STRING) /\ Consistent(edited)
          /\ Listed(edited) = ToSet(Setting(o, "tracker", <<>>))
      BY <1>4, <3>2, TrackersRebuilt, TrackerAssumption
    <3> QED
      BY <2>1, <3>3, Zenon DEF Asked
  <2>2. CASE ~Sets(o, "tracker")
    <3>1. /\ IsTrackers(removed, STRING)
          /\ Consistent(had) =>
                /\ Consistent(removed)
                /\ Listed(removed) = Listed(had) \ ToSet(Setting(o, "remove_tracker", <<>>))
      BY <1>4, <1>5, TrackersRemoved
    <3>2. edited = add_trackers(removed, Setting(o, "add_tracker", <<>>))
      BY <2>2, Zenon DEF edited
    <3> HIDE DEF removed
    <3>3. /\ IsTrackers(edited, STRING)
          /\ Consistent(removed) =>
                /\ Consistent(edited)
                /\ Listed(edited) = Listed(removed) \cup ToSet(Setting(o, "add_tracker", <<>>))
      BY <1>4, <3>1, <3>2, TrackersAdded
    <3> QED
      BY <2>2, <3>1, <3>3, Zenon DEF Asked
  <2> QED
    BY <2>1, <2>2
<1>7. t.info = [key \in DOMAIN t.info |-> t.info[key]]
  BY DEF Shaped
<1>8. /\ info = [key \in DOMAIN info |-> info[key]]
      /\ DOMAIN o \cap InfoOptions = {} => info = t.info
  BY <1>7, InfoEdited DEF info
<1> QED
  BY <1>2, <1>3, <1>6, <1>8, TrackersAsSet DEF Shaped, had

LEMMA ShownAreListed ==
    ASSUME NEW t, Shaped(t)
    PROVE  Shown(t) = Listed(t.trackers)
<1>1. t.trackers.tiers \in Seq(Seq(STRING))
  BY TrackersAsSet DEF Shaped, IsTrackers
<1>2. ToSet(FlattenSeq(t.trackers.tiers)) = UrlsOf(t.trackers.tiers)
  BY <1>1, FlattenElements
<1>3. Shown(t) = TrackersOf(t)
  BY DEF Shown, inspect
<1> QED
  BY <1>2, <1>3, Zenon DEF TrackersOf, Listed

--------------------------------------------------------------------------------
(* The files of a content. *)

Sized(t) == t.files \in Seq([size : Nat, pad : BOOLEAN])

\* Files follow each other.
Laid(t) ==
    LET n == Len(t.files)
    IN  /\ n \in Nat /\ DOMAIN t.files = 1..n
        /\ FileStart(t, 1) = 0
        /\ \A i \in 1..(n + 1) : FileStart(t, i) \in Nat
        /\ \A i \in 1..n : /\ FileEnd(t, i) = FileStart(t, i + 1)
                           /\ FileStart(t, i) <= FileEnd(t, i)
                           /\ t.files[i].pad \in BOOLEAN
        /\ TotalSize(t) = FileStart(t, n + 1)

LEMMA ValuesOfSequence ==
    ASSUME NEW T, NEW s \in Seq(T)
    PROVE  Len(s) \in Nat /\ DOMAIN s = 1..Len(s) /\ \A i \in 1..Len(s) : s[i] \in T
OBVIOUS

LEMMA FilesLaid ==
    ASSUME NEW t, Sized(t)
    PROVE  Laid(t)
<1> DEFINE files == t.files
           n == Len(files)
           Step(it, j) == IF j = 1 THEN 0 ELSE it[j - 1] + files[j - 1].size
           iter == CHOOSE it : it = [j \in 1..(Len(files) + 1) |-> Step(it, j)]
<1>1. /\ n \in Nat /\ DOMAIN files = 1..n
      /\ \A i \in 1..n : files[i].size \in Nat /\ files[i].pad \in BOOLEAN
  <2>1. files \in Seq([size : Nat, pad : BOOLEAN])
    BY DEF Sized
  <2> DEFINE File == [size : Nat, pad : BOOLEAN]
  <2>2. \A f \in File : f.size \in Nat /\ f.pad \in BOOLEAN
    OBVIOUS
  <2> HIDE DEF File
  <2>3. n \in Nat /\ DOMAIN files = 1..n /\ \A i \in 1..n : files[i] \in File
    BY <2>1, ValuesOfSequence DEF File
  <2> QED
    BY <2>2, <2>3
<1>2. \A i : FileStart(t, i) = iter[i]
  BY Zenon DEF FileStart
<1>3. \E it : it = [j \in 1..(n + 1) |-> Step(it, j)]
  <2> DEFINE Good(k, it) == /\ it \in [1..(k + 1) -> Nat]
                            /\ \A j \in 1..(k + 1) : it[j] = Step(it, j)
             S == {k \in Nat : k <= n => \E it : Good(k, it)}
  <2>1. 0 \in S
    <3> DEFINE it == [j \in 1..1 |-> 0]
    <3>1. Good(0, it)
      OBVIOUS
    <3> HIDE DEF Good, it
    <3> QED
      BY <3>1
  <2>2. ASSUME NEW k \in Nat, k \in S
        PROVE  k + 1 \in S
    <3> HIDE DEF Good, n, files
    <3> SUFFICES ASSUME k + 1 <= n
                 PROVE  \E it : Good(k + 1, it)
      OBVIOUS
    <3>1. PICK it : Good(k, it)
      BY <1>1, <2>2
    <3>2. it \in [1..(k + 1) -> Nat] /\ \A j \in 1..(k + 1) : it[j] = Step(it, j)
      BY <3>1 DEF Good
    <3> DEFINE last == it[k + 1] + files[k + 1].size
               more == [j \in 1..(k + 2) |-> IF j = k + 2 THEN last ELSE it[j]]
    <3>3. last \in Nat
      BY <1>1, <3>2
    <3> HIDE DEF last
    <3>4. more \in [1..(k + 2) -> Nat]
      BY <3>2, <3>3
    <3>5. ASSUME NEW j \in 1..(k + 2)
          PROVE  more[j] = Step(more, j)
      <4>1. j # 1 => more[j - 1] = it[j - 1]
        OBVIOUS
      <4>2. CASE j = k + 2
        <5>1. j - 1 = k + 1 /\ j # 1
          BY <4>2
        <5> QED
          BY <4>1, <4>2, <5>1 DEF last
      <4>3. CASE j # k + 2
        <5>1. j \in 1..(k + 1) /\ more[j] = it[j]
          BY <4>3
        <5> QED
          BY <3>2, <4>1, <5>1
      <4> QED
        BY <4>2, <4>3
    <3> HIDE DEF more, Step
    <3>6. (k + 1) + 1 = k + 2
      OBVIOUS
    <3>7. Good(k + 1, more)
      BY <3>4, <3>5, <3>6 DEF Good
    <3> QED
      BY <3>7
  <2> HIDE DEF S, n
  <2>3. n \in S
    BY <1>1, <2>1, <2>2, NatSetInduction
  <2> HIDE DEF Step
  <2>4. PICK it : Good(n, it)
    BY <1>1, <2>3 DEF S
  <2>5. it = [j \in 1..(n + 1) |-> Step(it, j)]
    BY <2>4
  <2> QED
    BY <2>5
<1>4. iter = [j \in 1..(n + 1) |-> Step(iter, j)]
  BY <1>3, Zenon
<1> HIDE DEF iter, files, n
<1>5. /\ iter[1] = 0
      /\ \A i \in 1..n : iter[i + 1] = iter[i] + files[i].size
  <2>1. \A i \in 1..n : i + 1 \in 1..(n + 1) /\ i + 1 # 1 /\ (i + 1) - 1 = i
    BY <1>1
  <2>2. 1 \in 1..(n + 1)
    BY <1>1
  <2> QED
    BY <1>4, <2>1, <2>2
<1> DEFINE K == {k \in Nat : k <= n => iter[k + 1] \in Nat}
<1>6. n \in Nat /\ \A k \in Nat : k <= n => iter[k + 1] \in Nat
  <2>1. 0 \in K
    BY <1>5
  <2>2. ASSUME NEW k \in Nat, k \in K
        PROVE  k + 1 \in K
    BY <1>1, <1>5, <2>2
  <2>3. Nat \subseteq K
    <3> HIDE DEF K
    <3> QED
      BY <2>1, <2>2, NatSetInduction
  <2> QED
    BY <1>1, <2>3
<1>7. \A i \in 1..(n + 1) : iter[i] \in Nat
  <2>1. \A i \in 1..(n + 1) : i - 1 \in Nat /\ i - 1 <= n /\ (i - 1) + 1 = i
    BY <1>1
  <2> QED
    BY <1>6, <2>1
<1>8. \A i \in 1..n : FileEnd(t, i) = iter[i] + files[i].size
  BY <1>2 DEF FileEnd, files
<1>9. \A i \in 1..n : FileEnd(t, i) = iter[i + 1] /\ iter[i] <= FileEnd(t, i)
  <2>1. \A i \in 1..n : i \in 1..(n + 1)
    BY <1>1
  <2> SUFFICES ASSUME NEW i \in 1..n
               PROVE  FileEnd(t, i) = iter[i + 1] /\ iter[i] <= FileEnd(t, i)
    OBVIOUS
  <2>2. FileEnd(t, i) = iter[i] + files[i].size /\ iter[i + 1] = iter[i] + files[i].size
    BY <1>5, <1>8
  <2>3. iter[i] \in Nat /\ files[i].size \in Nat
    BY <1>1, <1>7, <2>1
  <2> QED
    BY <2>2, <2>3
<1>10. TotalSize(t) = iter[n + 1]
  BY <1>2 DEF TotalSize, n, files
<1> QED
  BY <1>1, <1>2, <1>5, <1>7, <1>9, <1>10 DEF Laid, n, files

LEMMA StartsGrow ==
    ASSUME NEW t, Laid(t), NEW i \in 1..(Len(t.files) + 1), NEW j \in 1..(Len(t.files) + 1), i <= j
    PROVE  FileStart(t, i) <= FileStart(t, j)
<1> DEFINE n == Len(t.files)
           Start(k) == FileStart(t, k)
<1>1. /\ n \in Nat /\ \A k \in 1..(n + 1) : Start(k) \in Nat
      /\ \A k \in 1..n : Start(k) <= Start(k + 1)
  BY DEF Laid
<1> DEFINE K == {k \in Nat : i + k <= n + 1 => Start(i) <= Start(i + k)}
<1> HIDE DEF n, Start
<1>2. i \in 1..(n + 1) /\ j \in 1..(n + 1)
  BY DEF n
<1>3. 0 \in K
  BY <1>1, <1>2
<1>4. ASSUME NEW k \in Nat, k \in K
      PROVE  k + 1 \in K
  <2> SUFFICES ASSUME i + (k + 1) <= n + 1
               PROVE  Start(i) <= Start(i + (k + 1))
    OBVIOUS
  <2>1. i + k \in 1..n /\ i + k \in 1..(n + 1) /\ (i + k) + 1 = i + (k + 1)
        /\ i + (k + 1) \in 1..(n + 1)
    BY <1>1, <1>2
  <2>2. Start(i) <= Start(i + k)
    BY <1>4, <2>1
  <2>3. Start(i + k) <= Start(i + (k + 1))
    BY <1>1, <2>1
  <2> QED
    BY <1>1, <1>2, <2>1, <2>2, <2>3
<1>5. j - i \in K
  <2>1. j - i \in Nat
    BY <1>1, <1>2
  <2> HIDE DEF K
  <2> QED
    BY <1>3, <1>4, <2>1, NatSetInduction
<1>6. i + (j - i) = j
  BY <1>1, <1>2
<1> QED
  BY <1>1, <1>2, <1>5, <1>6 DEF Start

\* Every position of the content lies in one file.
Inside(t, i, p) == p \in FileStart(t, i)..(FileEnd(t, i) - 1)

LEMMA OneFileAt ==
    ASSUME NEW t, Laid(t), NEW p \in 0..(TotalSize(t) - 1)
    PROVE  \E i \in 1..Len(t.files) :
              Inside(t, i, p) /\ \A j \in 1..Len(t.files) : Inside(t, j, p) => j = i
<1> DEFINE n == Len(t.files)
           Start(k) == FileStart(t, k)
           End(k) == FileEnd(t, k)
           Behind == {k \in 1..n : p < End(k)}
<1>1. /\ n \in Nat /\ Start(1) = 0 /\ \A k \in 1..(n + 1) : Start(k) \in Nat
      /\ \A k \in 1..n : End(k) = Start(k + 1) /\ End(k) \in Nat
      /\ p \in Nat /\ p < Start(n + 1)
  <2>1. TotalSize(t) = Start(n + 1) /\ n \in Nat /\ \A k \in 1..(n + 1) : Start(k) \in Nat
    BY DEF Laid
  <2>2. n + 1 \in 1..(n + 1)
    BY <2>1
  <2>3. Start(n + 1) \in Nat
    BY <2>1, <2>2
  <2>4. \A k \in 1..n : k + 1 \in 1..(n + 1)
    BY <2>1
  <2> QED
    BY <2>1, <2>3, <2>4 DEF Laid
<1>2. \A k, j \in 1..(n + 1) : k <= j => Start(k) <= Start(j)
  BY StartsGrow
<1> HIDE DEF n, Start, End
<1>3. n \in Behind
  <2>1. n # 0
    BY <1>1
  <2>2. n \in 1..n
    BY <1>1, <2>1
  <2> QED
    BY <1>1, <2>2
<1>4. PICK i \in Behind : \A k \in Behind : i <= k
  <2>1. Behind \in SUBSET Nat /\ Behind # {}
    BY <1>1, <1>3
  <2> HIDE DEF Behind
  <2> QED
    BY <2>1, LeastExists
<1>5. i \in 1..n /\ p < End(i)
  BY <1>4
<1>6. Start(i) <= p
  <2>1. CASE i = 1
    BY <1>1, <2>1
  <2>2. CASE i # 1
    <3>1. i - 1 \in 1..n /\ (i - 1) + 1 = i /\ i \in 1..(n + 1) /\ ~(i <= i - 1)
      BY <1>1, <1>5, <2>2
    <3>2. ~(p < End(i - 1))
      BY <1>4, <3>1
    <3>3. End(i - 1) = Start(i) /\ Start(i) \in Nat
      BY <1>1, <3>1
    <3> QED
      BY <1>1, <3>2, <3>3
  <2> QED
    BY <2>1, <2>2
<1>7. ASSUME NEW j \in 1..n, Start(j) <= p, p < End(j)
      PROVE  j = i
  <2>1. i <= j
    BY <1>4, <1>7
  <2>2. CASE i < j
    <3>1. i + 1 <= j /\ i + 1 \in 1..(n + 1) /\ j \in 1..(n + 1)
      BY <1>1, <1>5, <1>7, <2>2
    <3>2. End(i) <= Start(j)
      BY <1>1, <1>2, <1>5, <3>1
    <3>3. End(i) \in Nat /\ Start(j) \in Nat
      BY <1>1, <1>5, <3>1
    <3> QED
      BY <1>1, <1>5, <1>7, <3>2, <3>3
  <2> QED
    BY <1>1, <1>5, <1>7, <2>1, <2>2
<1>8. \A k \in 1..n : Inside(t, k, p) <=> Start(k) <= p /\ p < End(k)
  <2>1. \A k \in 1..n : k \in 1..(n + 1)
    BY <1>1
  <2> QED
    BY <1>1, <2>1 DEF Inside, Start, End
<1> QED
  BY <1>5, <1>6, <1>7, <1>8 DEF n

\* What a search of the files from lo to hi has to find.
Finds(t, at, s, r) ==
    \/ r = s.result /\ \A j \in s.lo..s.hi : FileEnd(t, j) <= at
    \/ r \in s.lo..s.hi /\ FileEnd(t, r) > at /\ \A j \in s.lo..(r - 1) : FileEnd(t, j) <= at

\* A step of the bisection.
Halves(t, at, s, mid, next) ==
    /\ mid = s.lo + (s.hi - s.lo) \div 2
    /\ next = IF FileEnd(t, mid) <= at THEN [s EXCEPT !.lo = mid + 1]
              ELSE [s EXCEPT !.hi = mid - 1, !.result = mid]

\* The bisection finds it: its steps to the left and to the right do not lose it.
LEMMA Bisected ==
    ASSUME NEW t, Laid(t), NEW at \in Int, NEW s \in Searches(t), s.lo <= s.hi,
           NEW mid, NEW next, Halves(t, at, s, mid, next)
    PROVE  /\ next \in Searches(t)
           /\ next.hi - next.lo < s.hi - s.lo
           /\ \A r : Finds(t, at, next, r) => Finds(t, at, s, r)
<1> DEFINE n == Len(t.files)
           End(k) == FileEnd(t, k)
<1>1. n \in Nat /\ \A k \in 1..n : End(k) \in Nat
  <2>1. n \in Nat /\ (\A k \in 1..(n + 1) : FileStart(t, k) \in Nat)
        /\ \A k \in 1..n : End(k) = FileStart(t, k + 1)
    BY DEF Laid
  <2>2. \A k \in 1..n : k + 1 \in 1..(n + 1)
    BY <2>1
  <2> QED
    BY <2>1, <2>2
<1>2. \A k, j \in 1..n : k <= j => End(k) <= End(j)
  <2> SUFFICES ASSUME NEW k \in 1..n, NEW j \in 1..n, k <= j
               PROVE  End(k) <= End(j)
    OBVIOUS
  <2>1. k + 1 \in 1..(n + 1) /\ j + 1 \in 1..(n + 1) /\ k + 1 <= j + 1
    BY <1>1
  <2>2. FileStart(t, k + 1) <= FileStart(t, j + 1)
    BY <2>1, StartsGrow
  <2> QED
    BY <2>2 DEF Laid
<1>3. s \in [lo : 1..(n + 1), hi : 0..n, result : 0..n]
  BY DEF Searches
<1> HIDE DEF n, End
<1>4. mid \in s.lo..s.hi /\ mid \in 1..n
  BY <1>1, <1>3 DEF Halves
<1>5. CASE End(mid) <= at
  <2>1. next = [s EXCEPT !.lo = mid + 1]
    BY <1>5, Zenon DEF End, Halves
  <2>2. next.lo = mid + 1 /\ next.hi = s.hi /\ next.result = s.result
    BY <1>3, <2>1
  <2>3. next \in [lo : 1..(n + 1), hi : 0..n, result : 0..n]
    BY <1>1, <1>3, <1>4, <2>1
  <2>4. \A j \in s.lo..mid : End(j) <= at
    <3> SUFFICES ASSUME NEW j \in s.lo..mid
                 PROVE  End(j) <= at
      OBVIOUS
    <3>1. j \in 1..n /\ j <= mid
      BY <1>1, <1>3, <1>4
    <3> QED
      BY <1>1, <1>2, <1>4, <1>5, <3>1
  <2>5. ASSUME NEW r, Finds(t, at, next, r)
        PROVE  Finds(t, at, s, r)
    <3>1. CASE r = s.result /\ \A j \in (mid + 1)..s.hi : End(j) <= at
      <4>1. \A j \in s.lo..s.hi : j \in s.lo..mid \/ j \in (mid + 1)..s.hi
        BY <1>1, <1>3, <1>4
      <4> QED
        BY <2>4, <3>1, <4>1 DEF Finds, End
    <3>2. CASE /\ r \in (mid + 1)..s.hi /\ End(r) > at
               /\ \A j \in (mid + 1)..(r - 1) : End(j) <= at
      <4>1. \A j \in s.lo..(r - 1) : j \in s.lo..mid \/ j \in (mid + 1)..(r - 1)
        BY <1>1, <1>3, <1>4, <3>2
      <4>2. r \in s.lo..s.hi
        BY <1>1, <1>3, <1>4, <3>2
      <4> QED
        BY <2>4, <3>2, <4>1, <4>2 DEF Finds, End
    <3> QED
      BY <2>2, <2>5, <3>1, <3>2 DEF Finds, End
  <2>6. next.hi - next.lo < s.hi - s.lo
    BY <1>1, <1>3, <1>4, <2>2
  <2> QED
    BY <2>3, <2>5, <2>6 DEF Searches, n
<1>6. CASE ~(End(mid) <= at)
  <2>1. next = [s EXCEPT !.hi = mid - 1, !.result = mid]
    BY <1>6, Zenon DEF End, Halves
  <2>2. next.lo = s.lo /\ next.hi = mid - 1 /\ next.result = mid
    BY <1>3, <2>1
  <2>3. next \in [lo : 1..(n + 1), hi : 0..n, result : 0..n]
    <3>1. mid - 1 \in 0..n /\ mid \in 0..n
      BY <1>1, <1>4
    <3> HIDE DEF n
    <3> QED
      BY <1>3, <2>1, <3>1
  <2>4. End(mid) > at
    BY <1>1, <1>4, <1>6
  <2>5. ASSUME NEW r, Finds(t, at, next, r)
        PROVE  Finds(t, at, s, r)
    <3>1. CASE r = mid /\ \A j \in s.lo..(mid - 1) : End(j) <= at
      BY <1>4, <2>4, <3>1 DEF Finds, End
    <3>2. CASE /\ r \in s.lo..(mid - 1) /\ End(r) > at
               /\ \A j \in s.lo..(r - 1) : End(j) <= at
      <4>1. r \in s.lo..s.hi
        BY <1>1, <1>3, <1>4, <3>2
      <4> QED
        BY <3>2, <4>1 DEF Finds, End
    <3> QED
      BY <2>2, <2>5, <3>1, <3>2 DEF Finds, End
  <2>6. next.hi - next.lo < s.hi - s.lo
    BY <1>1, <1>3, <1>4, <2>2
  <2> QED
    BY <2>3, <2>5, <2>6 DEF Searches, n
<1> QED
  BY <1>5, <1>6

\* The bisection as a function of its states: there is one, and what it returns is
\* found.  An induction over the number of files it still looks at.
Halving(t, at, f, s) ==
    LET mid == s.lo + (s.hi - s.lo) \div 2
    IN  IF s.lo > s.hi THEN s.result
        ELSE IF FileEnd(t, mid) <= at THEN f[[s EXCEPT !.lo = mid + 1]]
        ELSE f[[s EXCEPT !.hi = mid - 1, !.result = mid]]

LEMMA HalvingNext ==
    ASSUME NEW t, NEW at, NEW f, NEW s,
           NEW mid, NEW next, Halves(t, at, s, mid, next)
    PROVE  Halving(t, at, f, s) = IF s.lo > s.hi THEN s.result ELSE f[next]
BY Zenon DEF Halving, Halves

\* What is found is one file.
LEMMA FindsOne ==
    ASSUME NEW t, NEW at \in Int, NEW s \in Searches(t), Laid(t),
           NEW r1, Finds(t, at, s, r1), NEW r2, Finds(t, at, s, r2)
    PROVE  r1 = r2
<1> DEFINE n == Len(t.files)
           End(k) == FileEnd(t, k)
<1>1. n \in Nat /\ \A k \in 1..n : End(k) \in Nat
  <2>1. n \in Nat /\ (\A k \in 1..(n + 1) : FileStart(t, k) \in Nat)
        /\ \A k \in 1..n : End(k) = FileStart(t, k + 1)
    BY DEF Laid
  <2>2. \A k \in 1..n : k + 1 \in 1..(n + 1)
    BY <2>1
  <2> QED
    BY <2>1, <2>2
<1>2. s.lo \in 1..(n + 1) /\ s.hi \in 0..n
  BY DEF Searches
<1> HIDE DEF n, End
<1>3. \A k \in s.lo..s.hi : End(k) \in Nat
  BY <1>1, <1>2
<1> DEFINE None1(r) == r = s.result /\ \A j \in s.lo..s.hi : End(j) <= at
           Some1(r) == r \in s.lo..s.hi /\ End(r) > at /\ \A j \in s.lo..(r - 1) : End(j) <= at
<1>4. (None1(r1) \/ Some1(r1)) /\ (None1(r2) \/ Some1(r2))
  BY DEF Finds, End
<1>5. ASSUME Some1(r1), Some1(r2)
      PROVE  r1 = r2
  BY <1>1, <1>2, <1>3, <1>5
<1>6. ~(None1(r1) /\ Some1(r2)) /\ ~(Some1(r1) /\ None1(r2))
  BY <1>1, <1>2, <1>3
<1> QED
  BY <1>4, <1>5, <1>6

LEMMA SearchEnds ==
    ASSUME NEW t, NEW at \in Int, Laid(t),
           NEW f, \A s \in Searches(t) : f[s] = Halving(t, at, f, s)
    PROVE  \A s \in Searches(t) : Finds(t, at, s, f[s])
<1> DEFINE K == {k \in Nat : \A s \in Searches(t) : s.hi - s.lo < k => Finds(t, at, s, f[s])}
<1>1. \A s \in Searches(t) : s.lo \in Int /\ s.hi \in Int
  <2>1. Len(t.files) \in Nat
    BY DEF Laid
  <2> QED
    BY <2>1 DEF Searches
<1>2. ASSUME NEW s \in Searches(t), s.lo > s.hi
      PROVE  Finds(t, at, s, f[s])
  <2>1. f[s] = s.result
    BY <1>2, Zenon DEF Halving
  <2>2. s.lo..s.hi = {}
    BY <1>1, <1>2
  <2> QED
    BY <2>1, <2>2 DEF Finds
<1>3. 0 \in K
  BY <1>1, <1>2
<1>4. ASSUME NEW k \in Nat, k \in K
      PROVE  k + 1 \in K
  <2> SUFFICES ASSUME NEW s \in Searches(t), s.hi - s.lo < k + 1, ~(s.lo > s.hi)
               PROVE  Finds(t, at, s, f[s])
    BY <1>2
  <2> DEFINE mid == s.lo + (s.hi - s.lo) \div 2
             next == IF FileEnd(t, mid) <= at THEN [s EXCEPT !.lo = mid + 1]
                     ELSE [s EXCEPT !.hi = mid - 1, !.result = mid]
  <2>0. Halves(t, at, s, mid, next)
    BY Zenon DEF Halves
  <2> HIDE DEF mid, next
  <2>1. f[s] = f[next]
    <3>1. Halving(t, at, f, s) = IF s.lo > s.hi THEN s.result ELSE f[next]
      BY <2>0, HalvingNext
    <3> QED
      BY <3>1
  <2>2. s.lo <= s.hi
    BY <1>1
  <2>3. /\ next \in Searches(t)
        /\ next.hi - next.lo < s.hi - s.lo
        /\ \A r : Finds(t, at, next, r) => Finds(t, at, s, r)
    BY <2>0, <2>2, Bisected
  <2>4. next.hi - next.lo < k
    BY <1>1, <2>3
  <2>5. Finds(t, at, next, f[next])
    BY <1>4, <2>3, <2>4
  <2> QED
    BY <2>1, <2>3, <2>5
<1> SUFFICES ASSUME NEW s \in Searches(t)
             PROVE  Finds(t, at, s, f[s])
  OBVIOUS
<1>5. CASE s.lo > s.hi
  BY <1>2, <1>5
<1>6. CASE ~(s.lo > s.hi)
  <2>1. s.hi - s.lo + 1 \in Nat /\ s.hi - s.lo < s.hi - s.lo + 1
    BY <1>1, <1>6
  <2> DEFINE d == s.hi - s.lo + 1
  <2> HIDE DEF d, K
  <2>2. d \in K
    BY <1>3, <1>4, <2>1, NatSetInduction DEF d
  <2> QED
    BY <2>1, <2>2 DEF K, d
<1> QED
  BY <1>5, <1>6

LEMMA SearchExists ==
    ASSUME NEW t, NEW at \in Int, Laid(t)
    PROVE  \E f : f = [s \in Searches(t) |-> Halving(t, at, f, s)]
<1> DEFINE f == [s \in Searches(t) |-> CHOOSE r : Finds(t, at, s, r)]
<1>1. \A s \in Searches(t) : s.lo \in Int /\ s.hi \in Int /\ s.lo >= 1
  <2>1. Len(t.files) \in Nat
    BY DEF Laid
  <2> QED
    BY <2>1 DEF Searches
<1>2. ASSUME NEW s \in Searches(t)
      PROVE  \E r : Finds(t, at, s, r)
  <2> DEFINE hits == {j \in s.lo..s.hi : ~(FileEnd(t, j) <= at)}
  <2>1. CASE hits = {}
    BY <2>1 DEF Finds
  <2>2. CASE hits # {}
    <3>1. hits \in SUBSET Nat
      BY <1>1
    <3>2. PICK r \in hits : \A j \in hits : r <= j
      <4> HIDE DEF hits
      <4> QED
        BY <2>2, <3>1, LeastExists
    <3>3. FileEnd(t, r) \in Nat
      <4>1. r \in 1..Len(t.files) /\ Len(t.files) \in Nat
        BY <1>1, <3>2 DEF Searches, Laid
      <4>2. r + 1 \in 1..(Len(t.files) + 1)
        BY <4>1
      <4> QED
        BY <4>1, <4>2 DEF Laid
    <3>4. \A j \in s.lo..(r - 1) : FileEnd(t, j) <= at
      <4>1. \A j \in s.lo..(r - 1) : j \in s.lo..s.hi /\ ~(r <= j)
        BY <1>1, <3>2
      <4> QED
        BY <3>2, <4>1
    <3>5. FileEnd(t, r) > at
      BY <3>2, <3>3
    <3> QED
      BY <3>2, <3>4, <3>5 DEF Finds
  <2> QED
    BY <2>1, <2>2
<1>3. \A s \in Searches(t) : Finds(t, at, s, f[s])
  BY <1>2
<1>4. ASSUME NEW s \in Searches(t)
      PROVE  f[s] = Halving(t, at, f, s)
  <2> HIDE DEF f
  <2>1. CASE s.lo > s.hi
    <3>1. s.lo..s.hi = {}
      BY <1>1, <2>1
    <3>2. f[s] = s.result
      BY <1>3, <3>1 DEF Finds
    <3> QED
      BY <2>1, <3>2, Zenon DEF Halving
  <2>2. CASE ~(s.lo > s.hi)
    <3> DEFINE mid == s.lo + (s.hi - s.lo) \div 2
               next == IF FileEnd(t, mid) <= at THEN [s EXCEPT !.lo = mid + 1]
                       ELSE [s EXCEPT !.hi = mid - 1, !.result = mid]
    <3>0. Halves(t, at, s, mid, next)
      BY Zenon DEF Halves
    <3> HIDE DEF mid, next
    <3>1. Halving(t, at, f, s) = f[next]
      <4>1. Halving(t, at, f, s) = IF s.lo > s.hi THEN s.result ELSE f[next]
        BY <3>0, HalvingNext
      <4> QED
        BY <2>2, <4>1
    <3>2. s.lo <= s.hi
      BY <1>1, <2>2
    <3>3. next \in Searches(t) /\ \A r : Finds(t, at, next, r) => Finds(t, at, s, r)
      BY <3>0, <3>2, Bisected
    <3>4. Finds(t, at, s, f[next]) /\ Finds(t, at, s, f[s])
      BY <1>3, <3>3
    <3>5. f[s] = f[next]
      BY <3>4, FindsOne
    <3> QED
      BY <3>1, <3>5
  <2> QED
    BY <2>1, <2>2
<1> HIDE DEF f
<1>5. f = [s \in Searches(t) |-> f[s]]
  BY DEF f
<1>6. f = [s \in Searches(t) |-> Halving(t, at, f, s)]
  BY <1>4, <1>5
<1> QED
  BY <1>6

\* The first file that ends behind a position, if there is one.
LEMMA FoundRight ==
    ASSUME NEW t, NEW at \in Int, Laid(t),
           NEW r, r = find_file_for_piece(t, at)
    PROVE  \/ r = 0 /\ \A j \in 1..Len(t.files) : FileEnd(t, j) <= at
           \/ /\ r \in 1..Len(t.files) /\ FileEnd(t, r) > at
              /\ \A j \in 1..(r - 1) : FileEnd(t, j) <= at
<1> DEFINE f == CHOOSE g : g = [s \in Searches(t) |-> Halving(t, at, g, s)]
           all == [lo |-> 1, hi |-> Len(t.files), result |-> 0]
<1>1. r = f[all]
  BY Zenon DEF find_file_for_piece, Halving
<1>2. f = [s \in Searches(t) |-> Halving(t, at, f, s)]
  BY SearchExists, Zenon
<1> HIDE DEF f
<1>3. \A s \in Searches(t) : f[s] = Halving(t, at, f, s)
  BY <1>2
<1>4. all \in Searches(t)
  <2>1. Len(t.files) \in Nat
    BY DEF Laid
  <2> DEFINE n == Len(t.files)
  <2> HIDE DEF n
  <2>2. [lo |-> 1, hi |-> n, result |-> 0] \in [lo : 1..(n + 1), hi : 0..n, result : 0..n]
    BY <2>1 DEF n
  <2> QED
    BY <2>2 DEF Searches, n
<1>5. all.lo = 1 /\ all.hi = Len(t.files) /\ all.result = 0
  OBVIOUS
<1> HIDE DEF all
<1>6. Finds(t, at, all, f[all])
  BY <1>3, <1>4, SearchEnds
<1> QED
  BY <1>1, <1>5, <1>6 DEF Finds

\* The files that are read for a piece are the ones with content in it.
LEMMA ReadRight ==
    ASSUME NEW t, Laid(t), NEW k, PieceStart(t, k) \in Int
    PROVE  ReadFiles(t, k) =
              {i \in 1..Len(t.files) : /\ FileStart(t, i) < PieceEnd(t, k)
                                       /\ FileEnd(t, i) > PieceStart(t, k)
                                       /\ ~t.files[i].pad}
<1> DEFINE n == Len(t.files)
           at == PieceStart(t, k)
           first == find_file_for_piece(t, at)
<1>1. n \in Nat /\ DOMAIN t.files = 1..n
  BY DEF Laid
<1>2. ReadFiles(t, k) =
        {i \in DOMAIN t.files : /\ first # 0 /\ i >= first
                                /\ FileStart(t, i) < PieceEnd(t, k)
                                /\ FileEnd(t, i) > at
                                /\ ~t.files[i].pad}
  BY Zenon DEF ReadFiles
<1>3. \/ first = 0 /\ \A j \in 1..n : FileEnd(t, j) <= at
      \/ first \in 1..n /\ \A j \in 1..(first - 1) : FileEnd(t, j) <= at
  BY FoundRight
<1>4. \A j \in 1..n : FileEnd(t, j) \in Int
  <2>1. \A j \in 1..n : FileEnd(t, j) = FileStart(t, j + 1) /\ j + 1 \in 1..(n + 1)
    BY <1>1 DEF Laid
  <2> QED
    BY <2>1 DEF Laid
<1> HIDE DEF n, first, at
<1>5. ASSUME NEW i \in 1..n, FileEnd(t, i) > at
      PROVE  first # 0 /\ i >= first
  <2>0. at \in Int
    BY DEF at
  <2>1. ~(FileEnd(t, i) <= at)
    BY <1>4, <1>5, <2>0
  <2>2. first \in 1..n /\ i \notin 1..(first - 1)
    BY <1>3, <2>1
  <2> QED
    BY <1>1, <2>2
<1>6. \A i \in 1..n : FileEnd(t, i) > at => first # 0 /\ i >= first
  BY <1>5
<1> QED
  BY <1>1, <1>2, <1>6 DEF n, at

\* Where a piece lies.
Placed(t, k) ==
    /\ PieceStart(t, k) \in Nat /\ PieceEnd(t, k) \in Nat /\ TotalSize(t) \in Nat
    /\ PieceEnd(t, k) <= TotalSize(t)
    /\ PieceEnd(t, k) <= PieceStart(t, k) + t.piece_length
    /\ \A p \in PieceStart(t, k)..(PieceEnd(t, k) - 1) : p \in 0..(TotalSize(t) - 1)

LEMMA MinOfTwo ==
    ASSUME NEW a \in Int, NEW b \in Int
    PROVE  Min({a, b}) = IF a <= b THEN a ELSE b
<1>1. CASE a <= b
  BY <1>1 DEF Min
<1>2. CASE ~(a <= b)
  BY <1>2 DEF Min
<1> QED
  BY <1>1, <1>2

LEMMA PiecePlaced ==
    ASSUME NEW t, Laid(t), t.piece_length \in Nat \ {0}, NEW k \in Nat
    PROVE  Placed(t, k)
<1> DEFINE len == t.piece_length
           total == TotalSize(t)
           from == k * len
<1>1. total \in Nat
  <2>1. total = FileStart(t, Len(t.files) + 1) /\ Len(t.files) + 1 \in 1..(Len(t.files) + 1)
    BY DEF Laid
  <2> QED
    BY <2>1 DEF Laid
<1>2. from \in Nat /\ (k + 1) * len = from + len /\ len \in Nat
  BY SMT
<1>3. PieceStart(t, k) = from /\ PieceStart(t, k + 1) = from + len
  BY <1>2 DEF PieceStart
<1>4. PieceEnd(t, k) = Min({from + len, total})
  BY <1>3 DEF PieceEnd
<1> HIDE DEF from, len, total
<1>5. PieceEnd(t, k) = IF from + len <= total THEN from + len ELSE total
  BY <1>1, <1>2, <1>4, MinOfTwo
<1> QED
  BY <1>1, <1>2, <1>3, <1>5 DEF Placed, len, total

\* A torrent and a disk to check it against.
Checked(t, disk) == IsContent(t) /\ IsDisk(t, disk) /\ Laid(t)

\* Where the one file of a position is, the disk holds what is read of this file.
LEMMA OnDiskRight ==
    ASSUME NEW t, NEW disk, Checked(t, disk),
           NEW i \in 1..Len(t.files), NEW p, Inside(t, i, p),
           \A j \in 1..Len(t.files) : Inside(t, j, p) => j = i
    PROVE  OnDisk(t, disk, p) =
              IF t.files[i].pad \/ p - FileStart(t, i) + 1 > Len(disk[i].bytes) THEN 0
              ELSE disk[i].bytes[p - FileStart(t, i) + 1]
<1> DEFINE one == CHOOSE j \in DOMAIN t.files : p \in FileStart(t, j)..(FileEnd(t, j) - 1)
<1>1. one = i
  BY Zenon DEF Inside, Checked, Laid
<1>2. OnDisk(t, disk, p) =
        IF t.files[one].pad \/ p - FileStart(t, one) + 1 > Len(disk[one].bytes) THEN 0
        ELSE disk[one].bytes[p - FileStart(t, one) + 1]
  BY Zenon DEF OnDisk
<1> QED
  BY <1>1, <1>2

\* The buffer of a piece holds what is on disk.
LEMMA BufferRight ==
    ASSUME NEW t, NEW disk, Checked(t, disk), NEW k \in Nat,
           NEW p \in PieceStart(t, k)..(PieceEnd(t, k) - 1)
    PROVE  read_piece_data(t, disk, k)[p] = OnDisk(t, disk, p)
<1> DEFINE n == Len(t.files)
           Holds(i) == /\ disk[i].exists
                       /\ p \in FileStart(t, i)..(FileEnd(t, i) - 1)
                       /\ p - FileStart(t, i) < Len(disk[i].bytes)
           files == ReadFiles(t, k)
           one == CHOOSE i \in files : Holds(i)
<1>1. Laid(t) /\ Placed(t, k)
  BY PiecePlaced DEF Checked, IsContent
<1>2. read_piece_data(t, disk, k)[p] =
        IF \E i \in files : Holds(i) THEN disk[one].bytes[p - FileStart(t, one) + 1] ELSE 0
  BY Zenon DEF read_piece_data
<1>3. files = {i \in 1..n : /\ FileStart(t, i) < PieceEnd(t, k)
                            /\ FileEnd(t, i) > PieceStart(t, k)
                            /\ ~t.files[i].pad}
  BY <1>1, ReadRight DEF Placed
<1>4. PICK i \in 1..n : Inside(t, i, p) /\ \A j \in 1..n : Inside(t, j, p) => j = i
  <2>1. p \in 0..(TotalSize(t) - 1)
    BY <1>1 DEF Placed
  <2> QED
    BY <1>1, <2>1, OneFileAt
<1>5. OnDisk(t, disk, p) =
        IF t.files[i].pad \/ p - FileStart(t, i) + 1 > Len(disk[i].bytes) THEN 0
        ELSE disk[i].bytes[p - FileStart(t, i) + 1]
  BY <1>4, OnDiskRight
<1>6. /\ p \in Nat /\ FileStart(t, i) \in Nat /\ FileEnd(t, i) \in Nat
      /\ FileStart(t, i) <= p /\ p < FileEnd(t, i)
      /\ PieceStart(t, k) <= p /\ p < PieceEnd(t, k)
      /\ PieceStart(t, k) \in Nat /\ PieceEnd(t, k) \in Nat
  <2>1. PieceStart(t, k) \in Nat /\ PieceEnd(t, k) \in Nat
    BY <1>1 DEF Placed
  <2>2. n \in Nat
    BY <1>1 DEF Laid
  <2>3. i \in 1..(n + 1) /\ i + 1 \in 1..(n + 1)
    BY <2>2
  <2>4. FileStart(t, i) \in Nat /\ FileEnd(t, i) \in Nat
    BY <1>1, <2>3 DEF Laid
  <2> QED
    BY <1>4, <2>1, <2>4 DEF Inside
<1>7. i \in files <=> ~t.files[i].pad
  <2>1. FileStart(t, i) < PieceEnd(t, k) /\ FileEnd(t, i) > PieceStart(t, k)
    BY <1>6
  <2> QED
    BY <1>3, <2>1
<1>8. \A j \in files : Holds(j) => j = i
  BY <1>3, <1>4 DEF Inside
<1>9. /\ disk[i].exists \in BOOLEAN /\ Len(disk[i].bytes) \in Nat
      /\ ~disk[i].exists => Len(disk[i].bytes) = 0
  <2>1. i \in DOMAIN t.files
    BY <1>1 DEF Laid
  <2>2. disk[i] \in [exists : BOOLEAN, bytes : Seq(Nat)]
        /\ (~disk[i].exists => disk[i].bytes = <<>>)
    BY <2>1 DEF Checked, IsDisk
  <2> DEFINE b == disk[i].bytes
  <2>3. b \in Seq(Nat) /\ disk[i].exists \in BOOLEAN
    BY <2>2
  <2>4. Len(b) \in Nat /\ (b = <<>> => Len(b) = 0)
    <3> HIDE DEF b
    <3> QED
      BY <2>3
  <2> QED
    BY <2>2, <2>3, <2>4
<1>10. Holds(i) <=> ~(p - FileStart(t, i) + 1 > Len(disk[i].bytes))
  <2>1. p \in FileStart(t, i)..(FileEnd(t, i) - 1)
    BY <1>6
  <2>2. p - FileStart(t, i) < Len(disk[i].bytes)
          <=> ~(p - FileStart(t, i) + 1 > Len(disk[i].bytes))
    BY <1>6, <1>9
  <2>3. p - FileStart(t, i) < Len(disk[i].bytes) => disk[i].exists
    BY <1>6, <1>9
  <2> QED
    BY <2>1, <2>2, <2>3
<1> HIDE DEF files, Holds
<1>11. CASE \E j \in files : Holds(j)
  <2>1. i \in files /\ Holds(i) /\ one = i
    BY <1>8, <1>11
  <2> QED
    BY <1>2, <1>5, <1>7, <1>10, <1>11, <2>1
<1>12. CASE ~\E j \in files : Holds(j)
  <2>1. t.files[i].pad \/ p - FileStart(t, i) + 1 > Len(disk[i].bytes)
    BY <1>7, <1>10, <1>12
  <2> QED
    BY <1>2, <1>5, <1>12, <2>1
<1> QED
  BY <1>11, <1>12

\* Nothing of a piece differs on disk.
Same(t, disk, k) == \A p \in PieceStart(t, k)..(PieceEnd(t, k) - 1) :
                        OnDisk(t, disk, p) = t.content[p]

LEMMA Verified1 ==
    ASSUME NEW t, NEW disk, Checked(t, disk), NEW k \in Nat
    PROVE  verify_piece_v1(t, disk, k) <=> Same(t, disk, k)
<1> DEFINE R == PieceStart(t, k)..(PieceEnd(t, k) - 1)
           buffer == read_piece_data(t, disk, k)
<1>1. \A p \in R : buffer[p] = OnDisk(t, disk, p)
  BY BufferRight
<1>2. buffer = [p \in R |-> buffer[p]]
  BY Zenon DEF read_piece_data
<1>3. verify_piece_v1(t, disk, k) <=> buffer = [p \in R |-> t.content[p]]
  BY Zenon DEF verify_piece_v1
<1>4. Same(t, disk, k) <=> \A p \in R : OnDisk(t, disk, p) = t.content[p]
  BY DEF Same
<1> HIDE DEF R, buffer
<1>5. ASSUME buffer = [p \in R |-> t.content[p]]
      PROVE  \A p \in R : buffer[p] = t.content[p]
  BY <1>5
<1>6. ASSUME \A p \in R : buffer[p] = t.content[p]
      PROVE  buffer = [p \in R |-> t.content[p]]
  BY <1>2, <1>6
<1> QED
  BY <1>1, <1>3, <1>4, <1>5, <1>6

\* A multiple of the length of a piece that lies before its end is not behind its
\* beginning.
LEMMA MultipleBefore ==
    ASSUME NEW len \in Nat \ {0}, NEW k \in Nat, NEW at \in Nat,
           at % len = 0, at < k * len + len
    PROVE  at <= k * len
<1> DEFINE q == at \div len
<1>1. q \in Nat /\ at = len * q
  BY SMT
<1> HIDE DEF q
<1>2. CASE q <= k
  <2>1. len * q <= len * k /\ len * k = k * len
    BY <1>1, <1>2
  <2> QED
    BY <1>1, <2>1
<1>3. CASE q >= k + 1
  <2>1. len * q >= len * (k + 1)
    BY <1>1, <1>3
  <2>2. len * (k + 1) = k * len + len /\ k * len \in Nat
    OBVIOUS
  <2> QED
    BY <1>1, <2>1, <2>2
<1> QED
  BY <1>1, <1>2, <1>3

\* Version 2 looks at the part of a piece that is of its file: what else is in it is
\* padding.
LEMMA Verified2 ==
    ASSUME NEW t, NEW disk, Checked(t, disk), NEW k \in Nat,
           t.v2, t.piece_length <= BlockSize, BlockSize \in Nat
    PROVE  verify_piece_v2(t, disk, k) <=> Same(t, disk, k)
<1> DEFINE n == Len(t.files)
           Start == PieceStart(t, k)
           End == PieceEnd(t, k)
           files == FileOfPiece(t, k)
           buffer == read_piece_data(t, disk, k)
           last(i) == Min({End, FileEnd(t, i)}) - 1
           Part(i) == [p \in Start..last(i) |-> buffer[p]]
           Whole1(i) == [p \in Start..last(i) |-> t.content[p]]
<1>1. Laid(t) /\ Placed(t, k) /\ t.piece_length \in Nat \ {0}
  BY PiecePlaced DEF Checked, IsContent
<1>2. \A p \in Start..(End - 1) : buffer[p] = OnDisk(t, disk, p)
  BY BufferRight
<1>3. /\ Start \in Nat /\ End \in Nat /\ n \in Nat
      /\ \A i \in 1..n : FileStart(t, i) \in Nat /\ FileEnd(t, i) \in Nat
  <2>1. Start \in Nat /\ End \in Nat /\ n \in Nat
    BY <1>1 DEF Placed, Laid
  <2>2. \A i \in 1..n : i \in 1..(n + 1) /\ i + 1 \in 1..(n + 1)
    BY <2>1
  <2> QED
    BY <1>1, <2>1, <2>2 DEF Laid
<1>4. \A i : i \in files <=> /\ i \in 1..n /\ ~t.files[i].pad
                             /\ FileStart(t, i) < End /\ FileEnd(t, i) > Start
                             /\ FileStart(t, i) <= Start
  <2>1. ReadFiles(t, k) = {i \in 1..n : /\ FileStart(t, i) < End
                                        /\ FileEnd(t, i) > Start
                                        /\ ~t.files[i].pad}
    BY <1>1, <1>3, ReadRight
  <2> QED
    BY <2>1 DEF FileOfPiece
<1>5. \A i \in 1..n : last(i) = (IF End <= FileEnd(t, i) THEN End ELSE FileEnd(t, i)) - 1
  BY <1>3, MinOfTwo
<1>6. verify_piece_v2(t, disk, k) <=> \A i \in files : Part(i) = Whole1(i)
  <2>1. verify_piece_v2(t, disk, k)
          <=> \A i \in files : Hash(Part(i)) = LayerHash(t, i, k)
    BY Zenon DEF verify_piece_v2
  <2>2. ~(t.piece_length > BlockSize)
    BY <1>1
  <2>3. \A i : LayerHash(t, i, k) = [tree |-> FALSE, bytes |-> Whole1(i)]
    <3> TAKE i
    <3>1. LayerHash(t, i, k) = [tree |-> t.files[i].size > BlockSize /\ t.piece_length > BlockSize,
                                bytes |-> Whole1(i)]
      BY Zenon DEF LayerHash
    <3>2. (t.files[i].size > BlockSize /\ t.piece_length > BlockSize) = FALSE
      BY <2>2
    <3> HIDE DEF Whole1
    <3> QED
      BY <3>1, <3>2
  <2>4. \A i : Hash(Part(i)) = [tree |-> FALSE, bytes |-> Part(i)]
    BY DEF Hash
  <2>5. \A a, b : [tree |-> FALSE, bytes |-> a] = [tree |-> FALSE, bytes |-> b] <=> a = b
    <3> TAKE a, b
    <3>1. [tree |-> FALSE, bytes |-> a].bytes = a /\ [tree |-> FALSE, bytes |-> b].bytes = b
      OBVIOUS
    <3> QED
      BY <3>1, Zenon
  <2> HIDE DEF Part, Whole1
  <2> QED
    BY <2>1, <2>3, <2>4, <2>5
<1>7. \A i : Part(i) = Whole1(i) <=> \A p \in Start..last(i) : buffer[p] = t.content[p]
  <2> HIDE DEF buffer, last, Start
  <2> TAKE i
  <2>1. ASSUME Part(i) = Whole1(i), NEW p \in Start..last(i)
        PROVE  buffer[p] = t.content[p]
    <3>1. Part(i)[p] = buffer[p] /\ Whole1(i)[p] = t.content[p]
      BY <2>1
    <3> QED
      BY <2>1, <3>1
  <2>2. ASSUME \A p \in Start..last(i) : buffer[p] = t.content[p]
        PROVE  Part(i) = Whole1(i)
    BY <2>2
  <2> HIDE DEF Part, Whole1
  <2> QED
    BY <2>1, <2>2
<1> HIDE DEF files, buffer, last, Part, Whole1, Start, End
<1>8. ASSUME Same(t, disk, k)
      PROVE  verify_piece_v2(t, disk, k)
  <2> SUFFICES ASSUME NEW i \in files, NEW p \in Start..last(i)
               PROVE  buffer[p] = t.content[p]
    BY <1>6, <1>7
  <2>1. p \in Start..(End - 1)
    BY <1>3, <1>4, <1>5
  <2> QED
    BY <1>2, <1>8, <2>1 DEF Same, Start, End
<1>9. ASSUME verify_piece_v2(t, disk, k)
      PROVE  Same(t, disk, k)
  <2> SUFFICES ASSUME NEW p \in Start..(End - 1)
               PROVE  OnDisk(t, disk, p) = t.content[p]
    BY DEF Same, Start, End
  <2>1. PICK i \in 1..n : Inside(t, i, p) /\ \A j \in 1..n : Inside(t, j, p) => j = i
    <3>1. p \in 0..(TotalSize(t) - 1)
      BY <1>1 DEF Placed, Start, End
    <3> QED
      BY <1>1, <3>1, OneFileAt
  <2>2. p \in Nat /\ FileStart(t, i) <= p /\ p < FileEnd(t, i) /\ Start <= p /\ p < End
    BY <1>3, <2>1 DEF Inside
  <2>3. i \in DOMAIN t.files /\ t.files[i].pad \in BOOLEAN
    BY <1>1 DEF Laid
  <2>4. CASE t.files[i].pad
    <3>1. t.content[p] = 0
      BY <2>1, <2>3, <2>4 DEF Checked, IsContent, Inside
    <3>2. OnDisk(t, disk, p) = 0
      BY <2>1, <2>4, OnDiskRight
    <3> QED
      BY <3>1, <3>2
  <2>5. CASE ~t.files[i].pad
    <3>1. FileStart(t, i) % t.piece_length = 0
      BY <2>3, <2>5 DEF Checked, IsContent
    <3>2. Start = k * t.piece_length /\ End <= Start + t.piece_length
      BY <1>1 DEF Placed, PieceStart, Start, End
    <3>3. FileStart(t, i) < k * t.piece_length + t.piece_length
      BY <1>1, <1>3, <2>2, <3>2
    <3>4. FileStart(t, i) <= Start
      BY <1>1, <1>3, <3>1, <3>2, <3>3, MultipleBefore
    <3>5. i \in files
      BY <1>3, <1>4, <2>2, <2>5, <3>4
    <3>6. p \in Start..last(i)
      BY <1>3, <1>5, <2>2
    <3> QED
      BY <1>2, <1>6, <1>7, <1>9, <3>5, <3>6
  <2> QED
    BY <2>3, <2>4, <2>5
<1> QED
  BY <1>8, <1>9

LEMMA CorruptedRight ==
    ASSUME NEW t, NEW disk, IsContent(t), IsDisk(t, disk), BlockSize \in Nat, FlatHashes(t)
    PROVE  check(t, disk).corrupted = {k \in PieceIndices(t) : ~Same(t, disk, k)}
<1>1. Checked(t, disk) /\ TotalSize(t) \in Nat
  <2>1. Laid(t)
    BY FilesLaid DEF IsContent, Sized
  <2>2. TotalSize(t) = FileStart(t, Len(t.files) + 1)
        /\ Len(t.files) + 1 \in 1..(Len(t.files) + 1)
    BY <2>1 DEF Laid
  <2> QED
    BY <2>1, <2>2 DEF Checked, Laid
<1>2. check(t, disk).corrupted = verify_all_pieces(t, disk)
  BY Zenon DEF check
<1>3. PieceIndices(t) \subseteq Nat
  BY <1>1 DEF PieceIndices
<1>4. ASSUME NEW k \in PieceIndices(t)
      PROVE  (/\ t.v1 => verify_piece_v1(t, disk, k)
              /\ t.v2 => verify_piece_v2(t, disk, k)) <=> Same(t, disk, k)
  <2>1. k \in Nat /\ (t.v1 \/ t.v2) /\ t.piece_length \in Nat
    BY <1>3 DEF IsContent
  <2>2. verify_piece_v1(t, disk, k) <=> Same(t, disk, k)
    BY <1>1, <2>1, Verified1
  <2>3. t.v2 => (verify_piece_v2(t, disk, k) <=> Same(t, disk, k))
    BY <1>1, <2>1, Verified2 DEF FlatHashes
  <2> QED
    BY <2>1, <2>2, <2>3
<1> QED
  BY <1>2, <1>4 DEF verify_all_pieces

--------------------------------------------------------------------------------
(* The episodes of a season. *)

Videos == [video : BOOLEAN, season : Nat, listed : Seq(0..MaxEpisode),
           alt : {<<>>} \cup Nat \X (0..MaxEpisode)]

\* The episodes of a file are the numbers in its name, without specials.
LEMMA EpisodesRight ==
    ASSUME NEW f \in Videos, WellNamed(f), MaxEpisode \in Nat, MaxSpan \in Nat
    PROVE  EpisodesOf(f) = {n \in 1..MaxEpisode : InFile(f, n)}
<1>1. /\ f.listed \in Seq(0..MaxEpisode)
      /\ f.alt # <<>> => f.alt \in Nat \X (0..MaxEpisode)
      /\ f.video \in BOOLEAN
  BY DEF Videos
<1>2. CASE ~f.video
  BY <1>2 DEF EpisodesOf, InFile
<1>3. CASE f.video /\ Len(f.listed) > 1
  <2>1. /\ Len(f.listed) = 2 /\ f.listed[1] <= f.listed[2]
        /\ f.listed[2] - f.listed[1] < MaxSpan
        /\ f.listed[1] \in 0..MaxEpisode /\ f.listed[2] \in 0..MaxEpisode
    BY <1>1, <1>3 DEF WellNamed
  <2>2. extract_multi_episodes(f) = f.listed[1]..f.listed[2]
    BY <2>1 DEF extract_multi_episodes
  <2>3. f.listed[1] \in f.listed[1]..f.listed[2]
    BY <2>1
  <2>4. EpisodesOf(f) = (f.listed[1]..f.listed[2]) \ {0}
    BY <1>3, <2>2, <2>3, Zenon DEF EpisodesOf
  <2>5. \A n : InFile(f, n) <=> f.listed[1] <= n /\ n <= f.listed[2]
    BY <1>1, <1>3, <2>1 DEF InFile, Last
  <2> QED
    BY <2>1, <2>4, <2>5
<1>4. CASE f.video /\ ~(Len(f.listed) > 1)
  <2>1. \/ f.listed = <<>>
        \/ f.listed = <<f.listed[1]>> /\ f.listed[1] \in 0..MaxEpisode
    <3>1. Len(f.listed) = 0 \/ Len(f.listed) = 1
      <4> DEFINE n == Len(f.listed)
      <4>1. n \in Nat /\ ~(n > 1)
        BY <1>1, <1>4
      <4> HIDE DEF n
      <4>2. n = 0 \/ n = 1
        BY <4>1
      <4> QED
        BY <4>2 DEF n
    <3> QED
      BY <1>1, <3>1
  <2>2. EpisodesOf(f) = {extract_season_episode(f)[2]} \ {0}
    BY <1>4 DEF EpisodesOf, extract_multi_episodes
  <2>3. CASE f.listed # <<>> /\ ~(f.listed = <<0>> /\ f.alt # <<>>)
    <3>1. extract_season_episode(f)[2] = f.listed[1]
      BY <2>1, <2>3 DEF extract_season_episode
    <3>2. \A n : InFile(f, n) <=> f.listed[1] <= n /\ n <= f.listed[1]
      BY <1>4, <2>1, <2>3 DEF InFile, Last
    <3> QED
      BY <2>1, <2>2, <2>3, <3>1, <3>2
  <2>4. CASE ~(f.listed # <<>> /\ ~(f.listed = <<0>> /\ f.alt # <<>>))
    <3>1. extract_season_episode(f)[2] = IF f.alt # <<>> THEN f.alt[2] ELSE 0
      BY <2>1, <2>4 DEF extract_season_episode
    <3>2. \A n : InFile(f, n) <=> f.alt # <<>> /\ n = f.alt[2]
      BY <1>4, <2>4 DEF InFile
    <3> QED
      BY <1>1, <2>2, <3>1, <3>2
  <2> QED
    BY <2>3, <2>4
<1> QED
  BY <1>1, <1>2, <1>3, <1>4

LEMMA SeasonRight ==
    ASSUME NEW dir, NEW fail, MaxEpisode \in Nat, MaxSpan \in Nat,
           dir.files \in Seq(Videos), \A f \in ToSet(dir.files) : WellNamed(f)
    PROVE  LET There(n) == \E f \in ToSet(dir.files) : InFile(f, n)
               numbers  == 1..MaxEpisode
               Gaps     == {n \in numbers : ~There(n) /\ \E high \in numbers :
                                                n < high /\ There(high)}
               verdict  == evaluate_season_warning(dir, fail)
           IN  /\ verdict.rejected <=>
                    /\ fail /\ verdict.season # 0
                    /\ \E low, high \in numbers : low < high /\ There(low) /\ There(high)
                    /\ Gaps # {}
               /\ verdict.rejected => verdict.missing = Gaps
<1> DEFINE files == ToSet(dir.files)
           There(n) == \E f \in files : InFile(f, n)
           numbers  == 1..MaxEpisode
           Gaps     == {n \in numbers : ~There(n) /\ \E high \in numbers :
                                            n < high /\ There(high)}
           episodes == UNION {EpisodesOf(f) : f \in files}
           verdict  == evaluate_season_warning(dir, fail)
           info     == analyze(dir)
<1>1. episodes = {n \in numbers : There(n)}
  <2>1. \A f \in files : f \in Videos
    BY DEF ToSet
  <2>2. \A f \in files : EpisodesOf(f) = {n \in numbers : InFile(f, n)}
    BY <2>1, EpisodesRight
  <2> QED
    BY <2>2
<1> HIDE DEF There, verdict, info, episodes
<1>2. episodes \in SUBSET Nat /\ (\A n \in episodes : n <= MaxEpisode /\ n >= 1)
  BY <1>1
<1>3. IsFiniteSet(episodes)
  BY <1>2, FS_BoundedSetOfNaturals
<1>4. Cardinality(episodes) \in Nat
  BY <1>3, FS_CardinalityType
<1>5. Cardinality(episodes) > 1 <=> \E low, high \in episodes : low < high
  <2>1. CASE \E low, high \in episodes : low < high
    <3>1. PICK low, high \in episodes : low < high
      BY <2>1
    <3>2. episodes # {} /\ \A x : episodes # {x}
      BY <3>1, <1>2
    <3>3. Cardinality(episodes) # 0 /\ Cardinality(episodes) # 1
      BY <3>2, <1>3, FS_EmptySet, FS_Singleton
    <3> QED
      BY <1>4, <2>1, <3>3
  <2>2. CASE ~\E low, high \in episodes : low < high
    <3>1. ASSUME NEW x \in episodes
          PROVE  episodes = {x}
      <4>1. \A y \in episodes : y \in Nat /\ x \in Nat /\ ~(x < y) /\ ~(y < x)
        BY <2>2, <1>2
      <4>2. \A y \in episodes : y = x
        BY <4>1
      <4> QED
        BY <4>2
    <3>2. Cardinality(episodes) = 0 \/ Cardinality(episodes) = 1
      BY <3>1, FS_EmptySet, FS_Singleton
    <3> QED
      BY <2>2, <3>2
  <2> QED
    BY <2>1, <2>2
<1>6. ASSUME episodes # {}
      PROVE  /\ Max(episodes) \in episodes
             /\ 1..Max(episodes) \ episodes = Gaps
             /\ Cardinality(episodes) < Max(episodes) <=> Gaps # {}
  <2>1. Max(episodes) \in episodes /\ \A n \in episodes : n <= Max(episodes)
    BY <1>2, <1>6, GreatestExists
  <2> DEFINE m == Max(episodes)
  <2> HIDE DEF m
  <2>2. m \in 1..MaxEpisode /\ m \in episodes /\ \A n \in episodes : n <= m /\ n >= 1 /\ n \in Nat
    <3>1. m \in episodes /\ \A n \in episodes : n <= m
      BY <2>1 DEF m
    <3> QED
      BY <1>2, <3>1
  <2>3. 1..m \ episodes = Gaps
    <3>1. ASSUME NEW n \in 1..m, n \notin episodes
          PROVE  n \in Gaps
      <4>1. n \in numbers /\ n < m /\ m \in numbers
        BY <2>2, <3>1
      <4> QED
        BY <1>1, <2>2, <3>1, <4>1
    <3>2. ASSUME NEW n \in Gaps
          PROVE  n \in 1..m /\ n \notin episodes
      <4>1. PICK high \in numbers : n < high /\ There(high)
        OBVIOUS
      <4>2. n \in numbers /\ high <= m /\ ~There(n)
        BY <1>1, <2>2, <4>1
      <4> QED
        BY <1>1, <2>2, <4>1, <4>2
    <3> HIDE DEF Gaps
    <3> QED
      BY <3>1, <3>2
  <2>4. IsFiniteSet(1..m) /\ Cardinality(1..m) = m /\ episodes \in SUBSET (1..m)
    BY <2>2, FS_Interval
  <2>5. Cardinality(episodes) <= m /\ (Cardinality(episodes) = m => episodes = 1..m)
    BY <2>4, FS_Subset
  <2>6. episodes = 1..m => Cardinality(episodes) = m
    BY <2>4
  <2>7. Cardinality(episodes) < m <=> episodes # 1..m
    BY <1>4, <2>2, <2>5, <2>6
  <2>8. 1..m \ episodes # {} <=> episodes # 1..m
    BY <2>4
  <2> HIDE DEF Gaps
  <2> QED
    BY <2>2, <2>3, <2>7, <2>8 DEF m
<1>7. files # {} => dir.files # <<>>
  <2>1. dir.files = <<>> => files = {}
    BY DEF ToSet
  <2> QED
    BY <2>1
<1>8. Gaps # {} \/ Cardinality(episodes) > 1 => files # {}
  <2>1. Gaps # {} => \E n \in numbers : There(n)
    OBVIOUS
  <2>2. Cardinality(episodes) > 1 => \E n \in numbers : There(n)
    BY <1>1, <1>5
  <2> QED
    BY <2>1, <2>2 DEF There
<1>9. /\ verdict.season = info.season /\ verdict.missing = info.missing
      /\ verdict.rejected <=> fail /\ dir.directory /\ info.is_season_pack /\ info.is_suspicious
  BY DEF evaluate_season_warning, verdict, info
<1>10. CASE ~dir.directory \/ dir.files = <<>> \/ DetectedSeason(dir) = 0
  <2>1. info = NoPack
    BY <1>10 DEF analyze, info
  <2>2. info.season = 0 /\ ~info.is_season_pack
    BY <2>1 DEF NoPack
  <2>3. ~verdict.rejected /\ verdict.season = 0
    BY <1>9, <2>2
  <2> HIDE DEF Gaps, numbers
  <2>4. /\ verdict.rejected <=>
            /\ fail /\ verdict.season # 0
            /\ \E low, high \in numbers : low < high /\ There(low) /\ There(high)
            /\ Gaps # {}
        /\ verdict.rejected => verdict.missing = Gaps
    BY <2>3
  <2> QED
    BY <2>4 DEF verdict, Gaps, There, numbers
<1>11. CASE ~(~dir.directory \/ dir.files = <<>> \/ DetectedSeason(dir) = 0)
  <2> DEFINE pack == Cardinality(episodes) > 1
  <2>1. info = [season |-> DetectedSeason(dir), is_season_pack |-> pack,
                is_suspicious |-> pack /\ Cardinality(episodes) < Max(episodes),
                missing |-> IF pack THEN 1..Max(episodes) \ episodes ELSE {}]
    BY <1>11 DEF analyze, episodes, info
  <2> HIDE DEF pack
  <2>2. /\ info.season # 0 /\ (info.is_season_pack <=> pack)
        /\ info.is_suspicious <=> pack /\ Cardinality(episodes) < Max(episodes)
        /\ pack => info.missing = 1..Max(episodes) \ episodes
    <3>1. /\ info.season = DetectedSeason(dir) /\ info.is_season_pack = pack
          /\ info.is_suspicious = (pack /\ Cardinality(episodes) < Max(episodes))
          /\ info.missing = IF pack THEN 1..Max(episodes) \ episodes ELSE {}
      BY <2>1, Zenon
    <3> QED
      BY <1>11, <3>1
  <2>3. /\ verdict.season # 0
        /\ verdict.rejected <=> fail /\ pack /\ Cardinality(episodes) < Max(episodes)
        /\ pack => verdict.missing = 1..Max(episodes) \ episodes
    BY <1>9, <1>11, <2>2
  <2>4. pack => episodes # {}
    BY <1>5 DEF pack
  <2>5. pack <=> \E low, high \in numbers : low < high /\ There(low) /\ There(high)
    BY <1>1, <1>5 DEF pack
  <2> HIDE DEF Gaps, numbers
  <2>6. /\ verdict.rejected <=> fail /\ pack /\ Gaps # {}
        /\ verdict.rejected => verdict.missing = Gaps
    BY <1>6, <2>3, <2>4
  <2>7. /\ verdict.rejected <=>
            /\ fail /\ verdict.season # 0
            /\ \E low, high \in numbers : low < high /\ There(low) /\ There(high)
            /\ Gaps # {}
        /\ verdict.rejected => verdict.missing = Gaps
    BY <2>3, <2>5, <2>6
  <2> QED
    BY <2>7 DEF verdict, Gaps, There, numbers
<1> QED
  BY <1>10, <1>11
=================================================================================
