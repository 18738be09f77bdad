----------------------------- MODULE FoldProofs -----------------------------
(***************************************************************************)
(* Induction over data, for the folds the models are built from. A module  *)
(* that needs it takes an instance of this one, with its own operator and  *)
(* what it keeps for Op and Holds.                                         *)
(***************************************************************************)
EXTENDS Integers, Sequences, SequencesExt, WellFoundedInduction

CONSTANTS
    Op(_, _),       \* what is folded
    Holds(_, _)     \* what holds of a number of elements and the value so far

\* A set of naturals that has an element has a least one.
LEMMA LeastNatural ==
    ASSUME NEW T, T \subseteq Nat, T # {}
    PROVE  \E n \in T : \A m \in T : n <= m
<1> DEFINE R == OpToRel(<, Nat)
<1>1. IsWellFoundedOn(R, Nat)
  BY NatLessThanWellFounded
<1>2. \A x, y \in Nat : x < y => <<x, y>> \in R
  BY DEF OpToRel
<1> HIDE DEF R
<1>3. PICK n \in T : \A m \in T : ~(<<m, n>> \in R)
  BY <1>1, WFMin
<1>4. \A m \in T : n <= m
  <2> SUFFICES ASSUME NEW m \in T PROVE n <= m
    OBVIOUS
  <2>1. n \in Nat /\ m \in Nat /\ ~(<<m, n>> \in R)
    BY <1>3
  <2>2. QED BY <2>1, <1>2
<1>5. QED BY <1>4

\* What holds of zero and goes from each natural to the next holds of all.
LEMMA SetInduction ==
    ASSUME NEW S, 0 \in S, \A n \in Nat : n \in S => n + 1 \in S
    PROVE  Nat \subseteq S
<1> DEFINE T == Nat \ S
<1> SUFFICES ASSUME T # {} PROVE FALSE
  OBVIOUS
<1>1. PICK n \in T : \A m \in T : n <= m
  <2> HIDE DEF T
  <2>1. T \subseteq Nat
    BY DEF T
  <2>2. QED BY <2>1, LeastNatural
<1>2. n - 1 \in Nat /\ n - 1 \in S
  BY <1>1
<1>3. QED BY <1>1, <1>2

\* A set of numbers up to a bound that has an element has a greatest one, and
\* there is one greatest element only.
LEMMA MaxIsGreatest ==
    ASSUME NEW n \in Nat, NEW s, s \subseteq 1..n, s # {}
    PROVE  /\ Max(s) \in s /\ \A m \in s : m <= Max(s)
           /\ \A x \in s : (\A m \in s : m <= x) => x = Max(s)
<1> DEFINE T == {n - m : m \in s}
<1>1. T \subseteq Nat /\ T # {}
  <2>1. \A m \in s : n - m \in Nat
    OBVIOUS
  <2>2. T # {}
    OBVIOUS
  <2>3. QED BY <2>1, <2>2
<1>2. PICK d \in T : \A m \in T : d <= m
  <2> HIDE DEF T
  <2>1. QED BY <1>1, LeastNatural
<1>3. PICK x \in s : d = n - x
  BY <1>2
<1>4. \A m \in s : m <= x
  <2> SUFFICES ASSUME NEW m \in s PROVE m <= x
    OBVIOUS
  <2>1. n - m \in T /\ m \in 1..n /\ x \in 1..n
    OBVIOUS
  <2>2. n - x <= n - m
    BY <1>2, <1>3, <2>1
  <2>3. QED BY <2>1, <2>2
<1>5. \E y \in s : \A m \in s : y >= m
  BY <1>4
<1>6. Max(s) \in s /\ \A m \in s : Max(s) >= m
  BY <1>5 DEF Max
<1> HIDE DEF T
<1> DEFINE top == Max(s)
<1>6a. /\ top \in s /\ top \in Int /\ \A m \in s : m \in Int /\ m <= top
  <2>1. \A m \in s : m \in Int
    OBVIOUS
  <2> HIDE DEF top
  <2>2. top \in s /\ \A m \in s : top >= m
    BY <1>6 DEF top
  <2>3. QED BY <2>1, <2>2
<1> HIDE DEF top
<1>7. \A y \in s : (\A m \in s : m <= y) => y = top
  <2> SUFFICES ASSUME NEW y \in s, \A m \in s : m <= y PROVE y = top
    OBVIOUS
  <2>1. y \in Int /\ top \in Int /\ y <= top /\ top <= y
    BY <1>6a
  <2>2. QED BY <2>1
<1>8. QED BY <1>6a, <1>7 DEF top

----------------------------------------------------------------------------
\* What is folded over the indices of a sequence, from the left.
Folded(base, seq, g, k) ==
    g = [s \in SUBSET (1..k) |-> IF s = {} THEN base ELSE Op(g[s \ {Max(s)}], seq[Max(s)])]

\* The recursive function by which a fold is defined exists.
LEMMA FoldExists ==
    ASSUME NEW base, NEW seq
    PROVE  \A k \in Nat : \E g : Folded(base, seq, g, k)
<1> DEFINE S == {k \in Nat : \E g : Folded(base, seq, g, k)}
<1>1. 0 \in S
  <2> DEFINE g == [s \in SUBSET (1..0) |-> base]
  <2>1. 1..0 = {}
    OBVIOUS
  <2>2. Folded(base, seq, g, 0)
    BY <2>1 DEF Folded
  <2>3. QED BY <2>2
<1>2. ASSUME NEW k \in Nat, k \in S PROVE k + 1 \in S
  <2>1. PICK g : Folded(base, seq, g, k)
    BY <1>2
  <2> DEFINE h == [s \in SUBSET (1..(k + 1)) |->
                      IF k + 1 \in s THEN Op(g[s \ {k + 1}], seq[k + 1]) ELSE g[s]]
             v(f, s) == IF s = {} THEN base ELSE Op(f[s \ {Max(s)}], seq[Max(s)])
  <2>2. \A s \in SUBSET (1..k) : s \in SUBSET (1..(k + 1)) /\ h[s] = g[s]
    OBVIOUS
  <2>3. ASSUME NEW s \in SUBSET (1..(k + 1)) PROVE h[s] = v(h, s)
    <3>1. CASE k + 1 \in s
      <4>1. Max(s) = k + 1
        <5>1. \A m \in s : m <= k + 1
          OBVIOUS
        <5>2. k + 1 \in Nat /\ s \subseteq 1..(k + 1) /\ s # {}
          BY <3>1
        <5> HIDE DEF h
        <5>3. QED BY <3>1, <5>1, <5>2, MaxIsGreatest
      <4>2. s \ {k + 1} \in SUBSET (1..k)
        OBVIOUS
      <4>3. h[s] = Op(g[s \ {k + 1}], seq[k + 1])
        BY <3>1
      <4> HIDE DEF h
      <4>4. QED BY <3>1, <4>1, <4>2, <4>3, <2>2
    <3>2. CASE k + 1 \notin s
      <4>1. s \in SUBSET (1..k)
        BY <3>2
      <4>2. h[s] = g[s]
        BY <4>1, <2>2
      <4>3. g[s] = v(g, s)
        BY <2>1, <4>1 DEF Folded
      <4>4. s # {} => h[s \ {Max(s)}] = g[s \ {Max(s)}]
        BY <4>1, <2>2
      <4> HIDE DEF h
      <4>5. QED BY <4>2, <4>3, <4>4
    <3>3. QED BY <3>1, <3>2
  <2>4. h = [s \in SUBSET (1..(k + 1)) |-> v(h, s)]
    <3>1. DOMAIN h = SUBSET (1..(k + 1)) /\ h = [s \in DOMAIN h |-> h[s]]
      OBVIOUS
    <3> HIDE DEF h
    <3>2. QED BY <2>3, <3>1
  <2>5. Folded(base, seq, h, k + 1)
    <3> HIDE DEF h
    <3>1. QED BY <2>4 DEF Folded
  <2>6. QED BY <2>5
<1>3. Nat \subseteq S
  <2> HIDE DEF S
  <2>1. QED BY <1>1, <1>2, SetInduction
<1>4. QED BY <1>3

\* The values a fold of n elements goes through, from the base on.
Values(base, seq, n) == [k \in 0..n |-> (CHOOSE f : Folded(base, seq, f, n))[1..k]]
FoldOf(base, seq) == FoldLeft(Op, base, seq)

\* They are the base, what each element makes of the value before it, and last the
\* value of the fold: the way to an induction whose claim names other things.
LEMMA FoldSteps ==
    ASSUME NEW n \in Nat, NEW seq, DOMAIN seq = 1..n, NEW base
    PROVE  LET v == Values(base, seq, n)
           IN  /\ v[0] = base /\ v[n] = FoldOf(base, seq)
               /\ \A k \in 1..n : v[k] = Op(v[k - 1], seq[k])
<1> DEFINE g == CHOOSE f : Folded(base, seq, f, n)
           v == Values(base, seq, n)
<1>1. Folded(base, seq, g, n)
  BY FoldExists
<1>2. FoldOf(base, seq) = g[1..n]
  BY DEF FoldOf, FoldLeft, MapThenFoldSet, Folded
<1>3. v = [k \in 0..n |-> g[1..k]]
  BY DEF Values
<1> HIDE DEF g, v
<1>4. v[0] = base
  <2>1. 1..0 = {} /\ g[{}] = base
    BY <1>1 DEF Folded
  <2>2. QED BY <1>3, <2>1
<1>5. ASSUME NEW k \in 1..n PROVE v[k] = Op(v[k - 1], seq[k])
  <2>1. 1..k \in SUBSET (1..n) /\ k \in 1..k /\ k \in Nat /\ k - 1 \in 0..n /\ k \in 0..n
    OBVIOUS
  <2>2. Max(1..k) = k
    <3>1. \A m \in 1..k : m <= k
      OBVIOUS
    <3>2. QED BY <2>1, <3>1, MaxIsGreatest
  <2>3. (1..k) \ {k} = 1..(k - 1)
    OBVIOUS
  <2>4. g[1..k] = Op(g[1..(k - 1)], seq[k])
    BY <1>1, <2>1, <2>2, <2>3 DEF Folded
  <2>5. QED BY <1>3, <2>1, <2>4
<1>6. v[n] = FoldOf(base, seq)
  BY <1>2, <1>3
<1>7. QED BY <1>4, <1>5, <1>6 DEF v

\* What holds of the value a fold starts from, and is kept from one element of
\* the sequence to the next, holds of the value it ends in.
LEMMA FoldLeftHolds ==
    ASSUME NEW n \in Nat, NEW seq, DOMAIN seq = 1..n, NEW base, Holds(0, base),
           \A k \in 1..n : \A v : Holds(k - 1, v) => Holds(k, Op(v, seq[k]))
    PROVE  Holds(n, FoldLeft(Op, base, seq))
<1> DEFINE v == Values(base, seq, n)
<1>1. /\ v[0] = base /\ v[n] = FoldOf(base, seq)
      /\ \A k \in 1..n : v[k] = Op(v[k - 1], seq[k])
  BY FoldSteps
<1> HIDE DEF v
<1> DEFINE S == {k \in Nat : k <= n => Holds(k, v[k])}
<1>2. 0 \in S
  BY <1>1
<1>3. ASSUME NEW k \in Nat, k \in S PROVE k + 1 \in S
  <2> SUFFICES ASSUME k + 1 <= n PROVE Holds(k + 1, v[k + 1])
    OBVIOUS
  <2>1. k + 1 \in 1..n /\ (k + 1) - 1 = k /\ Holds(k, v[k])
    BY <1>3
  <2>2. v[k + 1] = Op(v[k], seq[k + 1])
    BY <1>1, <2>1
  <2>3. Holds((k + 1) - 1, v[k]) => Holds(k + 1, Op(v[k], seq[k + 1]))
    BY <2>1
  <2>4. QED BY <2>1, <2>2, <2>3
<1>4. Nat \subseteq S
  <2> HIDE DEF S
  <2>1. QED BY <1>2, <1>3, SetInduction
<1>5. QED BY <1>1, <1>4 DEF FoldOf

----------------------------------------------------------------------------
\* The sequences of a sequence, joined up to the k-th.
Joined(seqs, g, k) == g = [i \in 1..k |-> IF i = 1 THEN seqs[i] ELSE g[i - 1] \o seqs[i]]

\* The recursive function by which sequences are joined exists.
LEMMA JoinExists ==
    ASSUME NEW seqs
    PROVE  \A k \in Nat : \E g : Joined(seqs, g, k)
<1> DEFINE S == {k \in Nat : \E g : Joined(seqs, g, k)}
<1>1. 0 \in S
  <2>1. Joined(seqs, [i \in 1..0 |-> 0], 0)
    BY DEF Joined
  <2>2. QED BY <2>1
<1>2. ASSUME NEW k \in Nat, k \in S PROVE k + 1 \in S
  <2>1. PICK g : Joined(seqs, g, k)
    BY <1>2
  <2> DEFINE h == [i \in 1..(k + 1) |->
                      IF i \in 1..k THEN g[i]
                      ELSE IF i = 1 THEN seqs[i] ELSE g[k] \o seqs[i]]
             v(f, i) == IF i = 1 THEN seqs[i] ELSE f[i - 1] \o seqs[i]
  <2>2. ASSUME NEW i \in 1..(k + 1) PROVE h[i] = v(h, i)
    <3>1. CASE i \in 1..k
      <4>1. h[i] = g[i] /\ g[i] = v(g, i)
        BY <2>1, <3>1 DEF Joined
      <4>2. i # 1 => i - 1 \in 1..k /\ h[i - 1] = g[i - 1]
        BY <3>1
      <4> HIDE DEF h
      <4>3. QED BY <4>1, <4>2
    <3>2. CASE i = k + 1
      <4>1. h[i] = IF i = 1 THEN seqs[i] ELSE g[k] \o seqs[i]
        BY <3>2
      <4>2. i # 1 => k \in 1..k /\ i - 1 = k /\ h[i - 1] = g[k]
        BY <3>2
      <4> HIDE DEF h
      <4>3. QED BY <4>1, <4>2
    <3>3. QED BY <3>1, <3>2
  <2>3. h = [i \in 1..(k + 1) |-> v(h, i)]
    <3>1. DOMAIN h = 1..(k + 1) /\ h = [i \in DOMAIN h |-> h[i]]
      OBVIOUS
    <3> HIDE DEF h
    <3>2. QED BY <2>2, <3>1
  <2>4. Joined(seqs, h, k + 1)
    <3> HIDE DEF h
    <3>1. QED BY <2>3 DEF Joined
  <2>5. QED BY <2>4
<1>3. Nat \subseteq S
  <2> HIDE DEF S
  <2>1. QED BY <1>1, <1>2, SetInduction
<1>4. QED BY <1>3

\* Sequences over a set, joined, are a sequence over it.
LEMMA FlattenSeqOver ==
    ASSUME NEW G, NEW n \in Nat, NEW seqs, seqs \in [1..n -> Seq(G)]
    PROVE  FlattenSeq(seqs) \in Seq(G)
<1>1. seqs \in Seq(Seq(G)) /\ Len(seqs) = n
  OBVIOUS
<1>2. CASE n = 0
  <2>1. FlattenSeq(seqs) = seqs
    BY <1>1, <1>2 DEF FlattenSeq
  <2>2. seqs = <<>>
    BY <1>1, <1>2
  <2>3. QED BY <2>1, <2>2
<1>3. CASE n # 0
  <2> DEFINE g == CHOOSE f : Joined(seqs, f, n)
  <2>1. Joined(seqs, g, n)
    BY JoinExists
  <2>2. FlattenSeq(seqs) = g[n]
    BY <1>1, <1>3 DEF FlattenSeq, Joined
  <2> HIDE DEF g
  <2> DEFINE S == {k \in Nat : k + 1 <= n => g[k + 1] \in Seq(G)}
  <2>3. 0 \in S
    <3>1. 1 \in 1..n /\ g[1] = seqs[1]
      BY <1>3, <2>1 DEF Joined
    <3>2. QED BY <3>1
  <2>4. ASSUME NEW k \in Nat, k \in S PROVE k + 1 \in S
    <3> SUFFICES ASSUME k + 2 <= n PROVE g[k + 2] \in Seq(G)
      OBVIOUS
    <3>1. g[k + 2] = g[k + 1] \o seqs[k + 2]
      <4>1. k + 2 \in 1..n /\ k + 2 # 1 /\ (k + 2) - 1 = k + 1
        OBVIOUS
      <4> HIDE DEF S
      <4>2. QED BY <2>1, <4>1 DEF Joined
    <3>2. g[k + 1] \in Seq(G) /\ seqs[k + 2] \in Seq(G)
      BY <2>4
    <3>3. QED BY <3>1, <3>2
  <2>5. Nat \subseteq S
    <3> HIDE DEF S
    <3>1. QED BY <2>3, <2>4, SetInduction
  <2>6. n - 1 \in Nat /\ (n - 1) + 1 = n
    BY <1>3
  <2>7. n - 1 \in S
    <3> HIDE DEF S
    <3>1. QED BY <2>5, <2>6
  <2>8. g[n] \in Seq(G)
    BY <2>6, <2>7
  <2>9. QED BY <2>2, <2>8
<1>4. QED BY <1>2, <1>3
============================================================================
