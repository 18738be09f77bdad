----------------------------- MODULE NodeProofs -----------------------------
(***************************************************************************)
(* Theorems about what a node of the search asks for: its moves, and       *)
(* whether its position has been met before.                               *)
(*                                                                         *)
(* The move picker, for any lists of moves the generators may give, any    *)
(* scores at every stage and any values of the exchanges: every legal move *)
(* of its kind comes out once, none comes out twice, and skipping quiets   *)
(* loses quiets only.                                                      *)
(*                                                                         *)
(* The repetition queries, for any places, checks and hands, any window    *)
(* and lines of any length: what they answer is true of the line played.   *)
(***************************************************************************)
EXTENDS MovePicker, Repetition, SequenceTheorems, FiniteSetTheorems, TLAPS

Entries == [mv : Moves, value : Int]
\* Sequences of entries of a length.
Lists(n) == [1..n -> Entries]

Distinct(a) == \A i, j \in DOMAIN a : a[i].mv = a[j].mv => i = j
\* b has the entries of a, in any order.
SameEntries(a, b) ==
    /\ \A i \in DOMAIN b : \E j \in DOMAIN a : b[i] = a[j]
    /\ \A j \in DOMAIN a : \E i \in DOMAIN b : b[i] = a[j]

\* The moves kept of the first k of the list of this kind.
KeptFirst(k, list) ==
    /\ list \in Seq(Moves) /\ IsInjective(list)
    /\ ToSet(list) = {m \in {ListOf(picker.kind)[j] : j \in 1..k} : IsLegal(m) /\ m # picker.tt}
\* What the steps of a sort and of a compaction are asked for is stated by them.
AnyValue(k, v) == k = k /\ v = v

Keeping == INSTANCE FoldProofs WITH Op <- Keep, Holds <- KeptFirst
Sorting == INSTANCE FoldProofs WITH Op <- Promoted, Holds <- AnyValue
Compacting == INSTANCE FoldProofs WITH Op <- Compact, Holds <- AnyValue

----------------------------------------------------------------------------
(* Sorting.                                                                *)

\* The first of a set of numbers.
LEMMA FirstIsLeast ==
    ASSUME NEW S, S \subseteq Nat, S # {}
    PROVE  First(S) \in S /\ \A j \in S : First(S) <= j
<1>1. \E i \in S : \A j \in S : i <= j
  BY Sorting!LeastNatural
<1>2. QED BY <1>1 DEF First

\* There is a place for every element that is promoted.
LEMMA PlaceExists ==
    ASSUME NEW b, NEW last \in Nat \ {0}, NEW e
    PROVE  PlaceFor(b, last, e) \in 1..last
<1> DEFINE S == {q \in 1..last : \A i \in q..(last - 1) : b[i].value < e.value}
<1>1. S \subseteq Nat /\ last \in S
  OBVIOUS
<1>2. PICK q \in S : \A r \in S : q <= r
  <2> HIDE DEF S
  <2>1. QED BY <1>1, Sorting!LeastNatural
<1>3. q > 1 => ~(b[q - 1].value < e.value)
  <2> SUFFICES ASSUME q > 1, b[q - 1].value < e.value PROVE FALSE
    OBVIOUS
  <2>1. q \in 1..last /\ \A i \in q..(last - 1) : b[i].value < e.value
    BY <1>2
  <2>2. \A i \in (q - 1)..(last - 1) : i = q - 1 \/ i \in q..(last - 1)
    BY <2>1
  <2>3. q - 1 \in S
    BY <2>1, <2>2
  <2>4. QED BY <1>2, <2>1, <2>3
<1>4. \E r \in 1..last : /\ \A i \in r..(last - 1) : b[i].value < e.value
                         /\ r > 1 => ~(b[r - 1].value < e.value)
  BY <1>2, <1>3
<1>5. QED BY <1>4 DEF PlaceFor

\* A promotion moves entries, each to a place of its own.
LEMMA PromotedKeeps ==
    ASSUME NEW n \in Nat, NEW s, s.a \in Lists(n), DOMAIN s = {"last", "a", "limit"},
           NEW p \in 1..n, s.last \in Nat, s.last < p
    PROVE  LET t == Promoted(s, p)
           IN  /\ t.a \in Lists(n) /\ DOMAIN t = {"last", "a", "limit"}
               /\ t.last \in {s.last, s.last + 1}
               /\ SameEntries(s.a, t.a)
               /\ Distinct(s.a) => Distinct(t.a)
<1> DEFINE e == s.a[p]
           last == s.last + 1
           b == [s.a EXCEPT ![p] = s.a[last]]
           q == PlaceFor(b, last, e)
           c == [i \in DOMAIN b |-> IF i = q THEN e
                                    ELSE IF i \in (q + 1)..last THEN b[i - 1] ELSE b[i]]
           from(i) == IF i = q THEN p ELSE IF i \in (q + 1)..last THEN i - 1
                      ELSE IF i = p THEN last ELSE i
           to(j) == IF j = p THEN q ELSE IF j \in q..(last - 1) THEN j + 1
                    ELSE IF j = last THEN p ELSE j
<1>1. last \in 1..p /\ last \in Nat \ {0} /\ p \in 1..n /\ last \in 1..n
  OBVIOUS
<1>2. q \in 1..last
  <2> HIDE DEF b, last, e
  <2>1. QED BY <1>1, PlaceExists
<1>3. /\ b \in Lists(n) /\ DOMAIN b = 1..n /\ b[p] = s.a[last]
      /\ \A i \in 1..n : i # p => b[i] = s.a[i]
  BY <1>1 DEF Lists
<1>4. DOMAIN s.a = 1..n /\ \A i \in 1..n : s.a[i] \in Entries
  BY DEF Lists
<1> HIDE DEF b, q, last
<1>5. \A i \in 1..n : from(i) \in 1..n /\ c[i] = s.a[from(i)]
  <2> SUFFICES ASSUME NEW i \in 1..n PROVE from(i) \in 1..n /\ c[i] = s.a[from(i)]
    OBVIOUS
  <2>1. from(i) \in 1..n
    BY <1>1, <1>2
  <2>2. CASE i = q
    BY <1>3, <2>2
  <2>3. CASE i # q /\ i \in (q + 1)..last
    <3>1. i - 1 \in 1..n /\ i - 1 # p
      BY <1>1, <1>2, <2>3
    <3>2. QED BY <1>3, <2>3, <3>1
  <2>4. CASE i # q /\ i \notin (q + 1)..last
    <3>1. c[i] = b[i]
      BY <1>3, <2>4
    <3>2. b[i] = IF i = p THEN s.a[last] ELSE s.a[i]
      BY <1>3
    <3>3. from(i) = IF i = p THEN last ELSE i
      BY <2>4
    <3> HIDE DEF c, from
    <3>4. QED BY <2>1, <3>1, <3>2, <3>3
  <2>5. QED BY <2>1, <2>2, <2>3, <2>4
<1>6. \A i, j \in 1..n : from(i) = from(j) => i = j
  BY <1>1, <1>2
<1>7. \A j \in 1..n : to(j) \in 1..n /\ from(to(j)) = j
  BY <1>1, <1>2
<1>8. c \in Lists(n) /\ DOMAIN c = 1..n
  <2>1. c = [i \in 1..n |-> c[i]]
    BY <1>3
  <2>2. \A i \in 1..n : c[i] \in Entries
    <3> HIDE DEF c, from
    <3>1. QED BY <1>4, <1>5
  <2> HIDE DEF c
  <2>3. QED BY <2>1, <2>2 DEF Lists
<1> HIDE DEF c, from, to
<1>9. SameEntries(s.a, c)
  BY <1>4, <1>5, <1>7, <1>8 DEF SameEntries
<1>10. Distinct(s.a) => Distinct(c)
  <2> SUFFICES ASSUME Distinct(s.a), NEW i \in 1..n, NEW j \in 1..n, c[i].mv = c[j].mv PROVE i = j
    BY <1>8 DEF Distinct
  <2>1. from(i) \in 1..n /\ from(j) \in 1..n /\ s.a[from(i)].mv = s.a[from(j)].mv
    BY <1>5
  <2>2. from(i) = from(j)
    BY <1>4, <2>1 DEF Distinct
  <2>3. QED BY <1>6, <2>2
<1> DEFINE t == Promoted(s, p)
<1>11. CASE e.value < s.limit
  <2>1. t = s
    BY <1>11 DEF Promoted
  <2>2. SameEntries(s.a, s.a)
    BY DEF SameEntries
  <2>3. QED BY <2>1, <2>2
<1>12. CASE ~(e.value < s.limit)
  <2>1. t = [s EXCEPT !.last = last, !.a = c]
    BY <1>12 DEF Promoted, last, b, q, c
  <2>2. t.a = c /\ t.last = last /\ DOMAIN t = DOMAIN s
    BY <2>1
  <2> HIDE DEF t
  <2>3. QED BY <1>8, <1>9, <1>10, <2>2 DEF last, t
<1>13. QED BY <1>11, <1>12

\* Having the same entries carries on.
LEMMA SameEntriesCarries ==
    ASSUME NEW a, NEW b, NEW c, SameEntries(a, b), SameEntries(b, c)
    PROVE  SameEntries(a, c)
BY DEF SameEntries

\* The sort keeps the entries.
LEMMA SortKeeps ==
    ASSUME NEW n \in Nat, NEW a \in Lists(n), NEW limit
    PROVE  LET b == PartialInsertionSort(a, limit)
           IN  /\ b \in Lists(n) /\ SameEntries(a, b)
               /\ Distinct(a) => Distinct(b)
<1> DEFINE b == PartialInsertionSort(a, limit)
<1>1. SameEntries(a, a)
  BY DEF SameEntries
<1>2. CASE a = <<>>
  <2>1. b = a
    BY <1>2 DEF PartialInsertionSort
  <2>2. QED BY <1>1, <2>1
<1>3. CASE a # <<>>
  <2>0. a \in Seq(Entries) /\ Len(a) = n /\ DOMAIN a = 1..n
    BY DEF Lists
  <2>1. n # 0
    BY <1>3, <2>0, EmptySeq
  <2> DEFINE base == [last |-> 1, a |-> a, limit |-> limit]
             seq == [i \in 1..(Len(a) - 1) |-> i + 1]
             m == n - 1
             v == Sorting!Values(base, seq, m)
  <2>2. m \in Nat /\ DOMAIN seq = 1..m /\ \A k \in 1..m : seq[k] = k + 1
    BY <2>0, <2>1
  <2>3. base.a = a /\ base.last = 1 /\ DOMAIN base = {"last", "a", "limit"}
    OBVIOUS
  <2> HIDE DEF base, seq
  <2>4. /\ v[0] = base /\ v[m] = Sorting!FoldOf(base, seq)
        /\ \A k \in 1..m : v[k] = Promoted(v[k - 1], seq[k])
    <3>1. m \in Nat /\ DOMAIN seq = 1..m
      BY <2>2
    <3> HIDE DEF m
    <3>2. QED BY <3>1, Sorting!FoldSteps
  <2> HIDE DEF v
  <2> DEFINE P(k) == /\ v[k].a \in Lists(n) /\ DOMAIN v[k] = {"last", "a", "limit"}
                     /\ v[k].last \in 1..(k + 1) /\ SameEntries(a, v[k].a)
                     /\ Distinct(a) => Distinct(v[k].a)
             S == {k \in Nat : k <= m => P(k)}
  <2>5. 0 \in S
    BY <1>1, <2>3, <2>4
  <2>6. ASSUME NEW k \in Nat, k \in S PROVE k + 1 \in S
    <3> SUFFICES ASSUME k + 1 <= m PROVE P(k + 1)
      OBVIOUS
    <3>1. k + 1 \in 1..m /\ (k + 1) - 1 = k /\ k + 2 \in 1..n
      BY <2>2
    <3>2. P(k)
      BY <2>2, <2>6
    <3>3. v[k + 1] = Promoted(v[k], k + 2)
      BY <2>2, <2>4, <3>1
    <3> DEFINE t == Promoted(v[k], k + 2)
    <3>4. v[k].last \in Nat /\ v[k].last < k + 2
      BY <3>2
    <3>5. /\ t.a \in Lists(n) /\ DOMAIN t = {"last", "a", "limit"}
          /\ t.last \in {v[k].last, v[k].last + 1}
          /\ SameEntries(v[k].a, t.a)
          /\ Distinct(v[k].a) => Distinct(t.a)
      BY <3>1, <3>2, <3>4, PromotedKeeps
    <3> HIDE DEF t
    <3>6. SameEntries(a, t.a)
      BY <3>2, <3>5, SameEntriesCarries
    <3>7. t.last \in 1..((k + 1) + 1)
      BY <3>2, <3>5
    <3>8. QED BY <3>2, <3>3, <3>5, <3>6, <3>7 DEF t
  <2>7. Nat \subseteq S
    <3> HIDE DEF S
    <3>1. QED BY <2>5, <2>6, Sorting!SetInduction
  <2>8. P(m)
    BY <2>2, <2>7
  <2>9. b = v[m].a
    <3>1. Sorting!FoldOf(base, seq) = FoldLeft(Promoted, base, seq)
      BY DEF Sorting!FoldOf, FoldLeft, Sorting!FoldLeft, MapThenFoldSet, Sorting!MapThenFoldSet,
             Max, Sorting!Max
    <3>2. b = FoldLeft(Promoted, base, seq).a
      BY <1>3 DEF PartialInsertionSort, base, seq
    <3>3. QED BY <2>4, <3>1, <3>2
  <2>10. QED BY <2>8, <2>9
<1>4. QED BY <1>2, <1>3

----------------------------------------------------------------------------
(* The lists of the stages.                                                *)

\* The generators' lists, one or both, have every move once.
LEMMA ListOnce ==
    ASSUME NEW kind
    PROVE  /\ ListOf(kind) \in Seq(Moves) /\ IsInjective(ListOf(kind))
           /\ ToSet(ListOf(kind)) = ToSet(Captures) \cup (IF kind = "Evasion" THEN ToSet(Quiets) ELSE {})
<1>1. CASE kind # "Evasion"
  BY <1>1, GeneratorsAssumption DEF ListOf
<1>2. CASE kind = "Evasion"
  <2> DEFINE both == Captures \o Quiets
             c == Len(Captures)
             q == Len(Quiets)
  <2>1. /\ Captures \in Seq(Moves) /\ Quiets \in Seq(Moves)
        /\ DOMAIN Captures = 1..c /\ DOMAIN Quiets = 1..q /\ c \in Nat /\ q \in Nat
    BY GeneratorsAssumption
  <2>2. /\ both \in Seq(Moves) /\ DOMAIN both = 1..(c + q)
        /\ \A i \in 1..c : both[i] = Captures[i]
        /\ \A i \in (c + 1)..(c + q) : both[i] = Quiets[i - c] /\ i - c \in 1..q
        /\ \A i \in 1..q : both[i + c] = Quiets[i] /\ i + c \in (c + 1)..(c + q)
    BY <2>1, ConcatProperties
  <2> HIDE DEF both, c, q
  <2>3. \A i \in 1..(c + q) : i \in 1..c \/ i \in (c + 1)..(c + q)
    BY <2>1
  <2>4. ToSet(both) = ToSet(Captures) \cup ToSet(Quiets)
    <3>1. \A i \in 1..c : i \in 1..(c + q)
      BY <2>1
    <3>2. \A i \in (c + 1)..(c + q) : i \in 1..(c + q)
      BY <2>1
    <3>3. \A i \in 1..(c + q) : both[i] \in ToSet(Captures) \cup ToSet(Quiets)
      BY <2>1, <2>2, <2>3 DEF ToSet
    <3>4. \A i \in 1..c : Captures[i] \in ToSet(both)
      BY <2>1, <2>2, <3>1 DEF ToSet
    <3>5. \A i \in 1..q : Quiets[i] \in ToSet(both)
      BY <2>1, <2>2, <3>2 DEF ToSet
    <3>6. ToSet(both) \subseteq ToSet(Captures) \cup ToSet(Quiets)
      BY <2>2, <3>3 DEF ToSet
    <3>7. ToSet(Captures) \subseteq ToSet(both) /\ ToSet(Quiets) \subseteq ToSet(both)
      BY <2>1, <3>4, <3>5 DEF ToSet
    <3>8. QED BY <3>6, <3>7
  <2>5. ASSUME NEW i \in DOMAIN both, NEW j \in DOMAIN both, both[i] = both[j] PROVE i = j
    <3>1. CASE i \in 1..c /\ j \in 1..c
      BY <2>1, <2>2, <2>5, <3>1, GeneratorsAssumption DEF IsInjective
    <3>2. CASE i \in (c + 1)..(c + q) /\ j \in (c + 1)..(c + q)
      <4>1. i - c \in 1..q /\ j - c \in 1..q /\ Quiets[i - c] = Quiets[j - c]
        BY <2>2, <2>5, <3>2
      <4>2. i - c = j - c
        BY <2>1, <4>1, GeneratorsAssumption DEF IsInjective
      <4>3. QED BY <2>1, <3>2, <4>2
    <3>3. ASSUME NEW x \in 1..c, NEW y \in (c + 1)..(c + q) PROVE both[x] # both[y]
      <4>1. both[x] \in ToSet(Captures) /\ both[y] \in ToSet(Quiets)
        BY <2>1, <2>2 DEF ToSet
      <4>2. QED BY <4>1, GeneratorsAssumption
    <3>4. QED BY <2>2, <2>3, <2>5, <3>1, <3>2, <3>3
  <2>6. ListOf(kind) = both
    BY <1>2 DEF ListOf, both
  <2>7. QED BY <1>2, <2>2, <2>4, <2>5, <2>6 DEF IsInjective
<1>3. QED BY <1>1, <1>2

\* What is kept of the list: the legal moves but the table's, each once.
LEMMA KeptRight ==
    LET kept == FoldLeft(Keep, <<>>, ListOf(picker.kind))
    IN  /\ kept \in Seq(Moves) /\ IsInjective(kept)
        /\ ToSet(kept) = {m \in ToSet(ListOf(picker.kind)) : IsLegal(m) /\ m # picker.tt}
<1> DEFINE list == ListOf(picker.kind)
           n == Len(list)
           kept == FoldLeft(Keep, <<>>, list)
<1>1. /\ list \in Seq(Moves) /\ IsInjective(list) /\ n \in Nat /\ DOMAIN list = 1..n
      /\ \A i \in 1..n : list[i] \in Moves
  <2>1. list \in Seq(Moves) /\ IsInjective(list)
    BY ListOnce
  <2> HIDE DEF list
  <2>2. QED BY <2>1
<1>2. KeptFirst(0, <<>>)
  <2>1. <<>> \in Seq(Moves) /\ DOMAIN <<>> = {} /\ 1..0 = {}
    OBVIOUS
  <2>2. QED BY <2>1 DEF KeptFirst, IsInjective, ToSet
<1>3. ASSUME NEW k \in 1..n, NEW v, KeptFirst(k - 1, v) PROVE KeptFirst(k, Keep(v, list[k]))
  <2> DEFINE m == list[k]
             new == Keep(v, m)
  <2>1. /\ v \in Seq(Moves) /\ IsInjective(v) /\ m \in Moves
        /\ ToSet(v) = {x \in {list[j] : j \in 1..(k - 1)} : IsLegal(x) /\ x # picker.tt}
    BY <1>1, <1>3 DEF KeptFirst
  <2>2. m \notin {list[j] : j \in 1..(k - 1)}
    <3> SUFFICES ASSUME NEW j \in 1..(k - 1), m = list[j] PROVE FALSE
      OBVIOUS
    <3>1. j \in DOMAIN list /\ k \in DOMAIN list /\ j # k /\ list[j] = list[k]
      BY <1>1
    <3> HIDE DEF list
    <3>2. QED BY <1>1, <3>1 DEF IsInjective
  <2>3. {list[j] : j \in 1..k} = {list[j] : j \in 1..(k - 1)} \cup {m}
    <3>1. \A j \in 1..k : j \in 1..(k - 1) \/ j = k
      OBVIOUS
    <3>2. (\A j \in 1..(k - 1) : j \in 1..k) /\ k \in 1..k
      OBVIOUS
    <3> HIDE DEF list
    <3>3. QED BY <3>1, <3>2
  <2>4. CASE ~(IsLegal(m) /\ m # picker.tt)
    <3>1. new = v
      BY <2>4 DEF Keep
    <3>2. ToSet(v) = {x \in {list[j] : j \in 1..k} : IsLegal(x) /\ x # picker.tt}
      <4> HIDE DEF list, m
      <4>1. QED BY <2>1, <2>3, <2>4
    <3> HIDE DEF new
    <3>3. QED BY <2>1, <3>1, <3>2 DEF KeptFirst, new
  <2>5. CASE IsLegal(m) /\ m # picker.tt
    <3>1. new = Append(v, m)
      BY <2>5 DEF Keep
    <3> DEFINE l == Len(v)
    <3>2. /\ new \in Seq(Moves) /\ DOMAIN new = 1..(l + 1) /\ new[l + 1] = m
          /\ \A i \in 1..l : new[i] = v[i]
          /\ DOMAIN v = 1..l /\ l \in Nat
      <4> HIDE DEF new, m
      <4>1. QED BY <2>1, <3>1
    <3>3. (\A i \in 1..(l + 1) : i \in 1..l \/ i = l + 1) /\ l + 1 \in 1..(l + 1)
             /\ \A i \in 1..l : i \in 1..(l + 1)
      BY <3>2
    <3> HIDE DEF new, m, l
    <3>4. ToSet(new) = ToSet(v) \cup {m}
      BY <3>2, <3>3 DEF ToSet
    <3>5. m \notin ToSet(v)
      BY <2>1, <2>2
    <3>6. IsInjective(new)
      <4>1. \A i \in 1..l : v[i] \in ToSet(v)
        BY <3>2 DEF ToSet
      <4>2. QED BY <2>1, <3>2, <3>3, <3>5, <4>1 DEF IsInjective
    <3>7. ToSet(new) = {x \in {list[j] : j \in 1..k} : IsLegal(x) /\ x # picker.tt}
      <4> HIDE DEF list
      <4>1. QED BY <2>1, <2>3, <2>5, <3>4
    <3>8. QED BY <3>2, <3>6, <3>7 DEF KeptFirst, new, m
  <2>6. QED BY <2>4, <2>5
<1>4. KeptFirst(n, Keeping!FoldLeft(Keep, <<>>, list))
  <2> HIDE DEF list
  <2>1. QED BY <1>1, <1>2, <1>3, Keeping!FoldLeftHolds
<1>5. Keeping!FoldLeft(Keep, <<>>, list) = kept
  BY DEF FoldLeft, Keeping!FoldLeft, MapThenFoldSet, Keeping!MapThenFoldSet, Max, Keeping!Max
<1>6. KeptFirst(n, kept)
  BY <1>4, <1>5
<1> HIDE DEF kept
<1>7. {list[j] : j \in 1..n} = ToSet(list)
  BY <1>1 DEF ToSet
<1>8. QED BY <1>6, <1>7 DEF KeptFirst, kept

\* Scores are integers.
LEMMA ScoreTyped ==
    ASSUME NEW score \in Scores, NEW m \in Moves
    PROVE  score[m] \in Int
<1>1. PICK c \in [ToSet(Captures) -> CaptureScores], q \in [ToSet(Quiets) -> QuietScores] :
          score = [x \in Moves |-> IF x \in ToSet(Captures) THEN c[x] ELSE q[x]]
  BY DEF Scores
<1>2. QED BY <1>1, ScoresAssumption DEF Moves

\* A list scored and sorted: the same moves, each once.
LEMMA SortedMoves ==
    ASSUME NEW list \in Seq(Moves), IsInjective(list), NEW score \in Scores, NEW limit
    PROVE  LET a == [i \in DOMAIN list |-> [mv |-> list[i], value |-> score[list[i]]]]
               b == PartialInsertionSort(a, limit)
           IN  /\ b \in Lists(Len(list)) /\ Distinct(b)
               /\ {b[i].mv : i \in DOMAIN b} = ToSet(list)
<1> DEFINE n == Len(list)
           a == [i \in DOMAIN list |-> [mv |-> list[i], value |-> score[list[i]]]]
           b == PartialInsertionSort(a, limit)
<1>1. n \in Nat /\ DOMAIN list = 1..n /\ \A i \in 1..n : list[i] \in Moves
  OBVIOUS
<1>2. a \in Lists(n) /\ DOMAIN a = 1..n /\ \A i \in 1..n : a[i].mv = list[i]
  BY <1>1, ScoreTyped DEF Lists, Entries
<1> HIDE DEF a
<1>3. Distinct(a)
  BY <1>1, <1>2 DEF Distinct, IsInjective
<1>4. b \in Lists(n) /\ SameEntries(a, b) /\ Distinct(b)
  BY <1>1, <1>2, <1>3, SortKeeps
<1> HIDE DEF b
<1>5. {b[i].mv : i \in DOMAIN b} = ToSet(list)
  BY <1>1, <1>2, <1>4 DEF SameEntries, ToSet
<1>6. QED BY <1>4, <1>5 DEF a, b

----------------------------------------------------------------------------
(* Where the picker stands.                                                *)

Stages ==
    {"Tt", "Init", "GoodCapture", "GoodQuiet", "BadCapture", "BadQuiet",
     "QSearch", "Evasion", "ProbCut", "Done"}
Pickers ==
    [kind : Kinds, tt : Moves \cup {None}, depth : Depths \cup {0},
     threshold : SeeValues \cup {0}, skipQuiets : BOOLEAN, stage : Stages, buf : Seq(Entries),
     cur : Nat \ {0}, endCur : Nat \ {0}, endBad : Nat \ {0}, endCaptures : Nat \ {0},
     endGenerated : Nat \ {0}]
SameRun(s, t) ==
    /\ t.kind = s.kind /\ t.tt = s.tt /\ t.depth = s.depth /\ t.threshold = s.threshold
    /\ t.skipQuiets = s.skipQuiets

\* What a picker is to give besides the table's move.
Wants(s, m) == m \in position.legal /\ m # s.tt /\ (s.kind = "ProbCut" => See(m, s.threshold))
Listed(s) == ToSet(ListOf(s.kind)) \cup (IF s.kind = "Main" THEN ToSet(Quiets) ELSE {})

\* Of the entries at these indices none has come; all that are wanted have.
Fresh(s, came, J) == \A i \in J : s.buf[i].mv \notin came \/ s.buf[i].mv = s.tt
Spent(s, came, J) == \A i \in J : Wants(s, s.buf[i].mv) => s.buf[i].mv \in came

CaptureIndexes(s) == 1..(s.endCaptures - 1)
QuietIndexes(s) == s.endCaptures..(s.endGenerated - 1)
Good(s, i) == s.buf[i].value > GoodQuietThreshold
MovesAt(s, J) == {s.buf[i].mv : i \in J}

\* The buffer: the captures, or the whole list, and the quiets behind them.
Held(s) ==
    /\ s \in Pickers /\ s.endCaptures <= s.endGenerated
    /\ Len(s.buf) = s.endGenerated - 1 /\ Distinct(s.buf)
    /\ MovesAt(s, CaptureIndexes(s)) = {m \in ToSet(ListOf(s.kind)) : IsLegal(m) /\ m # s.tt}
    /\ MovesAt(s, QuietIndexes(s)) \subseteq ToSet(Quiets)
QuietsThere(s) == s.skipQuiets \/ MovesAt(s, QuietIndexes(s)) = ToSet(Quiets)

AtGoodCapture(s, came) ==
    /\ s.kind = "Main" /\ s.stage = "GoodCapture"
    /\ s.endGenerated = s.endCaptures /\ s.endCur = s.endCaptures
    /\ s.endBad <= s.cur /\ s.cur <= s.endCur
    /\ came \subseteq ToSet(Captures) \cup {s.tt}
    /\ Fresh(s, came, 1..(s.endBad - 1)) /\ Spent(s, came, s.endBad..(s.cur - 1))
    /\ Fresh(s, came, s.cur..(s.endCur - 1))
AtGoodQuiet(s, came) ==
    /\ s.kind = "Main" /\ s.stage = "GoodQuiet" /\ QuietsThere(s)
    /\ s.endCur = s.endGenerated /\ s.endCaptures <= s.cur /\ s.cur <= s.endCur
    /\ s.endBad <= s.endCaptures
    /\ Fresh(s, came, 1..(s.endBad - 1)) /\ Spent(s, came, s.endBad..(s.endCaptures - 1))
    /\ ~s.skipQuiets => Spent(s, came, {i \in QuietIndexes(s) : i < s.cur /\ Good(s, i)})
    /\ Fresh(s, came, {i \in QuietIndexes(s) : i >= s.cur \/ ~Good(s, i)})
AtBadCapture(s, came) ==
    /\ s.kind = "Main" /\ s.stage = "BadCapture" /\ QuietsThere(s)
    /\ s.endCur = s.endBad /\ s.cur <= s.endCur /\ s.endBad <= s.endCaptures
    /\ Spent(s, came, {i \in CaptureIndexes(s) : i < s.cur \/ i >= s.endBad})
    /\ Fresh(s, came, s.cur..(s.endCur - 1))
    /\ ~s.skipQuiets => Spent(s, came, {i \in QuietIndexes(s) : Good(s, i)})
    /\ Fresh(s, came, {i \in QuietIndexes(s) : ~Good(s, i)})
AtBadQuiet(s, came) ==
    /\ s.kind = "Main" /\ s.stage = "BadQuiet" /\ QuietsThere(s)
    /\ s.endCur = s.endGenerated /\ s.endCaptures <= s.cur /\ s.cur <= s.endCur
    /\ Spent(s, came, CaptureIndexes(s))
    /\ ~s.skipQuiets => Spent(s, came, {i \in QuietIndexes(s) : i < s.cur \/ Good(s, i)})
    /\ Fresh(s, came, {i \in QuietIndexes(s) : i >= s.cur /\ ~Good(s, i)})
AtList(s, came) ==
    /\ s.kind # "Main" /\ s.stage = s.kind
    /\ s.endGenerated = s.endCaptures /\ s.endCur = s.endCaptures /\ s.cur <= s.endCur
    /\ Spent(s, came, 1..(s.cur - 1)) /\ Fresh(s, came, s.cur..(s.endCur - 1))
Standing(s, came) ==
    \/ AtGoodCapture(s, came) \/ AtGoodQuiet(s, came) \/ AtBadCapture(s, came)
    \/ AtBadQuiet(s, came) \/ AtList(s, came)

\* All that a picker owes has come.
Given(s, came) ==
    \A m \in ToSet(ListOf(s.kind)) \cup (IF s.kind = "Main" /\ ~s.skipQuiets THEN ToSet(Quiets) ELSE {}) :
        Wants(s, m) => m \in came

\* What a call that finds the picker so may answer.
Answers(s, came, r) ==
    /\ r.s \in Pickers /\ SameRun(s, r.s)
    /\ r.mv = None => Given(s, came)
    /\ r.mv # None =>
          /\ Wants(s, r.mv) /\ r.mv \in Listed(s) /\ r.mv \notin came
          /\ s.kind = "Main" /\ s.skipQuiets => r.mv \notin ToSet(Quiets)
          /\ Held(r.s) /\ Standing(r.s, came \cup {r.mv})

\* An entry of the buffer.
LEMMA EntryTyped ==
    ASSUME NEW s, Held(s), NEW i \in 1..(s.endGenerated - 1)
    PROVE  /\ i \in DOMAIN s.buf /\ s.buf[i].mv \in Moves /\ s.buf[i].mv # None
           /\ s.buf[i].value \in Int
           /\ i \in CaptureIndexes(s) \/ i \in QuietIndexes(s)
           /\ i \in CaptureIndexes(s) => /\ s.buf[i].mv \in ToSet(ListOf(s.kind))
                                         /\ s.buf[i].mv \in position.legal /\ s.buf[i].mv # s.tt
           /\ i \in QuietIndexes(s) => s.buf[i].mv \in ToSet(Quiets)
<1>1. s.buf \in Seq(Entries) /\ DOMAIN s.buf = 1..(s.endGenerated - 1)
  BY DEF Held, Pickers
<1>2. i \in DOMAIN s.buf /\ s.buf[i] \in Entries
  <2>1. i \in 1..Len(s.buf)
    BY DEF Held
  <2>2. QED BY <1>1, <2>1, ElementOfSeq
<1>3. i \in CaptureIndexes(s) \/ i \in QuietIndexes(s)
  BY DEF Held, Pickers, CaptureIndexes, QuietIndexes
<1>4. i \in CaptureIndexes(s) => s.buf[i].mv \in MovesAt(s, CaptureIndexes(s))
  BY DEF MovesAt
<1>5. i \in QuietIndexes(s) => s.buf[i].mv \in MovesAt(s, QuietIndexes(s))
  BY DEF MovesAt
<1>6. QED BY <1>1, <1>2, <1>3, <1>4, <1>5, GeneratorsAssumption DEF Held, Entries, IsLegal

\* What is held does not depend on where the picker stands.
LEMMA HeldCarries ==
    ASSUME NEW s, NEW t, Held(s), t \in Pickers, t.buf = s.buf, t.kind = s.kind, t.tt = s.tt,
           t.endCaptures = s.endCaptures, t.endGenerated = s.endGenerated
    PROVE  /\ Held(t) /\ MovesAt(t, QuietIndexes(t)) = MovesAt(s, QuietIndexes(s))
           /\ CaptureIndexes(t) = CaptureIndexes(s) /\ QuietIndexes(t) = QuietIndexes(s)
<1>1. CaptureIndexes(t) = CaptureIndexes(s) /\ QuietIndexes(t) = QuietIndexes(s)
  BY DEF CaptureIndexes, QuietIndexes
<1>2. \A J : MovesAt(t, J) = MovesAt(s, J)
  BY DEF MovesAt
<1>3. QED BY <1>1, <1>2 DEF Held

\* One more has come: the one at i. The others stay as they were.
LEMMA OneMore ==
    ASSUME NEW s, NEW t, Held(s), t.buf = s.buf, SameRun(s, t), NEW came,
           NEW i \in 1..(s.endGenerated - 1), NEW J, J \subseteq 1..(s.endGenerated - 1)
    PROVE  LET more == came \cup {s.buf[i].mv}
           IN  /\ Fresh(s, came, J \ {i}) => Fresh(t, more, J \ {i})
               /\ Spent(s, came, J \ {i}) => Spent(t, more, J)
<1>1. \A j \in J : s.buf[j].mv = s.buf[i].mv => j = i
  BY EntryTyped DEF Held, Distinct
<1>2. \A m : Wants(t, m) <=> Wants(s, m)
  BY DEF Wants, SameRun
<1>3. QED BY <1>1, <1>2 DEF Fresh, Spent, SameRun

\* All that is wanted of the captures, or of a whole list, and of the quiets where
\* they are wanted, has come: the picker has given all.
LEMMA GivenFrom ==
    ASSUME NEW s, NEW came, Held(s), Spent(s, came, CaptureIndexes(s)),
           s.kind = "Main" /\ ~s.skipQuiets => /\ MovesAt(s, QuietIndexes(s)) = ToSet(Quiets)
                                             /\ Spent(s, came, QuietIndexes(s))
    PROVE  Given(s, came)
<1> SUFFICES ASSUME NEW m, Wants(s, m),
                    \/ m \in ToSet(ListOf(s.kind))
                    \/ s.kind = "Main" /\ ~s.skipQuiets /\ m \in ToSet(Quiets)
             PROVE  m \in came
  BY DEF Given
<1>1. CASE m \in ToSet(ListOf(s.kind))
  <2>1. m \in MovesAt(s, CaptureIndexes(s))
    BY <1>1 DEF Held, Wants, IsLegal
  <2>2. QED BY <2>1 DEF MovesAt, Spent
<1>2. CASE s.kind = "Main" /\ ~s.skipQuiets /\ m \in ToSet(Quiets)
  <2>1. m \in MovesAt(s, QuietIndexes(s))
    BY <1>2
  <2>2. QED BY <1>2, <2>1 DEF MovesAt, Spent
<1>3. QED BY <1>1, <1>2

\* The picker with its place in the buffer, its end and its stage changed.
At(s, cur, endCur, stage) == [s EXCEPT !.cur = cur, !.endCur = endCur, !.stage = stage]

\* Nothing else changes with them.
LEMMA AtKeeps ==
    ASSUME NEW s \in Pickers, NEW cur \in Nat \ {0}, NEW endCur \in Nat \ {0},
           NEW stage \in Stages
    PROVE  LET t == At(s, cur, endCur, stage)
           IN  /\ t \in Pickers /\ SameRun(s, t) /\ t.buf = s.buf /\ t.endBad = s.endBad
               /\ t.endCaptures = s.endCaptures /\ t.endGenerated = s.endGenerated
               /\ t.cur = cur /\ t.endCur = endCur /\ t.stage = stage
               /\ Held(s) => /\ Held(t) /\ MovesAt(t, QuietIndexes(t)) = MovesAt(s, QuietIndexes(s))
                             /\ CaptureIndexes(t) = CaptureIndexes(s)
                             /\ QuietIndexes(t) = QuietIndexes(s)
<1> DEFINE t == At(s, cur, endCur, stage)
<1>1. /\ t \in Pickers /\ SameRun(s, t) /\ t.buf = s.buf /\ t.endBad = s.endBad
      /\ t.endCaptures = s.endCaptures /\ t.endGenerated = s.endGenerated
      /\ t.cur = cur /\ t.endCur = endCur /\ t.stage = stage
  BY DEF Pickers, At, SameRun
<1> HIDE DEF t
<1>2. Held(s) => /\ Held(t) /\ MovesAt(t, QuietIndexes(t)) = MovesAt(s, QuietIndexes(s))
                 /\ CaptureIndexes(t) = CaptureIndexes(s) /\ QuietIndexes(t) = QuietIndexes(s)
  BY <1>1, HeldCarries DEF SameRun
<1>3. QED BY <1>1, <1>2 DEF t

\* Selecting: either no entry passes, or it is the first that does.
LEMMA SelectGives ==
    ASSUME NEW s \in Pickers, NEW hits, hits \subseteq Ahead(s)
    PROVE  LET r == Select(s, hits)
               i == First(hits)
           IN  /\ hits = {} => r = [s |-> At(s, s.endCur, s.endCur, s.stage), mv |-> None]
               /\ hits # {} => /\ i \in hits /\ i \in Nat \ {0} /\ s.cur <= i /\ i < s.endCur
                               /\ \A j \in hits : i <= j
                               /\ r = [s |-> At(s, i + 1, s.endCur, s.stage), mv |-> s.buf[i].mv]
<1>1. s.cur \in Nat \ {0} /\ s.endCur \in Nat \ {0} /\ hits \subseteq s.cur..(s.endCur - 1)
  BY DEF Pickers, Ahead
<1>2. CASE hits = {}
  <2>1. [s EXCEPT !.cur = s.endCur] = At(s, s.endCur, s.endCur, s.stage)
    BY DEF Pickers, At
  <2>2. QED BY <1>2, <2>1 DEF Select, Yield, Passed
<1>3. CASE hits # {}
  <2> DEFINE i == First(hits)
  <2>1. i \in hits /\ \A j \in hits : i <= j
    <3>1. hits \subseteq Nat
      BY <1>1
    <3>2. QED BY <1>3, <3>1, FirstIsLeast
  <2> HIDE DEF i
  <2>2. i \in Nat \ {0} /\ s.cur <= i /\ i < s.endCur
    BY <1>1, <2>1
  <2>3. [s EXCEPT !.cur = i + 1] = At(s, i + 1, s.endCur, s.stage)
    BY DEF Pickers, At
  <2>4. QED BY <1>3, <2>1, <2>2, <2>3 DEF Select, Yield, YieldAt, i
<1>4. QED BY <1>2, <1>3

\* An answer to what follows is an answer to what came before.
LEMMA AnswersCarry ==
    ASSUME NEW s, NEW t, SameRun(s, t), NEW came, NEW r, Answers(t, came, r)
    PROVE  Answers(s, came, r)
<1>1. Listed(t) = Listed(s) /\ \A m : Wants(t, m) <=> Wants(s, m)
  BY DEF Listed, Wants, SameRun
<1>2. Given(t, came) => Given(s, came)
  BY <1>1 DEF Given, SameRun
<1>3. QED BY <1>1, <1>2 DEF Answers, SameRun

----------------------------------------------------------------------------
(* What each stage answers.                                                *)

\* The quiets behind the threshold, the last stage.
LEMMA BadQuietAnswers ==
    ASSUME NEW s, NEW came, Held(s), AtBadQuiet(s, came)
    PROVE  Answers(s, came, BadQuiet(s))
<1> DEFINE r == BadQuiet(s)
           hits == {i \in Ahead(s) : s.buf[i].value <= GoodQuietThreshold /\ IsLegal(s.buf[i].mv)}
<1>1. s \in Pickers
  BY DEF Held
<1>2. CASE s.skipQuiets
  <2>1. r = [s |-> [s EXCEPT !.stage = "Done"], mv |-> None]
    BY <1>2 DEF BadQuiet, Yield
  <2>2. [s EXCEPT !.stage = "Done"] \in Pickers /\ SameRun(s, [s EXCEPT !.stage = "Done"])
    BY <1>1 DEF Pickers, SameRun, Stages
  <2>3. Given(s, came)
    BY <1>2, GivenFrom DEF AtBadQuiet
  <2> HIDE DEF r
  <2>4. r.mv = None /\ r.s \in Pickers /\ SameRun(s, r.s)
    BY <2>1, <2>2
  <2>5. QED BY <2>3, <2>4 DEF Answers, r
<1>3. CASE ~s.skipQuiets
  <2>1. r = Select(s, hits)
    BY <1>3 DEF BadQuiet
  <2>2. hits \subseteq Ahead(s)
    OBVIOUS
  <2>3. /\ s.cur \in Nat \ {0} /\ s.endGenerated \in Nat \ {0} /\ s.endCur = s.endGenerated
        /\ s.endCaptures \in Nat \ {0} /\ s.endCaptures <= s.cur
        /\ MovesAt(s, QuietIndexes(s)) = ToSet(Quiets)
    BY <1>1, <1>3 DEF Pickers, AtBadQuiet, QuietsThere
  <2>4. ASSUME NEW i \in QuietIndexes(s), i >= s.cur, ~Good(s, i), Wants(s, s.buf[i].mv) PROVE i \in hits
    <3>1. i \in s.cur..(s.endCur - 1) /\ i \in 1..(s.endGenerated - 1)
      BY <2>3, <2>4 DEF QuietIndexes
    <3>2. s.buf[i].value \in Int
      BY <3>1, EntryTyped
    <3>3. QED BY <2>4, <3>1, <3>2 DEF Ahead, Wants, Good, IsLegal, GoodQuietThreshold
  <2>5. CASE hits = {}
    <3>1. r = [s |-> At(s, s.endCur, s.endCur, s.stage), mv |-> None]
      BY <1>1, <2>1, <2>2, <2>5, SelectGives
    <3>2. Spent(s, came, QuietIndexes(s))
      <4> HIDE DEF hits
      <4>1. QED BY <1>3, <2>3, <2>4, <2>5 DEF AtBadQuiet, Spent, QuietIndexes
    <3>3. Given(s, came)
      BY <2>3, <3>2, GivenFrom DEF AtBadQuiet
    <3>4. At(s, s.endCur, s.endCur, s.stage) \in Pickers /\ SameRun(s, At(s, s.endCur, s.endCur, s.stage))
      BY <1>1, AtKeeps DEF Pickers
    <3> HIDE DEF r
    <3>5. r.mv = None /\ r.s \in Pickers /\ SameRun(s, r.s)
      BY <3>1, <3>4
    <3>6. QED BY <3>3, <3>5 DEF Answers, r
  <2>6. CASE hits # {}
    <3> DEFINE i == First(hits)
               t == At(s, i + 1, s.endCur, s.stage)
               mv == s.buf[i].mv
               more == came \cup {mv}
    <3>1. /\ i \in hits /\ i \in Nat \ {0} /\ s.cur <= i /\ i < s.endCur
          /\ \A j \in hits : i <= j
          /\ r = [s |-> t, mv |-> mv]
      BY <1>1, <2>1, <2>2, <2>6, SelectGives
    <3> HIDE DEF i, r
    <3>2. mv # s.tt /\ mv \in position.legal /\ s.buf[i].value <= GoodQuietThreshold
      BY <3>1 DEF Ahead, IsLegal
    <3>3. i \in 1..(s.endGenerated - 1) /\ i \in QuietIndexes(s)
      BY <2>3, <3>1 DEF QuietIndexes
    <3>4. mv \in ToSet(Quiets) /\ mv # None /\ s.buf[i].value \in Int
      BY <3>3, EntryTyped
    <3>5. ~Good(s, i)
      BY <3>2, <3>4 DEF Good, GoodQuietThreshold
    <3>6. mv \notin came
      BY <3>1, <3>2, <3>3, <3>5 DEF AtBadQuiet, Fresh
    <3>7. Wants(s, mv) /\ mv \in Listed(s)
      BY <3>2, <3>4 DEF Wants, Listed, AtBadQuiet
    <3>8. i + 1 \in Nat \ {0} /\ s.endCur \in Nat \ {0} /\ s.stage \in Stages
      BY <1>1, <3>1 DEF Pickers
    <3>9. /\ t \in Pickers /\ SameRun(s, t) /\ t.buf = s.buf /\ t.endBad = s.endBad
          /\ t.endCaptures = s.endCaptures /\ t.endGenerated = s.endGenerated
          /\ t.cur = i + 1 /\ t.endCur = s.endCur /\ t.stage = s.stage
          /\ Held(t) /\ MovesAt(t, QuietIndexes(t)) = MovesAt(s, QuietIndexes(s))
          /\ CaptureIndexes(t) = CaptureIndexes(s) /\ QuietIndexes(t) = QuietIndexes(s)
      BY <1>1, <3>8, AtKeeps
    <3> HIDE DEF t, mv, hits
    <3>10. \A m : Wants(t, m) <=> Wants(s, m)
      BY <3>9 DEF Wants, SameRun
    <3>11. Spent(t, more, CaptureIndexes(t))
      BY <3>9, <3>10 DEF AtBadQuiet, Spent
    <3>12. Spent(t, more, {j \in QuietIndexes(t) : j < t.cur \/ Good(t, j)})
      <4> SUFFICES ASSUME NEW j \in QuietIndexes(s), j < i + 1 \/ Good(s, j), Wants(s, s.buf[j].mv)
                   PROVE  s.buf[j].mv \in more
        BY <3>9, <3>10 DEF Spent, Good
      <4>1. j \in Int
        BY <2>3 DEF QuietIndexes
      <4>2. CASE j < s.cur \/ Good(s, j)
        BY <1>3, <4>2 DEF AtBadQuiet, Spent
      <4>3. CASE j >= s.cur /\ ~Good(s, j)
        <5>1. j \in hits
          BY <2>4, <4>3
        <5>2. j = i
          BY <3>1, <4>1, <4>3, <5>1
        <5>3. QED BY <5>2 DEF mv
      <4>4. QED BY <2>3, <4>1, <4>2, <4>3
    <3>13. Fresh(t, more, {j \in QuietIndexes(t) : j >= t.cur /\ ~Good(t, j)})
      <4> SUFFICES ASSUME NEW j \in QuietIndexes(s), j >= i + 1, ~Good(s, j)
                   PROVE  s.buf[j].mv \notin more \/ s.buf[j].mv = s.tt
        BY <3>9 DEF Fresh, Good, SameRun
      <4>1. j \in Int /\ j # i /\ j >= s.cur /\ j \in 1..(s.endGenerated - 1)
        BY <2>3, <3>1 DEF QuietIndexes
      <4>2. s.buf[j].mv # mv
        BY <3>3, <4>1, EntryTyped DEF Held, Distinct, mv
      <4>3. QED BY <4>1, <4>2 DEF AtBadQuiet, Fresh
    <3>14. AtBadQuiet(t, more)
      BY <2>3, <3>1, <3>9, <3>11, <3>12, <3>13 DEF AtBadQuiet, QuietsThere, SameRun
    <3>15. r.mv = mv /\ r.s = t
      BY <3>1
    <3>16. QED BY <1>3, <3>4, <3>6, <3>7, <3>9, <3>14, <3>15 DEF Answers, Standing, r
  <2>7. QED BY <2>5, <2>6
<1>4. QED BY <1>2, <1>3

\* The captures set aside.
LEMMA BadCaptureAnswers ==
    ASSUME NEW s, NEW came, Held(s), AtBadCapture(s, came)
    PROVE  Answers(s, came, BadCapture(s))
<1> DEFINE r == Select(s, Ahead(s))
           i == First(Ahead(s))
           mv == s.buf[i].mv
           more == came \cup {mv}
<1>1. /\ s \in Pickers /\ s.cur \in Nat \ {0} /\ s.endCur \in Nat \ {0}
      /\ s.endBad \in Nat \ {0} /\ s.endCaptures \in Nat \ {0} /\ s.endGenerated \in Nat \ {0}
      /\ s.endCur = s.endBad /\ s.endBad <= s.endCaptures /\ s.endCaptures <= s.endGenerated
      /\ s.stage \in Stages
  BY DEF Held, Pickers, AtBadCapture
<1>2. /\ Ahead(s) = {} => r = [s |-> At(s, s.endCur, s.endCur, s.stage), mv |-> None]
      /\ Ahead(s) # {} => /\ i \in Ahead(s) /\ i \in Nat \ {0} /\ s.cur <= i /\ i < s.endCur
                          /\ \A j \in Ahead(s) : i <= j
                          /\ r = [s |-> At(s, i + 1, s.endCur, s.stage), mv |-> mv]
  BY <1>1, SelectGives
<1>3. ASSUME NEW j \in s.cur..(s.endCur - 1), Wants(s, s.buf[j].mv) PROVE j \in Ahead(s)
  BY <1>3 DEF Ahead, Wants
<1> HIDE DEF r, i, mv
<1>4. CASE Ahead(s) = {}
  <2> DEFINE t == At(s, s.endCaptures, s.endGenerated, "BadQuiet")
  <2>1. r.mv = None /\ r.s = At(s, s.endCur, s.endCur, s.stage)
    BY <1>2, <1>4
  <2>2. [r.s EXCEPT !.cur = s.endCaptures, !.endCur = s.endGenerated, !.stage = "BadQuiet"] = t
    BY <1>1, <2>1 DEF At, Pickers
  <2>3. BadCapture(s) = BadQuiet(t)
    BY <2>1, <2>2 DEF BadCapture, r
  <2>4. /\ t \in Pickers /\ SameRun(s, t) /\ t.buf = s.buf /\ t.endBad = s.endBad
        /\ t.endCaptures = s.endCaptures /\ t.endGenerated = s.endGenerated
        /\ t.cur = s.endCaptures /\ t.endCur = s.endGenerated /\ t.stage = "BadQuiet"
        /\ Held(t) /\ MovesAt(t, QuietIndexes(t)) = MovesAt(s, QuietIndexes(s))
        /\ CaptureIndexes(t) = CaptureIndexes(s) /\ QuietIndexes(t) = QuietIndexes(s)
    <3>1. s \in Pickers /\ s.endCaptures \in Nat \ {0} /\ s.endGenerated \in Nat \ {0} /\ "BadQuiet" \in Stages
      BY <1>1 DEF Stages
    <3>2. QED BY <3>1, AtKeeps
  <2> HIDE DEF t
  <2>5. \A m : Wants(t, m) <=> Wants(s, m)
    BY <2>4 DEF Wants, SameRun
  <2>6. Spent(t, came, CaptureIndexes(t))
    <3> SUFFICES ASSUME NEW j \in CaptureIndexes(s), Wants(s, s.buf[j].mv) PROVE s.buf[j].mv \in came
      BY <2>4, <2>5 DEF Spent
    <3>1. j \in Int
      BY DEF CaptureIndexes
    <3>2. j < s.cur \/ j >= s.endBad
      BY <1>1, <1>3, <1>4, <3>1
    <3>3. QED BY <3>2 DEF AtBadCapture, Spent
  <2>7. ~t.skipQuiets => Spent(t, came, {j \in QuietIndexes(t) : j < t.cur \/ Good(t, j)})
    <3> SUFFICES ASSUME ~s.skipQuiets, NEW j \in QuietIndexes(s), j < s.endCaptures \/ Good(s, j),
                        Wants(s, s.buf[j].mv)
                 PROVE  s.buf[j].mv \in came
      BY <2>4, <2>5 DEF Spent, Good, SameRun
    <3>1. j \in Int /\ j >= s.endCaptures
      BY <1>1 DEF QuietIndexes
    <3>2. Good(s, j)
      BY <1>1, <3>1
    <3>3. QED BY <3>2 DEF AtBadCapture, Spent
  <2>8. Fresh(t, came, {j \in QuietIndexes(t) : j >= t.cur /\ ~Good(t, j)})
    BY <2>4 DEF AtBadCapture, Fresh, Good, SameRun
  <2>9. AtBadQuiet(t, came)
    BY <1>1, <2>4, <2>6, <2>7, <2>8 DEF AtBadCapture, AtBadQuiet, QuietsThere, SameRun
  <2>10. Answers(t, came, BadQuiet(t))
    BY <2>4, <2>9, BadQuietAnswers
  <2>11. QED BY <2>3, <2>4, <2>10, AnswersCarry
<1>5. CASE Ahead(s) # {}
  <2> DEFINE t == At(s, i + 1, s.endCur, s.stage)
  <2>1. /\ i \in Ahead(s) /\ i \in Nat \ {0} /\ s.cur <= i /\ i < s.endCur
        /\ \A j \in Ahead(s) : i <= j
        /\ r.s = t /\ r.mv = mv
    BY <1>2, <1>5
  <2>2. i \in 1..(s.endGenerated - 1) /\ i \in CaptureIndexes(s)
    BY <1>1, <2>1 DEF CaptureIndexes
  <2>3. /\ mv \in ToSet(ListOf(s.kind)) /\ mv \in position.legal /\ mv # s.tt /\ mv # None
    BY <2>2, EntryTyped DEF mv
  <2>4. BadCapture(s) = r
    BY <2>1, <2>3 DEF BadCapture, r
  <2>5. s.kind = "Main" /\ mv \notin ToSet(Quiets) /\ Wants(s, mv) /\ mv \in Listed(s)
    BY <2>3, GeneratorsAssumption DEF AtBadCapture, ListOf, Wants, Listed
  <2>6. mv \notin came
    <3>1. i \in s.cur..(s.endCur - 1)
      BY <1>1, <2>1
    <3>2. QED BY <2>3, <3>1 DEF AtBadCapture, Fresh, mv
  <2>7. /\ t \in Pickers /\ SameRun(s, t) /\ t.buf = s.buf /\ t.endBad = s.endBad
        /\ t.endCaptures = s.endCaptures /\ t.endGenerated = s.endGenerated
        /\ t.cur = i + 1 /\ t.endCur = s.endCur /\ t.stage = s.stage
        /\ Held(t) /\ MovesAt(t, QuietIndexes(t)) = MovesAt(s, QuietIndexes(s))
        /\ CaptureIndexes(t) = CaptureIndexes(s) /\ QuietIndexes(t) = QuietIndexes(s)
    <3>1. /\ s \in Pickers /\ i + 1 \in Nat \ {0} /\ s.endCur \in Nat \ {0}
          /\ s.stage \in Stages
      BY <1>1, <2>1
    <3>2. QED BY <3>1, AtKeeps
  <2> HIDE DEF t
  <2>8. \A m : Wants(t, m) <=> Wants(s, m)
    BY <2>7 DEF Wants, SameRun
  <2>9. Spent(t, more, {j \in CaptureIndexes(t) : j < t.cur \/ j >= t.endBad})
    <3> SUFFICES ASSUME NEW j \in CaptureIndexes(s), j < i + 1 \/ j >= s.endBad, Wants(s, s.buf[j].mv)
                 PROVE  s.buf[j].mv \in more
      BY <2>7, <2>8 DEF Spent
    <3>1. j \in Int
      BY DEF CaptureIndexes
    <3>2. CASE j < s.cur \/ j >= s.endBad
      BY <3>2 DEF AtBadCapture, Spent
    <3>3. CASE s.cur <= j /\ j < i + 1 /\ j < s.endBad
      <4>1. j \in Ahead(s)
        BY <1>1, <1>3, <3>1, <3>3
      <4>2. j = i
        BY <2>1, <3>1, <3>3, <4>1
      <4>3. QED BY <4>2 DEF mv
    <3>4. QED BY <1>1, <3>1, <3>2, <3>3
  <2>10. \A j \in 1..(s.endGenerated - 1) : j # i => s.buf[j].mv # mv
    BY <2>2, EntryTyped DEF Held, Distinct, mv
  <2>11. Fresh(t, more, t.cur..(t.endCur - 1))
    <3> SUFFICES ASSUME NEW j \in (i + 1)..(s.endCur - 1)
                 PROVE  s.buf[j].mv \notin more \/ s.buf[j].mv = s.tt
      BY <2>7 DEF Fresh, SameRun
    <3>1. j \in 1..(s.endGenerated - 1) /\ j # i /\ j \in s.cur..(s.endCur - 1)
      BY <1>1, <2>1
    <3>2. QED BY <2>10, <3>1 DEF AtBadCapture, Fresh
  <2>12. ~t.skipQuiets => Spent(t, more, {j \in QuietIndexes(t) : Good(t, j)})
    BY <2>7, <2>8 DEF AtBadCapture, Spent, Good, SameRun
  <2>13. Fresh(t, more, {j \in QuietIndexes(t) : ~Good(t, j)})
    <3> SUFFICES ASSUME NEW j \in QuietIndexes(s), ~Good(s, j)
                 PROVE  s.buf[j].mv \notin more \/ s.buf[j].mv = s.tt
      BY <2>7 DEF Fresh, Good, SameRun
    <3>1. j \in 1..(s.endGenerated - 1) /\ j # i
      BY <1>1, <2>1 DEF QuietIndexes
    <3>2. QED BY <2>10, <3>1 DEF AtBadCapture, Fresh
  <2>14. AtBadCapture(t, more)
    BY <1>1, <2>1, <2>7, <2>9, <2>11, <2>12, <2>13 DEF AtBadCapture, QuietsThere, SameRun
  <2>15. QED BY <2>1, <2>3, <2>4, <2>5, <2>6, <2>7, <2>14 DEF Answers, Standing
<1>6. QED BY <1>4, <1>5

\* The quiets above the threshold.
LEMMA GoodQuietAnswers ==
    ASSUME NEW s, NEW came, Held(s), AtGoodQuiet(s, came)
    PROVE  Answers(s, came, GoodQuiet(s))
<1> DEFINE hits == {j \in Ahead(s) : s.buf[j].value > GoodQuietThreshold /\ IsLegal(s.buf[j].mv)}
           r == Select(s, hits)
           i == First(hits)
           mv == s.buf[i].mv
           more == came \cup {mv}
<1>1. /\ s \in Pickers /\ s.cur \in Nat \ {0} /\ s.endCur \in Nat \ {0}
      /\ s.endBad \in Nat \ {0} /\ s.endCaptures \in Nat \ {0} /\ s.endGenerated \in Nat \ {0}
      /\ s.endCur = s.endGenerated /\ s.endBad <= s.endCaptures /\ s.endCaptures <= s.endGenerated
      /\ s.endCaptures <= s.cur /\ s.stage \in Stages
  BY DEF Held, Pickers, AtGoodQuiet
<1>2. /\ hits = {} => r = [s |-> At(s, s.endCur, s.endCur, s.stage), mv |-> None]
      /\ hits # {} => /\ i \in hits /\ i \in Nat \ {0} /\ s.cur <= i /\ i < s.endCur
                      /\ \A j \in hits : i <= j
                      /\ r = [s |-> At(s, i + 1, s.endCur, s.stage), mv |-> mv]
  <2>1. hits \subseteq Ahead(s)
    OBVIOUS
  <2> HIDE DEF hits
  <2>2. QED BY <1>1, <2>1, SelectGives
<1>3. ASSUME NEW j \in QuietIndexes(s), j >= s.cur, Good(s, j), Wants(s, s.buf[j].mv) PROVE j \in hits
  <2>1. j \in s.cur..(s.endCur - 1)
    BY <1>1, <1>3 DEF QuietIndexes
  <2>2. QED BY <1>3, <2>1 DEF Ahead, Wants, Good, IsLegal, GoodQuietThreshold
<1> HIDE DEF r, i, mv
<1>4. CASE s.skipQuiets \/ hits = {}
  <2> DEFINE t == At(s, 1, s.endBad, "BadCapture")
             u == IF s.skipQuiets THEN Yield(s, None) ELSE r
  <2>1. u.mv = None /\ u.s \in {s, At(s, s.endCur, s.endCur, s.stage)}
    BY <1>2, <1>4 DEF Yield
  <2>2. [u.s EXCEPT !.cur = 1, !.endCur = s.endBad, !.stage = "BadCapture"] = t
    <3>1. [s EXCEPT !.cur = 1, !.endCur = s.endBad, !.stage = "BadCapture"] = t
      BY DEF At
    <3>2. [At(s, s.endCur, s.endCur, s.stage) EXCEPT !.cur = 1, !.endCur = s.endBad, !.stage = "BadCapture"] = t
      BY <1>1 DEF At, Pickers
    <3> HIDE DEF t, u
    <3>3. CASE u.s = s
      BY <3>1, <3>3
    <3>4. CASE u.s = At(s, s.endCur, s.endCur, s.stage)
      BY <3>2, <3>4
    <3>5. QED BY <2>1, <3>3, <3>4
  <2>3. GoodQuiet(s) = BadCapture(t)
    BY <2>1, <2>2 DEF GoodQuiet, r
  <2>4. /\ t \in Pickers /\ SameRun(s, t) /\ t.buf = s.buf /\ t.endBad = s.endBad
        /\ t.endCaptures = s.endCaptures /\ t.endGenerated = s.endGenerated
        /\ t.cur = 1 /\ t.endCur = s.endBad /\ t.stage = "BadCapture"
        /\ Held(t) /\ MovesAt(t, QuietIndexes(t)) = MovesAt(s, QuietIndexes(s))
        /\ CaptureIndexes(t) = CaptureIndexes(s) /\ QuietIndexes(t) = QuietIndexes(s)
    <3>1. s \in Pickers /\ 1 \in Nat \ {0} /\ s.endBad \in Nat \ {0} /\ "BadCapture" \in Stages
      BY <1>1 DEF Stages
    <3>2. QED BY <3>1, AtKeeps
  <2> HIDE DEF t, u
  <2>5. \A m : Wants(t, m) <=> Wants(s, m)
    BY <2>4 DEF Wants, SameRun
  <2>6. Spent(t, came, {j \in CaptureIndexes(t) : j < t.cur \/ j >= t.endBad})
    <3> SUFFICES ASSUME NEW j \in CaptureIndexes(s), j < 1 \/ j >= s.endBad, Wants(s, s.buf[j].mv)
                 PROVE  s.buf[j].mv \in came
      BY <2>4, <2>5 DEF Spent
    <3>1. j \in s.endBad..(s.endCaptures - 1)
      BY <1>1 DEF CaptureIndexes
    <3>2. QED BY <3>1 DEF AtGoodQuiet, Spent
  <2>7. Fresh(t, came, t.cur..(t.endCur - 1))
    BY <2>4 DEF AtGoodQuiet, Fresh, SameRun
  <2>8. ~t.skipQuiets => Spent(t, came, {j \in QuietIndexes(t) : Good(t, j)})
    <3> SUFFICES ASSUME ~s.skipQuiets, NEW j \in QuietIndexes(s), Good(s, j), Wants(s, s.buf[j].mv)
                 PROVE  s.buf[j].mv \in came
      BY <2>4, <2>5 DEF Spent, Good, SameRun
    <3>1. j \in Int
      BY <1>1 DEF QuietIndexes
    <3>2. j < s.cur
      BY <1>1, <1>3, <1>4, <3>1
    <3>3. QED BY <3>2 DEF AtGoodQuiet, Spent
  <2>9. Fresh(t, came, {j \in QuietIndexes(t) : ~Good(t, j)})
    BY <2>4 DEF AtGoodQuiet, Fresh, Good, SameRun
  <2>10. AtBadCapture(t, came)
    BY <1>1, <2>4, <2>6, <2>7, <2>8, <2>9 DEF AtGoodQuiet, AtBadCapture, QuietsThere, SameRun
  <2>11. Answers(t, came, BadCapture(t))
    BY <2>4, <2>10, BadCaptureAnswers
  <2>12. QED BY <2>3, <2>4, <2>11, AnswersCarry
<1>5. CASE ~s.skipQuiets /\ hits # {}
  <2> DEFINE t == At(s, i + 1, s.endCur, s.stage)
  <2>1. /\ i \in hits /\ i \in Nat \ {0} /\ s.cur <= i /\ i < s.endCur
        /\ \A j \in hits : i <= j
        /\ r.s = t /\ r.mv = mv
    BY <1>2, <1>5
  <2>2. i \in 1..(s.endGenerated - 1) /\ i \in QuietIndexes(s)
    BY <1>1, <2>1 DEF QuietIndexes
  <2>3. /\ mv \in ToSet(Quiets) /\ mv \in position.legal /\ mv # s.tt /\ mv # None /\ Good(s, i)
    BY <2>1, <2>2, EntryTyped DEF mv, Ahead, IsLegal, Good
  <2>4. GoodQuiet(s) = r
    BY <1>5, <2>1, <2>3 DEF GoodQuiet, r
  <2>5. s.kind = "Main" /\ Wants(s, mv) /\ mv \in Listed(s)
    BY <2>3 DEF AtGoodQuiet, Wants, Listed
  <2>6. mv \notin came
    BY <2>1, <2>2, <2>3 DEF AtGoodQuiet, Fresh, mv
  <2>7. /\ t \in Pickers /\ SameRun(s, t) /\ t.buf = s.buf /\ t.endBad = s.endBad
        /\ t.endCaptures = s.endCaptures /\ t.endGenerated = s.endGenerated
        /\ t.cur = i + 1 /\ t.endCur = s.endCur /\ t.stage = s.stage
        /\ Held(t) /\ MovesAt(t, QuietIndexes(t)) = MovesAt(s, QuietIndexes(s))
        /\ CaptureIndexes(t) = CaptureIndexes(s) /\ QuietIndexes(t) = QuietIndexes(s)
    <3>1. /\ s \in Pickers /\ i + 1 \in Nat \ {0} /\ s.endCur \in Nat \ {0}
          /\ s.stage \in Stages
      BY <1>1, <2>1
    <3>2. QED BY <3>1, AtKeeps
  <2> HIDE DEF t, hits
  <2>8. \A m : Wants(t, m) <=> Wants(s, m)
    BY <2>7 DEF Wants, SameRun
  <2>9. \A j \in 1..(s.endGenerated - 1) : j # i => s.buf[j].mv # mv
    BY <2>2, EntryTyped DEF Held, Distinct, mv
  <2>10. Fresh(t, more, 1..(t.endBad - 1)) /\ Spent(t, more, t.endBad..(t.endCaptures - 1))
    <3>1. \A j \in 1..(s.endBad - 1) : j \in 1..(s.endGenerated - 1) /\ j # i
      BY <1>1, <2>1
    <3>2. QED BY <2>7, <2>8, <2>9, <3>1 DEF AtGoodQuiet, Fresh, Spent, SameRun
  <2>11. Spent(t, more, {j \in QuietIndexes(t) : j < t.cur /\ Good(t, j)})
    <3> SUFFICES ASSUME NEW j \in QuietIndexes(s), j < i + 1, Good(s, j), Wants(s, s.buf[j].mv)
                 PROVE  s.buf[j].mv \in more
      BY <2>7, <2>8 DEF Spent, Good
    <3>1. j \in Int
      BY DEF QuietIndexes
    <3>2. CASE j < s.cur
      BY <1>5, <3>2 DEF AtGoodQuiet, Spent
    <3>3. CASE j >= s.cur
      <4>1. j \in hits
        BY <1>3, <3>3
      <4>2. j = i
        BY <2>1, <3>1, <4>1
      <4>3. QED BY <4>2 DEF mv
    <3>4. QED BY <1>1, <3>1, <3>2, <3>3
  <2>12. Fresh(t, more, {j \in QuietIndexes(t) : j >= t.cur \/ ~Good(t, j)})
    <3> SUFFICES ASSUME NEW j \in QuietIndexes(s), j >= i + 1 \/ ~Good(s, j)
                 PROVE  s.buf[j].mv \notin more \/ s.buf[j].mv = s.tt
      BY <2>7 DEF Fresh, Good, SameRun
    <3>1. j \in 1..(s.endGenerated - 1) /\ j # i /\ (j >= s.cur \/ ~Good(s, j))
      BY <1>1, <2>1, <2>3 DEF QuietIndexes
    <3>2. QED BY <2>9, <3>1 DEF AtGoodQuiet, Fresh
  <2>13. AtGoodQuiet(t, more)
    BY <1>1, <2>1, <2>7, <2>10, <2>11, <2>12 DEF AtGoodQuiet, QuietsThere, SameRun
  <2>14. QED BY <1>5, <2>1, <2>3, <2>4, <2>5, <2>6, <2>7, <2>13 DEF Answers, Standing
<1>6. QED BY <1>4, <1>5

\* The other pickers go once through their one list.
LEMMA ListAnswers ==
    ASSUME NEW s, NEW came, Held(s), AtList(s, came), NEW hits, hits \subseteq Ahead(s),
           \A j \in Ahead(s) : j \in hits <=> Wants(s, s.buf[j].mv)
    PROVE  Answers(s, came, Select(s, hits))
<1> DEFINE r == Select(s, hits)
           i == First(hits)
           mv == s.buf[i].mv
           more == came \cup {mv}
<1>1. /\ s \in Pickers /\ s.cur \in Nat \ {0} /\ s.endCur \in Nat \ {0}
      /\ s.endCaptures \in Nat \ {0} /\ s.endGenerated = s.endCaptures
      /\ s.endCur = s.endCaptures /\ s.stage \in Stages /\ s.kind # "Main"
  BY DEF Held, Pickers, AtList
<1>2. /\ hits = {} => r = [s |-> At(s, s.endCur, s.endCur, s.stage), mv |-> None]
      /\ hits # {} => /\ i \in hits /\ i \in Nat \ {0} /\ s.cur <= i /\ i < s.endCur
                      /\ \A j \in hits : i <= j
                      /\ r = [s |-> At(s, i + 1, s.endCur, s.stage), mv |-> mv]
  BY <1>1, SelectGives
<1>3. ASSUME NEW j \in CaptureIndexes(s), j >= s.cur, Wants(s, s.buf[j].mv) PROVE j \in hits
  <2>1. j \in Ahead(s)
    BY <1>1, <1>3 DEF Ahead, Wants, CaptureIndexes
  <2>2. QED BY <1>3, <2>1
<1> HIDE DEF r, i, mv
<1>4. CASE hits = {}
  <2> DEFINE t == At(s, s.endCur, s.endCur, s.stage)
  <2>1. r.s = t /\ r.mv = None
    BY <1>2, <1>4
  <2>2. t \in Pickers /\ SameRun(s, t)
    BY <1>1, AtKeeps
  <2>3. Spent(s, came, CaptureIndexes(s))
    <3> SUFFICES ASSUME NEW j \in CaptureIndexes(s), Wants(s, s.buf[j].mv) PROVE s.buf[j].mv \in came
      BY DEF Spent
    <3>1. j \in Int /\ j < s.cur
      BY <1>1, <1>3, <1>4 DEF CaptureIndexes
    <3>2. j \in 1..(s.cur - 1)
      BY <1>1, <3>1 DEF CaptureIndexes
    <3>3. QED BY <3>2 DEF AtList, Spent
  <2>4. Given(s, came)
    BY <1>1, <2>3, GivenFrom
  <2>5. QED BY <2>1, <2>2, <2>4 DEF Answers, r
<1>5. CASE hits # {}
  <2> DEFINE t == At(s, i + 1, s.endCur, s.stage)
  <2>1. /\ i \in hits /\ i \in Nat \ {0} /\ s.cur <= i /\ i < s.endCur
        /\ \A j \in hits : i <= j
        /\ r.s = t /\ r.mv = mv
    BY <1>2, <1>5
  <2>2. i \in 1..(s.endGenerated - 1) /\ i \in CaptureIndexes(s) /\ i \in s.cur..(s.endCur - 1)
    BY <1>1, <2>1 DEF CaptureIndexes
  <2>3. /\ mv \in ToSet(ListOf(s.kind)) /\ mv # s.tt /\ mv # None /\ Wants(s, mv)
    BY <2>1, <2>2, EntryTyped DEF mv
  <2>4. mv \notin came /\ mv \in Listed(s)
    BY <2>2, <2>3 DEF AtList, Fresh, mv, Listed
  <2>5. /\ t \in Pickers /\ SameRun(s, t) /\ t.buf = s.buf /\ t.endBad = s.endBad
        /\ t.endCaptures = s.endCaptures /\ t.endGenerated = s.endGenerated
        /\ t.cur = i + 1 /\ t.endCur = s.endCur /\ t.stage = s.stage /\ Held(t)
    <3>1. /\ s \in Pickers /\ i + 1 \in Nat \ {0} /\ s.endCur \in Nat \ {0}
          /\ s.stage \in Stages
      BY <1>1, <2>1
    <3>2. QED BY <3>1, AtKeeps
  <2> HIDE DEF t
  <2>6. \A m : Wants(t, m) <=> Wants(s, m)
    BY <2>5 DEF Wants, SameRun
  <2>7. \A j \in 1..(s.endGenerated - 1) : j # i => s.buf[j].mv # mv
    BY <2>2, EntryTyped DEF Held, Distinct, mv
  <2>8. Spent(t, more, 1..(t.cur - 1))
    <3> SUFFICES ASSUME NEW j \in 1..i, Wants(s, s.buf[j].mv) PROVE s.buf[j].mv \in more
      BY <2>1, <2>5, <2>6 DEF Spent
    <3>1. CASE j < s.cur
      <4>1. j \in 1..(s.cur - 1)
        BY <1>1, <2>1, <3>1
      <4>2. QED BY <4>1 DEF AtList, Spent
    <3>2. CASE j >= s.cur
      <4>1. j \in CaptureIndexes(s)
        BY <1>1, <2>1 DEF CaptureIndexes
      <4>2. j \in hits
        BY <1>3, <3>2, <4>1
      <4>3. j = i
        BY <2>1, <4>2
      <4>4. QED BY <4>3 DEF mv
    <3>3. QED BY <1>1, <2>1, <3>1, <3>2
  <2>9. Fresh(t, more, t.cur..(t.endCur - 1))
    <3> SUFFICES ASSUME NEW j \in (i + 1)..(s.endCur - 1)
                 PROVE  s.buf[j].mv \notin more \/ s.buf[j].mv = s.tt
      BY <2>5 DEF Fresh, SameRun
    <3>1. j \in 1..(s.endGenerated - 1) /\ j # i /\ j \in s.cur..(s.endCur - 1)
      BY <1>1, <2>1
    <3>2. QED BY <2>7, <3>1 DEF AtList, Fresh
  <2>10. AtList(t, more)
    BY <1>1, <2>1, <2>5, <2>8, <2>9 DEF AtList, SameRun
  <2>11. QED BY <1>1, <2>1, <2>3, <2>4, <2>5, <2>10 DEF Answers, Standing, r
<1>6. QED BY <1>4, <1>5

\* The captures are through and no quiet is generated yet.
CapturesOver(s, came) ==
    /\ s.kind = "Main" /\ s.endGenerated = s.endCaptures /\ s.endBad <= s.endCaptures
    /\ came \subseteq ToSet(Captures) \cup {s.tt}
    /\ Fresh(s, came, 1..(s.endBad - 1)) /\ Spent(s, came, s.endBad..(s.endCaptures - 1))

\* Generating the quiets, unless they are skipped, behind the captures.
LEMMA QuietInitAnswers ==
    ASSUME NEW s, NEW came, Held(s), CapturesOver(s, came), NEW score \in Scores
    PROVE  Answers(s, came, QuietInit(s, score))
<1> DEFINE more == ScoredQuiets(s, score)
           all == IF s.skipQuiets THEN s.buf ELSE s.buf \o more
           end == IF s.skipQuiets THEN s.endGenerated ELSE Len(all) + 1
           t == [s EXCEPT !.buf = all, !.endGenerated = end, !.cur = s.endCaptures,
                          !.endCur = end, !.stage = "GoodQuiet"]
           c == s.endCaptures - 1
           q == Len(Quiets)
<1>1. /\ s \in Pickers /\ s.endCaptures \in Nat \ {0} /\ s.endGenerated = s.endCaptures
      /\ s.endBad \in Nat \ {0} /\ s.endBad <= s.endCaptures
      /\ s.buf \in Seq(Entries) /\ Len(s.buf) = c /\ DOMAIN s.buf = 1..c /\ c \in Nat
      /\ s.skipQuiets \in BOOLEAN
  BY DEF Held, Pickers, CapturesOver
<1>2. /\ q \in Nat /\ more \in Lists(q) /\ Distinct(more)
      /\ {more[j].mv : j \in DOMAIN more} = ToSet(Quiets)
  <2> DEFINE a == [i \in DOMAIN Quiets |-> [mv |-> Quiets[i], value |-> score[Quiets[i]]]]
             limit == -3560 * s.depth
             b == PartialInsertionSort(a, limit)
  <2>1. Quiets \in Seq(Moves) /\ IsInjective(Quiets) /\ q \in Nat
    BY GeneratorsAssumption
  <2>2. b \in Lists(q) /\ Distinct(b) /\ {b[j].mv : j \in DOMAIN b} = ToSet(Quiets)
    <3> HIDE DEF limit
    <3>1. QED BY <2>1, SortedMoves
  <2>3. more = b
    BY DEF ScoredQuiets
  <2> HIDE DEF more, b
  <2>4. QED BY <2>1, <2>2, <2>3
<1> HIDE DEF more
<1>3. more \in Seq(Entries) /\ Len(more) = q /\ DOMAIN more = 1..q
  BY <1>2 DEF Lists
<1>4. \A i \in 1..c : s.buf[i].mv \in ToSet(Captures)
  <2>1. \A i \in 1..(s.endGenerated - 1) : i \in CaptureIndexes(s)
    BY <1>1 DEF CaptureIndexes
  <2>2. QED BY <1>1, <2>1, EntryTyped DEF CapturesOver, ListOf
<1>5. CASE s.skipQuiets
  <2>1. t = [s EXCEPT !.cur = s.endCaptures, !.endCur = s.endCaptures, !.stage = "GoodQuiet"]
    BY <1>1, <1>5 DEF Pickers
  <2>2. t = At(s, s.endCaptures, s.endCaptures, "GoodQuiet")
    BY <2>1 DEF At
  <2>3. /\ t \in Pickers /\ SameRun(s, t) /\ t.buf = s.buf /\ t.endBad = s.endBad
        /\ t.endCaptures = s.endCaptures /\ t.endGenerated = s.endGenerated
        /\ t.cur = s.endCaptures /\ t.endCur = s.endCaptures /\ t.stage = "GoodQuiet" /\ Held(t)
    <3>1. s \in Pickers /\ s.endCaptures \in Nat \ {0} /\ "GoodQuiet" \in Stages
      BY <1>1 DEF Stages
    <3> HIDE DEF t
    <3>2. QED BY <2>2, <3>1, AtKeeps
  <2>4. QuietInit(s, score) = GoodQuiet(t)
    BY DEF QuietInit, more
  <2> HIDE DEF t
  <2>5. QuietIndexes(t) = {}
    BY <1>1, <2>3 DEF QuietIndexes
  <2>6. \A m : Wants(t, m) <=> Wants(s, m)
    BY <2>3 DEF Wants, SameRun
  <2>7. Fresh(t, came, 1..(t.endBad - 1)) /\ Spent(t, came, t.endBad..(t.endCaptures - 1))
    BY <2>3, <2>6 DEF CapturesOver, Fresh, Spent, SameRun
  <2>8. AtGoodQuiet(t, came)
    BY <1>1, <1>5, <2>3, <2>5, <2>7 DEF AtGoodQuiet, QuietsThere, SameRun, CapturesOver, Fresh
  <2>9. Answers(t, came, GoodQuiet(t))
    BY <2>3, <2>8, GoodQuietAnswers
  <2>10. QED BY <2>3, <2>4, <2>9, AnswersCarry
<1>6. CASE ~s.skipQuiets
  <2> DEFINE both == s.buf \o more
  <2>1. /\ both \in Seq(Entries) /\ Len(both) = c + q /\ DOMAIN both = 1..(c + q)
        /\ \A i \in 1..c : both[i] = s.buf[i]
        /\ \A i \in (c + 1)..(c + q) : both[i] = more[i - c] /\ i - c \in 1..q
        /\ \A i \in 1..q : both[i + c] = more[i] /\ i + c \in (c + 1)..(c + q)
    <3>1. /\ both \in Seq(Entries) /\ Len(both) = Len(s.buf) + Len(more)
          /\ \A i \in 1..(Len(s.buf) + Len(more)) :
                both[i] = IF i <= Len(s.buf) THEN s.buf[i] ELSE more[i - Len(s.buf)]
      <4> DEFINE front == s.buf
      <4>1. front \in Seq(Entries) /\ more \in Seq(Entries) /\ both = front \o more
        BY <1>1, <1>3 DEF both
      <4> HIDE DEF front
      <4>2. /\ front \o more \in Seq(Entries) /\ Len(front \o more) = Len(front) + Len(more)
            /\ \A i \in 1..(Len(front) + Len(more)) :
                  (front \o more)[i] = IF i <= Len(front) THEN front[i] ELSE more[i - Len(front)]
        BY <4>1, ConcatProperties
      <4>3. QED BY <4>1, <4>2 DEF front
    <3>2. DOMAIN both = 1..Len(both)
      BY <3>1
    <3> HIDE DEF both, c, q
    <3>3. \A i \in 1..(c + q) : both[i] = IF i <= c THEN s.buf[i] ELSE more[i - c]
      BY <1>1, <1>3, <3>1
    <3>4. QED BY <1>1, <1>2, <1>3, <3>1, <3>2, <3>3
  <2> HIDE DEF both
  <2>2. all = both /\ end = c + q + 1
    <3>1. all = both
      BY <1>6 DEF both
    <3>2. QED BY <1>1, <1>2, <1>6, <2>1, <3>1
  <2>3. /\ t \in Pickers /\ SameRun(s, t) /\ t.buf = both /\ t.endBad = s.endBad
        /\ t.endCaptures = s.endCaptures /\ t.endGenerated = c + q + 1
        /\ t.cur = s.endCaptures /\ t.endCur = c + q + 1 /\ t.stage = "GoodQuiet"
    <3>1. t = [s EXCEPT !.buf = both, !.endGenerated = c + q + 1, !.cur = s.endCaptures,
                        !.endCur = c + q + 1, !.stage = "GoodQuiet"]
      BY <2>2
    <3>2. c + q + 1 \in Nat \ {0}
      BY <1>1, <1>2
    <3> DEFINE end2 == c + q + 1
    <3> HIDE DEF t, c, q, end2
    <3>3. t = [s EXCEPT !.buf = both, !.endGenerated = end2, !.cur = s.endCaptures,
                        !.endCur = end2, !.stage = "GoodQuiet"]
      BY <3>1 DEF end2
    <3>4. both \in Seq(Entries) /\ end2 \in Nat \ {0}
      BY <2>1, <3>2 DEF end2
    <3>5. t \in Pickers
      <4>1. s \in Pickers /\ s.endCaptures \in Nat \ {0}
        BY <1>1
      <4>2. QED BY <3>3, <3>4, <4>1 DEF Pickers, Stages
    <3>6. SameRun(s, t)
      BY <1>1, <3>3 DEF Pickers, SameRun
    <3>7. /\ t.buf = both /\ t.endBad = s.endBad
          /\ t.endCaptures = s.endCaptures /\ t.endGenerated = end2
          /\ t.cur = s.endCaptures /\ t.endCur = end2 /\ t.stage = "GoodQuiet"
      BY <1>1, <3>3 DEF Pickers
    <3>8. QED BY <3>5, <3>6, <3>7 DEF end2
  <2>4. QuietInit(s, score) = GoodQuiet(t)
    BY DEF QuietInit, more
  <2> HIDE DEF t, all, end
  <2>5. CaptureIndexes(t) = 1..c /\ QuietIndexes(t) = (c + 1)..(c + q) /\ CaptureIndexes(s) = 1..c
    BY <1>1, <1>2, <2>3 DEF CaptureIndexes, QuietIndexes
  <2>6. \A i \in (c + 1)..(c + q) : both[i].mv \in ToSet(Quiets)
    BY <1>2, <1>3, <2>1
  <2>7. \A i \in 1..(c + q) : i \in 1..c \/ i \in (c + 1)..(c + q)
    BY <1>1
  <2>8. Distinct(t.buf)
    <3> SUFFICES ASSUME NEW i \in 1..(c + q), NEW j \in 1..(c + q), both[i].mv = both[j].mv PROVE i = j
      BY <2>1, <2>3 DEF Distinct
    <3>1. CASE i \in 1..c /\ j \in 1..c
      BY <1>1, <2>1, <3>1 DEF Held, Distinct
    <3>2. CASE i \in (c + 1)..(c + q) /\ j \in (c + 1)..(c + q)
      <4>1. i - c \in 1..q /\ j - c \in 1..q /\ more[i - c].mv = more[j - c].mv
        BY <2>1, <3>2
      <4>2. i - c = j - c
        BY <1>2, <1>3, <4>1 DEF Distinct
      <4>3. QED BY <1>1, <3>2, <4>2
    <3>3. ASSUME NEW x \in 1..c, NEW y \in (c + 1)..(c + q) PROVE both[x].mv # both[y].mv
      BY <1>4, <2>1, <2>6, GeneratorsAssumption
    <3>4. QED BY <2>7, <3>1, <3>2, <3>3
  <2>9. MovesAt(t, CaptureIndexes(t)) = MovesAt(s, CaptureIndexes(s))
    <3> HIDE DEF c, q
    <3>1. \A i \in 1..c : t.buf[i].mv = s.buf[i].mv
      BY <2>1, <2>3
    <3>2. QED BY <2>5, <3>1 DEF MovesAt
  <2>10. MovesAt(t, QuietIndexes(t)) = ToSet(Quiets)
    <3>1. MovesAt(t, QuietIndexes(t)) \subseteq ToSet(Quiets)
      BY <2>3, <2>5, <2>6 DEF MovesAt
    <3>2. ToSet(Quiets) \subseteq MovesAt(t, QuietIndexes(t))
      <4> SUFFICES ASSUME NEW m \in ToSet(Quiets) PROVE m \in MovesAt(t, QuietIndexes(t))
        OBVIOUS
      <4>1. PICK j \in 1..q : more[j].mv = m
        BY <1>2, <1>3
      <4>2. j + c \in QuietIndexes(t) /\ t.buf[j + c].mv = m
        BY <2>1, <2>3, <2>5, <4>1
      <4>3. QED BY <4>2 DEF MovesAt
    <3>3. QED BY <3>1, <3>2
  <2>11. Held(t)
    <3>1. t.endCaptures <= t.endGenerated /\ Len(t.buf) = t.endGenerated - 1
      BY <1>1, <1>2, <2>1, <2>3
    <3>2. QED BY <2>3, <2>8, <2>9, <2>10, <3>1 DEF Held, SameRun
  <2>12. \A m : Wants(t, m) <=> Wants(s, m)
    BY <2>3 DEF Wants, SameRun
  <2>13. Fresh(t, came, 1..(t.endBad - 1)) /\ Spent(t, came, t.endBad..(t.endCaptures - 1))
    <3>1. /\ \A i \in 1..(s.endBad - 1) : both[i] = s.buf[i]
          /\ \A i \in s.endBad..(s.endCaptures - 1) : both[i] = s.buf[i]
      BY <1>1, <2>1
    <3>2. \A i : (i \in 1..(s.endBad - 1) \/ i \in s.endBad..(s.endCaptures - 1)) =>
              t.buf[i].mv = s.buf[i].mv
      BY <2>3, <3>1
    <3>3. t.tt = s.tt /\ t.endBad = s.endBad /\ t.endCaptures = s.endCaptures
      BY <2>3 DEF SameRun
    <3>4. QED BY <2>12, <3>2, <3>3 DEF CapturesOver, Fresh, Spent
  <2>14. Fresh(t, came, {i \in QuietIndexes(t) : i >= t.cur \/ ~Good(t, i)})
    <3>1. \A i \in QuietIndexes(t) : t.buf[i].mv \notin came \/ t.buf[i].mv = t.tt
      BY <2>3, <2>5, <2>6, GeneratorsAssumption DEF CapturesOver, SameRun
    <3>2. QED BY <3>1 DEF Fresh
  <2>15. Spent(t, came, {i \in QuietIndexes(t) : i < t.cur /\ Good(t, i)})
    <3>1. \A i \in QuietIndexes(t) : ~(i < t.cur)
      BY <1>1, <2>3, <2>5
    <3>2. QED BY <3>1 DEF Spent
  <2>16. AtGoodQuiet(t, came)
    BY <1>1, <1>2, <1>6, <2>3, <2>10, <2>13, <2>14, <2>15 DEF AtGoodQuiet, QuietsThere, SameRun, CapturesOver
  <2>17. Answers(t, came, GoodQuiet(t))
    BY <2>11, <2>16, GoodQuietAnswers
  <2>18. QED BY <2>3, <2>4, <2>17, AnswersCarry
<1>7. QED BY <1>1, <1>5, <1>6

\* Two entries swapped.
Swapped(a, b, i) == [a EXCEPT ![b] = a[i], ![i] = a[b]]

\* A swap keeps the entries.
LEMMA SwapKeeps ==
    ASSUME NEW n \in Nat, NEW a \in Lists(n), NEW b \in 1..n, NEW i \in 1..n
    PROVE  LET c == Swapped(a, b, i)
           IN  /\ c \in Lists(n) /\ c[b] = a[i] /\ c[i] = a[b]
               /\ \A j \in 1..n : j # b /\ j # i => c[j] = a[j]
               /\ SameEntries(a, c)
               /\ Distinct(a) => Distinct(c)
<1> DEFINE c == Swapped(a, b, i)
<1>1. DOMAIN a = 1..n /\ \A j \in 1..n : a[j] \in Entries
  BY DEF Lists
<1>2. /\ DOMAIN c = 1..n /\ c = [j \in 1..n |-> c[j]] /\ c[b] = a[i] /\ c[i] = a[b]
      /\ \A j \in 1..n : j # b /\ j # i => c[j] = a[j]
  BY <1>1 DEF Swapped
<1> HIDE DEF c
<1>3. c \in Lists(n)
  <2>1. \A j \in 1..n : c[j] \in Entries
    BY <1>1, <1>2
  <2>2. QED BY <1>2, <2>1 DEF Lists
<1>4. SameEntries(a, c)
  BY <1>1, <1>2 DEF SameEntries
<1>5. Distinct(a) => Distinct(c)
  BY <1>1, <1>2 DEF Distinct
<1>6. QED BY <1>2, <1>3, <1>4, <1>5 DEF c

\* The compaction of the captures of s has come to index i.
Compacted(s, t, came, i) ==
    /\ t \in Pickers /\ SameRun(s, t) /\ t.stage = s.stage /\ t.cur = s.cur /\ t.endCur = s.endCur
    /\ t.endCaptures = s.endCaptures /\ t.endGenerated = s.endGenerated
    /\ t.endBad <= i
    /\ t.buf \in Lists(s.endGenerated - 1) /\ Distinct(t.buf) /\ SameEntries(s.buf, t.buf)
    /\ \A j \in i..(s.endGenerated - 1) : t.buf[j] = s.buf[j]
    /\ Fresh(t, came, 1..(t.endBad - 1)) /\ Spent(t, came, t.endBad..(i - 1))

\* A capture more is set aside.
LEMMA CompactStep ==
    ASSUME NEW s, NEW t, NEW came, NEW i, s.endGenerated \in Nat \ {0},
           i \in 1..(s.endGenerated - 1), Compacted(s, t, came, i),
           s.buf[i].mv \notin came
    PROVE  Compacted(s, Compact(t, i), came, i + 1)
<1> DEFINE n == s.endGenerated - 1
           b == t.endBad
           a == t.buf
           c == Swapped(a, b, i)
           u == Compact(t, i)
<1>1. n \in Nat /\ i \in 1..n /\ b \in 1..i /\ b \in 1..n /\ b \in Nat \ {0}
  BY DEF Compacted, Pickers
<1>2. t \in Pickers /\ t.buf \in Lists(n) /\ Distinct(t.buf) /\ SameEntries(s.buf, t.buf)
  BY DEF Compacted
<1>3. /\ c \in Lists(n) /\ c[b] = t.buf[i] /\ c[i] = t.buf[b]
      /\ \A j \in 1..n : j # b /\ j # i => c[j] = t.buf[j]
      /\ SameEntries(t.buf, c) /\ Distinct(c)
  <2> HIDE DEF n, b, a
  <2>1. a \in Lists(n) /\ Distinct(a) /\ n \in Nat /\ b \in 1..n /\ i \in 1..n
    BY <1>1, <1>2 DEF a
  <2> HIDE DEF c
  <2>2. /\ Swapped(a, b, i) \in Lists(n) /\ Swapped(a, b, i)[b] = a[i] /\ Swapped(a, b, i)[i] = a[b]
        /\ \A j \in 1..n : j # b /\ j # i => Swapped(a, b, i)[j] = a[j]
        /\ SameEntries(a, Swapped(a, b, i))
        /\ Distinct(a) => Distinct(Swapped(a, b, i))
    BY <2>1, SwapKeeps
  <2>3. c = Swapped(a, b, i)
    BY DEF c
  <2>4. QED BY <2>1, <2>2, <2>3 DEF a
<1>4. u = [t EXCEPT !.buf = c, !.endBad = b + 1]
  BY DEF Compact, Swapped
<1> HIDE DEF c, u
<1>5. c \in Seq(Entries)
  BY <1>1, <1>3 DEF Lists
<1>6. /\ u \in Pickers /\ SameRun(t, u) /\ u.stage = t.stage /\ u.cur = t.cur /\ u.endCur = t.endCur
      /\ u.endCaptures = t.endCaptures /\ u.endGenerated = t.endGenerated
      /\ u.endBad = b + 1 /\ u.buf = c
  <2>1. b + 1 \in Nat \ {0}
    BY <1>1
  <2> HIDE DEF b
  <2>2. QED BY <1>2, <1>4, <1>5, <2>1 DEF Pickers, SameRun
<1>7. SameEntries(s.buf, c)
  BY <1>2, <1>3, SameEntriesCarries
<1>8. ASSUME NEW j \in (i + 1)..n PROVE c[j] = s.buf[j]
  <2>1. j \in 1..n /\ j # b /\ j # i /\ j \in i..n
    BY <1>1
  <2>2. QED BY <1>3, <2>1 DEF Compacted
<1>9. c[b].mv \notin came
  <2>1. i \in i..n
    BY <1>1
  <2>2. t.buf[i] = s.buf[i]
    BY <2>1 DEF Compacted
  <2>3. QED BY <1>3, <2>2
<1>10. Fresh(u, came, 1..(u.endBad - 1))
  <2> SUFFICES ASSUME NEW j \in 1..b PROVE c[j].mv \notin came \/ c[j].mv = t.tt
    BY <1>1, <1>6 DEF Fresh, SameRun
  <2>1. CASE j = b
    BY <1>9, <2>1
  <2>2. CASE j # b
    <3>1. j \in 1..n /\ j # i /\ j \in 1..(t.endBad - 1)
      BY <1>1, <2>2
    <3>2. QED BY <1>3, <2>2, <3>1 DEF Compacted, Fresh
  <2>3. QED BY <2>1, <2>2
<1>11. Spent(u, came, u.endBad..((i + 1) - 1))
  <2> SUFFICES ASSUME NEW j \in (b + 1)..i, Wants(t, c[j].mv) PROVE c[j].mv \in came
    <3>1. \A m : Wants(u, m) <=> Wants(t, m)
      BY <1>6 DEF Wants, SameRun
    <3>2. QED BY <1>1, <1>6, <3>1 DEF Spent
  <2>1. CASE j = i
    <3>1. b \in t.endBad..(i - 1) /\ c[j] = t.buf[b]
      BY <1>1, <1>3, <2>1
    <3>2. QED BY <3>1 DEF Compacted, Spent
  <2>2. CASE j # i
    <3>1. j \in 1..n /\ j # b /\ j \in t.endBad..(i - 1)
      BY <1>1, <2>2
    <3>2. QED BY <1>3, <2>2, <3>1 DEF Compacted, Spent
  <2>3. QED BY <2>1, <2>2
<1>12. SameRun(s, u) /\ u.endBad <= i + 1
  BY <1>1, <1>6 DEF Compacted, SameRun
<1>13. /\ u.stage = s.stage /\ u.cur = s.cur /\ u.endCur = s.endCur
       /\ u.endCaptures = s.endCaptures /\ u.endGenerated = s.endGenerated
  BY <1>6 DEF Compacted
<1>14. u.buf \in Lists(n) /\ Distinct(u.buf) /\ SameEntries(s.buf, u.buf) /\ u \in Pickers
  BY <1>3, <1>6, <1>7
<1>15. \A j \in (i + 1)..(s.endGenerated - 1) : u.buf[j] = s.buf[j]
  BY <1>6, <1>8
<1> HIDE DEF b
<1>16. Compacted(s, u, came, i + 1)
  BY <1>10, <1>11, <1>12, <1>13, <1>14, <1>15 DEF Compacted
<1>17. QED BY <1>16 DEF u

\* The captures up to an index set aside, one after the other.
LEMMA CompactionRight ==
    ASSUME NEW s, NEW came, Held(s), AtGoodCapture(s, came), NEW stop \in s.cur..s.endCur
    PROVE  Compacted(s, FoldLeft(Compact, s, [k \in 1..(stop - s.cur) |-> s.cur + k - 1]), came, stop)
<1> DEFINE m == stop - s.cur
           seq == [k \in 1..m |-> s.cur + k - 1]
           v == Compacting!Values(s, seq, m)
           cur == s.cur
<1>1. /\ s \in Pickers /\ cur \in Nat \ {0} /\ s.endCur \in Nat \ {0} /\ s.endGenerated \in Nat \ {0}
      /\ s.endGenerated = s.endCur /\ s.endBad \in Nat \ {0} /\ s.endBad <= cur
      /\ stop \in Nat /\ cur <= stop /\ stop <= s.endGenerated /\ m \in Nat /\ stop = cur + m
      /\ s.endCur = s.endCaptures /\ s.endCaptures \in Nat
  BY DEF Held, Pickers, AtGoodCapture
<1>2. DOMAIN seq = 1..m /\ \A k \in 1..m : seq[k] = cur + k - 1
  OBVIOUS
<1> HIDE DEF seq, cur, m
<1>3. /\ v[0] = s /\ v[m] = Compacting!FoldOf(s, seq)
      /\ \A k \in 1..m : v[k] = Compact(v[k - 1], seq[k])
  <2>1. m \in Nat /\ DOMAIN seq = 1..m
    BY <1>1, <1>2
  <2>2. QED BY <2>1, Compacting!FoldSteps
<1> HIDE DEF v
<1> DEFINE S == {k \in Nat : k <= m => Compacted(s, v[k], came, cur + k)}
<1>4. 0 \in S
  <2>1. SameRun(s, s) /\ SameEntries(s.buf, s.buf) /\ Distinct(s.buf)
    BY DEF SameRun, SameEntries, Held
  <2>2. s.buf \in Lists(s.endGenerated - 1)
    <3> DEFINE buf == s.buf
    <3>1. buf \in Seq(Entries) /\ Len(buf) = s.endGenerated - 1
      BY DEF Held, Pickers
    <3> HIDE DEF buf
    <3>2. buf \in [1..(s.endGenerated - 1) -> Entries]
      BY <3>1
    <3>3. QED BY <3>2 DEF Lists, buf
  <2>3. Fresh(s, came, 1..(s.endBad - 1)) /\ Spent(s, came, s.endBad..(cur - 1))
    BY DEF AtGoodCapture, cur
  <2>4. Compacted(s, s, came, cur)
    BY <1>1, <2>1, <2>2, <2>3 DEF Compacted
  <2>5. cur + 0 = cur
    BY <1>1
  <2>6. QED BY <1>3, <2>4, <2>5
<1>5. ASSUME NEW k \in Nat, k \in S PROVE k + 1 \in S
  <2> SUFFICES ASSUME k + 1 <= m PROVE Compacted(s, v[k + 1], came, cur + (k + 1))
    OBVIOUS
  <2> DEFINE i == cur + k
  <2>1. k + 1 \in 1..m /\ (k + 1) - 1 = k /\ i \in 1..(s.endGenerated - 1) /\ cur + (k + 1) = i + 1
        /\ i \in cur..(s.endCur - 1) /\ cur + (k + 1) - 1 = i
    BY <1>1
  <2>2. Compacted(s, v[k], came, i)
    BY <1>1, <1>5
  <2>3. v[k + 1] = Compact(v[k], i)
    BY <1>2, <1>3, <2>1
  <2>4. s.buf[i].mv \notin came
    <3>1. i \in CaptureIndexes(s)
      BY <1>1, <2>1 DEF CaptureIndexes
    <3>2. s.buf[i].mv # s.tt
      BY <2>1, <3>1, EntryTyped
    <3>3. QED BY <2>1, <3>2 DEF AtGoodCapture, Fresh, cur
  <2> HIDE DEF i
  <2>5. Compacted(s, Compact(v[k], i), came, i + 1)
    BY <1>1, <2>1, <2>2, <2>4, CompactStep
  <2>6. QED BY <2>1, <2>3, <2>5
<1>6. Nat \subseteq S
  <2> HIDE DEF S
  <2>1. QED BY <1>4, <1>5, Sorting!SetInduction
<1>7. Compacted(s, v[m], came, stop)
  BY <1>1, <1>6
<1>8. Compacting!FoldOf(s, seq) = FoldLeft(Compact, s, seq)
  BY DEF Compacting!FoldOf, FoldLeft, Compacting!FoldLeft, MapThenFoldSet, Compacting!MapThenFoldSet,
         Max, Compacting!Max
<1>9. seq = [k \in 1..(stop - s.cur) |-> s.cur + k - 1]
  BY DEF seq, m, cur
<1> HIDE DEF S
<1>10. QED BY <1>3, <1>7, <1>8, <1>9

\* What is compacted is held.
LEMMA CompactedHeld ==
    ASSUME NEW s, NEW t, NEW came, NEW i, Held(s), AtGoodCapture(s, came), Compacted(s, t, came, i)
    PROVE  Held(t)
<1> DEFINE n == s.endGenerated - 1
           a == s.buf
           b == t.buf
<1>1. n \in Nat /\ s.endGenerated = s.endCaptures /\ t.endGenerated - 1 = n /\ t.endCaptures - 1 = n
      /\ t.endCaptures <= t.endGenerated /\ t.endCaptures \in Nat /\ t.endGenerated = t.endCaptures
  BY DEF Held, Pickers, AtGoodCapture, Compacted
<1>2. a \in Seq(Entries) /\ Len(a) = n /\ b \in Lists(n) /\ SameEntries(a, b)
  BY DEF Held, Pickers, Compacted
<1> HIDE DEF a, b, n
<1>3. DOMAIN a = 1..n /\ DOMAIN b = 1..n /\ Len(b) = n
  BY <1>1, <1>2 DEF Lists
<1>4. {b[j].mv : j \in 1..n} = {a[j].mv : j \in 1..n}
  <2>1. \A j \in 1..n : \E l \in 1..n : b[j].mv = a[l].mv
    BY <1>2, <1>3 DEF SameEntries
  <2>2. \A l \in 1..n : \E j \in 1..n : b[j].mv = a[l].mv
    BY <1>2, <1>3 DEF SameEntries
  <2>3. {b[j].mv : j \in 1..n} \subseteq {a[j].mv : j \in 1..n}
    BY <2>1
  <2>4. {a[j].mv : j \in 1..n} \subseteq {b[j].mv : j \in 1..n}
    BY <2>2
  <2>5. QED BY <2>3, <2>4
<1>5. CaptureIndexes(t) = 1..n /\ CaptureIndexes(s) = 1..n
  BY <1>1 DEF CaptureIndexes, n
<1>6. QuietIndexes(t) = {}
  BY <1>1 DEF QuietIndexes, n
<1>7. MovesAt(t, CaptureIndexes(t)) = MovesAt(s, CaptureIndexes(s))
  BY <1>4, <1>5 DEF MovesAt, a, b
<1>8. MovesAt(t, QuietIndexes(t)) \subseteq ToSet(Quiets)
  BY <1>6 DEF MovesAt
<1>9. QED BY <1>1, <1>3, <1>7, <1>8 DEF Held, Compacted, SameRun, b

\* The captures that win or hold their exchange.
LEMMA GoodCaptureAnswers ==
    ASSUME NEW s, NEW came, Held(s), AtGoodCapture(s, came), NEW score \in Scores
    PROVE  Answers(s, came, GoodCapture(s, score))
<1> DEFINE hits == {i \in Ahead(s) : See(s.buf[i].mv, TruncDiv(-s.buf[i].value, 18))}
           stop == IF hits = {} THEN s.endCur ELSE First(hits)
           left == FoldLeft(Compact, s, [k \in 1..(stop - s.cur) |-> s.cur + k - 1])
<1>1. /\ s \in Pickers /\ s.cur \in Nat \ {0} /\ s.endCur \in Nat \ {0}
      /\ s.endCaptures \in Nat \ {0} /\ s.endGenerated = s.endCaptures /\ s.endCur = s.endCaptures
      /\ s.cur <= s.endCur /\ s.stage \in Stages /\ s.kind = "Main"
      /\ came \subseteq ToSet(Captures) \cup {s.tt}
  BY DEF Held, Pickers, AtGoodCapture
<1>2. /\ hits # {} => First(hits) \in hits
      /\ hits \subseteq Ahead(s) /\ Ahead(s) \subseteq s.cur..(s.endCur - 1)
  <2>1. hits \subseteq Ahead(s) /\ Ahead(s) \subseteq s.cur..(s.endCur - 1)
    BY DEF Ahead
  <2>2. hits \subseteq Nat
    BY <1>1, <2>1
  <2> HIDE DEF hits
  <2>3. QED BY <2>1, <2>2, FirstIsLeast
<1>3. GoodCapture(s, score) = IF hits = {} THEN QuietInit(Passed(left), score) ELSE YieldAt(left, stop)
  BY DEF GoodCapture
<1> HIDE DEF hits, left
<1>4. stop \in s.cur..s.endCur
  <2>1. CASE hits = {}
    BY <1>1, <2>1
  <2>2. CASE hits # {}
    <3>1. First(hits) \in s.cur..(s.endCur - 1)
      BY <1>2, <2>2
    <3>2. QED BY <1>1, <2>2, <3>1
  <2>3. QED BY <2>1, <2>2
<1>5. Compacted(s, left, came, stop)
  BY <1>4, CompactionRight DEF left
<1>6. Held(left)
  BY <1>5, CompactedHeld
<1>7. /\ left \in Pickers /\ SameRun(s, left) /\ left.stage = s.stage /\ left.endCur = s.endCur
      /\ left.endCaptures = s.endCaptures /\ left.endGenerated = s.endGenerated
      /\ left.endBad <= stop /\ left.endBad \in Nat \ {0}
      /\ Fresh(left, came, 1..(left.endBad - 1)) /\ Spent(left, came, left.endBad..(stop - 1))
      /\ \A j \in stop..(s.endGenerated - 1) : left.buf[j] = s.buf[j]
  BY <1>5 DEF Compacted, Pickers
<1>8. CASE hits = {}
  <2> DEFINE t == At(left, s.endCur, s.endCur, s.stage)
  <2>1. Passed(left) = t
    BY <1>7 DEF Passed, At, Pickers
  <2>2. /\ t \in Pickers /\ SameRun(left, t) /\ t.buf = left.buf /\ t.endBad = left.endBad
        /\ t.endCaptures = left.endCaptures /\ t.endGenerated = left.endGenerated /\ Held(t)
    <3>1. left \in Pickers /\ s.endCur \in Nat \ {0} /\ s.stage \in Stages
      BY <1>1, <1>7
    <3>2. QED BY <1>6, <3>1, AtKeeps
  <2> HIDE DEF t
  <2>3. SameRun(s, t)
    BY <1>7, <2>2 DEF SameRun
  <2>4. \A m : Wants(t, m) <=> Wants(left, m)
    BY <2>2 DEF Wants, SameRun
  <2>5. Fresh(t, came, 1..(t.endBad - 1)) /\ Spent(t, came, t.endBad..(t.endCaptures - 1))
    <3>1. stop = s.endCaptures
      BY <1>1, <1>8
    <3>2. QED BY <1>7, <2>2, <2>4, <3>1 DEF Fresh, Spent, SameRun
  <2>6. CapturesOver(t, came)
    <3>1. t.kind = s.kind /\ t.tt = s.tt /\ t.endBad <= t.endCaptures
      BY <1>1, <1>7, <1>8, <2>2, <2>3 DEF SameRun
    <3>2. QED BY <1>1, <1>7, <2>2, <2>5, <3>1 DEF CapturesOver
  <2>7. Answers(t, came, QuietInit(t, score))
    BY <2>2, <2>6, QuietInitAnswers
  <2>8. QED BY <1>3, <1>8, <2>1, <2>3, <2>7, AnswersCarry
<1>9. CASE hits # {}
  <2> DEFINE t == At(left, stop + 1, s.endCur, s.stage)
             mv == left.buf[stop].mv
             more == came \cup {mv}
  <2>1. stop = First(hits) /\ stop \in Ahead(s) /\ stop \in s.cur..(s.endCur - 1)
    BY <1>2, <1>9
  <2> HIDE DEF stop
  <2>2. /\ stop \in Nat \ {0} /\ stop \in 1..(s.endGenerated - 1) /\ stop \in CaptureIndexes(s)
        /\ stop \in stop..(s.endGenerated - 1) /\ stop + 1 \in Nat \ {0} /\ stop < s.endCur
    BY <1>1, <2>1 DEF CaptureIndexes
  <2>3. mv = s.buf[stop].mv
    BY <1>7, <2>2
  <2>4. YieldAt(left, stop) = [s |-> t, mv |-> mv]
    <3>1. [left EXCEPT !.cur = stop + 1] = t
      BY <1>7 DEF At, Pickers
    <3>2. QED BY <3>1 DEF YieldAt, Yield
  <2> DEFINE r == YieldAt(left, stop)
  <2>5. r.s = t /\ r.mv = mv
    BY <2>4
  <2> HIDE DEF r, mv
  <2>6. /\ mv \in ToSet(ListOf(s.kind)) /\ mv \in position.legal /\ mv # s.tt /\ mv # None
    BY <2>2, <2>3, EntryTyped
  <2>7. mv \notin ToSet(Quiets) /\ mv \in ToSet(Captures) /\ Wants(s, mv) /\ mv \in Listed(s)
    BY <1>1, <2>6, GeneratorsAssumption DEF ListOf, Wants, Listed
  <2>8. mv \notin came
    BY <2>1, <2>3, <2>6 DEF AtGoodCapture, Fresh
  <2>9. /\ t \in Pickers /\ SameRun(left, t) /\ t.buf = left.buf /\ t.endBad = left.endBad
        /\ t.endCaptures = left.endCaptures /\ t.endGenerated = left.endGenerated
        /\ t.cur = stop + 1 /\ t.endCur = s.endCur /\ t.stage = s.stage /\ Held(t)
    <3>1. left \in Pickers /\ stop + 1 \in Nat \ {0} /\ s.endCur \in Nat \ {0} /\ s.stage \in Stages
      BY <1>1, <1>7, <2>2
    <3>2. QED BY <1>6, <3>1, AtKeeps
  <2> HIDE DEF t
  <2>10. SameRun(s, t) /\ \A m : Wants(t, m) <=> Wants(left, m)
    BY <1>7, <2>9 DEF Wants, SameRun
  <2>11. \A j \in 1..(s.endGenerated - 1) : j # stop => left.buf[j].mv # mv
    <3>1. stop \in 1..(left.endGenerated - 1) /\ left.endGenerated = s.endGenerated
      BY <1>7, <2>2
    <3>2. QED BY <1>6, <3>1, EntryTyped DEF Held, Distinct, mv
  <2>12. Fresh(t, more, 1..(t.endBad - 1))
    <3>1. \A j \in 1..(left.endBad - 1) : j \in 1..(s.endGenerated - 1) /\ j # stop
      BY <1>1, <1>7, <2>2
    <3>2. QED BY <1>7, <2>9, <2>11, <3>1 DEF Fresh, SameRun
  <2>13. Spent(t, more, t.endBad..(t.cur - 1))
    <3> SUFFICES ASSUME NEW j \in left.endBad..stop, Wants(left, left.buf[j].mv)
                 PROVE  left.buf[j].mv \in more
      BY <2>2, <2>9, <2>10 DEF Spent
    <3>1. CASE j = stop
      BY <3>1 DEF mv
    <3>2. CASE j # stop
      <4>1. j \in left.endBad..(stop - 1)
        BY <1>7, <2>2, <3>2
      <4>2. QED BY <1>7, <4>1 DEF Spent
    <3>3. QED BY <3>1, <3>2
  <2>14. Fresh(t, more, t.cur..(t.endCur - 1))
    <3> SUFFICES ASSUME NEW j \in (stop + 1)..(s.endCur - 1)
                 PROVE  left.buf[j].mv \notin more \/ left.buf[j].mv = s.tt
      BY <2>9, <2>10 DEF Fresh, SameRun
    <3>1. /\ j \in 1..(s.endGenerated - 1) /\ j # stop /\ j \in stop..(s.endGenerated - 1)
          /\ j \in s.cur..(s.endCur - 1)
      BY <1>1, <2>1, <2>2
    <3>2. left.buf[j] = s.buf[j]
      BY <1>7, <3>1
    <3>3. s.buf[j].mv \notin came \/ s.buf[j].mv = s.tt
      BY <3>1 DEF AtGoodCapture, Fresh
    <3>4. QED BY <2>11, <3>1, <3>2, <3>3
  <2>15. AtGoodCapture(t, more)
    <3>1. t.kind = "Main" /\ t.stage = "GoodCapture" /\ t.tt = s.tt
      BY <1>1, <2>9, <2>10 DEF AtGoodCapture, SameRun
    <3>2. /\ t.endGenerated = t.endCaptures /\ t.endCur = t.endCaptures
          /\ t.endBad <= t.cur /\ t.cur <= t.endCur
      BY <1>1, <1>7, <2>2, <2>9
    <3>3. more \subseteq ToSet(Captures) \cup {t.tt}
      BY <1>1, <2>7, <3>1
    <3>4. QED BY <2>12, <2>13, <2>14, <3>1, <3>2, <3>3 DEF AtGoodCapture
  <2>16. Answers(s, came, r)
    BY <1>1, <2>5, <2>6, <2>7, <2>8, <2>9, <2>10, <2>15 DEF Answers, Standing
  <2>17. QED BY <1>3, <1>9, <2>16 DEF r
<1>10. QED BY <1>8, <1>9

----------------------------------------------------------------------------
(* The first list, and what a call answers.                                *)

\* The list a stage starts with.
LEMMA ListInitHeld ==
    ASSUME NEW s \in Pickers, s.kind = picker.kind, s.tt = picker.tt, NEW score \in Scores,
           NEW stage \in Stages
    PROVE  LET t == ListInit(s, score, stage)
           IN  /\ Held(t) /\ SameRun(s, t) /\ t.stage = stage /\ t.cur = 1 /\ t.endBad = 1
               /\ t.endCur = t.endCaptures /\ t.endGenerated = t.endCaptures
<1> DEFINE kept == FoldLeft(Keep, <<>>, ListOf(s.kind))
           n == Len(kept)
           list == SortedList(s, score)
           end == Len(list) + 1
           t == ListInit(s, score, stage)
<1>1. /\ kept \in Seq(Moves) /\ IsInjective(kept)
      /\ ToSet(kept) = {m \in ToSet(ListOf(s.kind)) : IsLegal(m) /\ m # s.tt}
  BY KeptRight
<1>2. list \in Lists(n) /\ Distinct(list) /\ {list[i].mv : i \in DOMAIN list} = ToSet(kept)
  <2> HIDE DEF kept
  <2> DEFINE a == [i \in DOMAIN kept |-> [mv |-> kept[i], value |-> score[kept[i]]]]
             b == PartialInsertionSort(a, NoLimit)
  <2>1. b \in Lists(n) /\ Distinct(b) /\ {b[i].mv : i \in DOMAIN b} = ToSet(kept)
    <3>1. kept \in Seq(Moves) /\ IsInjective(kept)
      BY <1>1
    <3>2. QED BY <3>1, SortedMoves
  <2>2. list = b
    BY DEF SortedList, kept
  <2> HIDE DEF list, b
  <2>3. QED BY <2>1, <2>2
<1>3. n \in Nat
  <2> HIDE DEF kept
  <2>1. QED BY <1>1
<1> HIDE DEF kept, n
<1>4. t = [s EXCEPT !.buf = list, !.endCaptures = end, !.endGenerated = end,
                    !.cur = 1, !.endBad = 1, !.endCur = end, !.stage = stage]
  BY DEF ListInit
<1> HIDE DEF list, t
<1>5. list \in Seq(Entries) /\ Len(list) = n /\ DOMAIN list = 1..n
  BY <1>2, <1>3 DEF Lists
<1>6. end = n + 1 /\ end \in Nat \ {0}
  BY <1>3, <1>5
<1> HIDE DEF end
<1>7. /\ t \in Pickers /\ SameRun(s, t) /\ t.stage = stage /\ t.cur = 1 /\ t.endBad = 1
      /\ t.endCur = end /\ t.endCaptures = end /\ t.endGenerated = end /\ t.buf = list
  <2>1. t \in Pickers
    <3>1. list \in Seq(Entries) /\ end \in Nat \ {0} /\ 1 \in Nat \ {0}
      BY <1>5, <1>6
    <3>2. /\ DOMAIN s = {"kind", "tt", "depth", "threshold", "skipQuiets", "stage", "buf",
                         "cur", "endCur", "endBad", "endCaptures", "endGenerated"}
          /\ s.kind \in Kinds /\ s.tt \in Moves \cup {None} /\ s.depth \in Depths \cup {0}
          /\ s.threshold \in SeeValues \cup {0} /\ s.skipQuiets \in BOOLEAN
          /\ s = [x \in DOMAIN s |-> s[x]]
      BY DEF Pickers
    <3>3. QED BY <1>4, <3>1, <3>2 DEF Pickers
  <2>2. SameRun(s, t)
    BY <1>4 DEF Pickers, SameRun
  <2>3. /\ t.stage = stage /\ t.cur = 1 /\ t.endBad = 1
        /\ t.endCur = end /\ t.endCaptures = end /\ t.endGenerated = end /\ t.buf = list
    BY <1>4 DEF Pickers
  <2>4. QED BY <2>1, <2>2, <2>3
<1>8. CaptureIndexes(t) = 1..n /\ QuietIndexes(t) = {}
  BY <1>3, <1>6, <1>7 DEF CaptureIndexes, QuietIndexes
<1>9. MovesAt(t, CaptureIndexes(t)) = {m \in ToSet(ListOf(t.kind)) : IsLegal(m) /\ m # t.tt}
  <2>1. MovesAt(t, CaptureIndexes(t)) = ToSet(kept)
    BY <1>2, <1>5, <1>7, <1>8 DEF MovesAt
  <2>2. t.kind = s.kind /\ t.tt = s.tt
    BY <1>7 DEF SameRun
  <2>3. QED BY <1>1, <2>1, <2>2
<1>10. Held(t)
  <2>1. MovesAt(t, QuietIndexes(t)) \subseteq ToSet(Quiets)
    BY <1>8 DEF MovesAt
  <2>2. Len(t.buf) = t.endGenerated - 1 /\ t.endCaptures <= t.endGenerated
    BY <1>3, <1>5, <1>6, <1>7
  <2>3. QED BY <1>2, <1>7, <1>9, <2>1, <2>2 DEF Held
<1>11. QED BY <1>7, <1>10 DEF t

\* What the first call that generates answers.
LEMMA FromInitAnswers ==
    ASSUME picker \in Pickers, NEW came, came \subseteq {picker.tt}, NEW score \in Scores
    PROVE  Answers(picker, came, FromInit(picker, score))
<1> DEFINE s == picker
           stage == IF s.kind = "Main" THEN "GoodCapture" ELSE s.kind
           t == ListInit(s, score, stage)
<1>1. stage \in Stages /\ s.kind \in {"Main", "QSearch", "Evasion", "ProbCut"}
  BY DEF Pickers, Kinds, Stages
<1>2. /\ Held(t) /\ SameRun(s, t) /\ t.stage = stage /\ t.cur = 1 /\ t.endBad = 1
      /\ t.endCur = t.endCaptures /\ t.endGenerated = t.endCaptures
  <2> HIDE DEF stage
  <2>1. QED BY <1>1, ListInitHeld
<1> HIDE DEF t
<1>3. t.endCur \in Nat \ {0} /\ 1 <= t.endCur
  BY <1>2 DEF Held, Pickers
<1>4. \A J : Fresh(t, came, J)
  BY <1>2 DEF Fresh, SameRun
<1>5. Spent(t, came, 1..0)
  <2>1. 1..0 = {}
    OBVIOUS
  <2>2. QED BY <2>1 DEF Spent
<1>6. CASE s.kind = "Main"
  <2>1. AtGoodCapture(t, came)
    BY <1>2, <1>3, <1>4, <1>5, <1>6 DEF AtGoodCapture, SameRun
  <2>2. Answers(t, came, GoodCapture(t, score))
    BY <1>2, <2>1, GoodCaptureAnswers
  <2>3. FromInit(s, score) = GoodCapture(t, score)
    BY <1>6 DEF FromInit, t
  <2>4. QED BY <1>2, <2>2, <2>3, AnswersCarry
<1>7. CASE s.kind # "Main"
  <2>1. AtList(t, came)
    BY <1>2, <1>3, <1>4, <1>5, <1>7 DEF AtList, SameRun
  <2>2. CASE s.kind \in {"QSearch", "Evasion"}
    <3>1. Answers(t, came, AnyMove(t))
      <4>1. ASSUME NEW j \in Ahead(t) PROVE Wants(t, t.buf[j].mv)
        <5>1. j \in 1..(t.endGenerated - 1) /\ j \in CaptureIndexes(t)
          BY <1>2, <1>3 DEF Ahead, CaptureIndexes
        <5>2. QED BY <1>2, <2>2, <5>1, EntryTyped DEF Wants, SameRun
      <4>2. Answers(t, came, Select(t, Ahead(t)))
        BY <1>2, <2>1, <4>1, ListAnswers
      <4>3. QED BY <4>2 DEF AnyMove
    <3>2. FromInit(s, score) = AnyMove(t)
      BY <2>2 DEF FromInit, t
    <3>3. QED BY <1>2, <3>1, <3>2, AnswersCarry
  <2>3. CASE s.kind = "ProbCut"
    <3>1. Answers(t, came, ProbCutMove(t))
      <4> DEFINE hits == {i \in Ahead(t) : See(t.buf[i].mv, t.threshold)}
      <4>1. ASSUME NEW j \in Ahead(t) PROVE j \in hits <=> Wants(t, t.buf[j].mv)
        <5>1. j \in 1..(t.endGenerated - 1) /\ j \in CaptureIndexes(t)
          BY <1>2, <1>3 DEF Ahead, CaptureIndexes
        <5>2. QED BY <1>2, <2>3, <5>1, EntryTyped DEF Wants, SameRun
      <4>2. hits \subseteq Ahead(t)
        OBVIOUS
      <4> HIDE DEF hits
      <4>3. Answers(t, came, Select(t, hits))
        BY <1>2, <2>1, <4>1, <4>2, ListAnswers
      <4>4. QED BY <4>3 DEF ProbCutMove, hits
    <3>2. FromInit(s, score) = ProbCutMove(t)
      BY <2>3 DEF FromInit, t
    <3>3. QED BY <1>2, <3>1, <3>2, AnswersCarry
  <2>4. QED BY <1>1, <1>7, <2>2, <2>3
<1>8. QED BY <1>6, <1>7

\* Before the first list is made.
AtStart(s) ==
    \/ s.stage = "Tt" /\ out = <<>>
    \/ s.stage = "Init" /\ s.tt # None /\ out = <<s.tt>>

\* What came out: legal moves of the kind, the table's first, no quiet once they
\* are skipped.
CameRight ==
    /\ out \in Seq(Moves \cup {None}) /\ IsInjective(out)
    /\ \A m \in Came : m = picker.tt \/ (Wants(picker, m) /\ m \in Listed(picker))
    /\ out # <<>> /\ picker.tt # None => out[1] = picker.tt
    /\ picker.skipQuiets => skips \in Nat /\ skips <= Len(out)
    /\ ~picker.skipQuiets => skips = -1
    /\ picker.kind = "Main" /\ picker.skipQuiets =>
         \A i \in DOMAIN out : i > skips /\ out[i] \in ToSet(Quiets) => out[i] = picker.tt
\* What holds of the picker between two calls.
PickInv ==
    /\ position.legal \subseteq Moves /\ picker \in Pickers
    /\ picker.tt # None => /\ picker.tt \in position.legal
                           /\ picker.kind = "ProbCut" => picker.tt \in ToSet(Captures)
    /\ CameRight
    /\ Exhausted => Given(picker, Came)
    /\ ~Exhausted => \/ AtStart(picker)
                     \/ out # <<>> /\ Held(picker) /\ Standing(picker, Came)

\* What a call answers that does not give the table's move.
LEMMA NextMoveAnswers ==
    ASSUME PickInv, ~Exhausted, NEW score \in ScoresNow,
           ~(picker.stage = "Tt" /\ picker.tt # None)
    PROVE  Answers(picker, Came, NextMove(picker, score))
<1> DEFINE s == picker
<1>1. s \in Pickers
  BY DEF PickInv
<1>2. s.stage \in {"Tt", "Init", "GoodCapture"} => score \in Scores
  BY DEF ScoresNow
<1>3. CASE AtStart(s)
  <2>1. Came \subseteq {s.tt}
    BY <1>3 DEF AtStart, Came, ToSet
  <2>2. NextMove(s, score) = FromInit(s, score) /\ score \in Scores
    BY <1>2, <1>3 DEF AtStart, NextMove
  <2>3. QED BY <1>1, <2>1, <2>2, FromInitAnswers
<1>4. CASE Held(s) /\ Standing(s, Came)
  <2>1. CASE AtGoodCapture(s, Came)
    <3>1. NextMove(s, score) = GoodCapture(s, score) /\ score \in Scores
      BY <1>2, <2>1 DEF AtGoodCapture, NextMove
    <3>2. QED BY <1>4, <2>1, <3>1, GoodCaptureAnswers
  <2>2. CASE AtGoodQuiet(s, Came)
    <3>1. NextMove(s, score) = GoodQuiet(s)
      BY <2>2 DEF AtGoodQuiet, NextMove
    <3>2. QED BY <1>4, <2>2, <3>1, GoodQuietAnswers
  <2>3. CASE AtBadCapture(s, Came)
    <3>1. NextMove(s, score) = BadCapture(s)
      BY <2>3 DEF AtBadCapture, NextMove
    <3>2. QED BY <1>4, <2>3, <3>1, BadCaptureAnswers
  <2>4. CASE AtBadQuiet(s, Came)
    <3>1. NextMove(s, score) = BadQuiet(s)
      BY <2>4 DEF AtBadQuiet, NextMove
    <3>2. QED BY <1>4, <2>4, <3>1, BadQuietAnswers
  <2>5. CASE AtList(s, Came)
    <3> DEFINE hits == IF s.kind = "ProbCut" THEN {i \in Ahead(s) : See(s.buf[i].mv, s.threshold)}
                       ELSE Ahead(s)
    <3>1. s.kind \in {"QSearch", "Evasion", "ProbCut"} /\ s.stage = s.kind
      BY <1>1, <2>5 DEF Pickers, Kinds, AtList
    <3>2. NextMove(s, score) = Select(s, hits)
      BY <3>1 DEF NextMove, AnyMove, ProbCutMove
    <3>3. ASSUME NEW j \in Ahead(s) PROVE j \in hits <=> Wants(s, s.buf[j].mv)
      <4>1. j \in 1..(s.endGenerated - 1) /\ j \in CaptureIndexes(s)
        BY <1>1, <2>5 DEF Ahead, CaptureIndexes, Pickers, AtList
      <4>2. QED BY <1>4, <3>1, <4>1, EntryTyped DEF Wants
    <3>4. hits \subseteq Ahead(s)
      OBVIOUS
    <3> HIDE DEF hits
    <3>5. QED BY <1>4, <2>5, <3>2, <3>3, <3>4, ListAnswers
  <2>6. QED BY <1>4, <2>1, <2>2, <2>3, <2>4, <2>5 DEF Standing
<1>5. QED BY <1>3, <1>4 DEF PickInv

\* Skipping the quiets takes nothing from what is held.
LEMMA SkipKeeps ==
    ASSUME NEW s \in Pickers, NEW came, NEW m
    PROVE  LET t == [s EXCEPT !.skipQuiets = TRUE]
           IN  /\ t \in Pickers /\ t.skipQuiets /\ t.kind = s.kind /\ t.tt = s.tt
               /\ t.stage = s.stage
               /\ Wants(t, m) <=> Wants(s, m)
               /\ (Held(s) /\ Standing(s, came)) => (Held(t) /\ Standing(t, came))
<1> DEFINE t == [s EXCEPT !.skipQuiets = TRUE]
<1>1. /\ t \in Pickers /\ t.skipQuiets = TRUE /\ t.kind = s.kind /\ t.tt = s.tt
      /\ t.stage = s.stage /\ t.threshold = s.threshold /\ t.buf = s.buf /\ t.cur = s.cur
      /\ t.endCur = s.endCur /\ t.endBad = s.endBad /\ t.endCaptures = s.endCaptures
      /\ t.endGenerated = s.endGenerated
  BY DEF Pickers
<1> HIDE DEF t
<1>2. \A x : Wants(t, x) <=> Wants(s, x)
  BY <1>1 DEF Wants
<1>3. \A J : /\ Fresh(s, came, J) => Fresh(t, came, J)
             /\ Spent(s, came, J) => Spent(t, came, J)
  BY <1>1, <1>2 DEF Fresh, Spent
<1>4. CaptureIndexes(t) = CaptureIndexes(s) /\ QuietIndexes(t) = QuietIndexes(s)
      /\ (\A i : Good(t, i) <=> Good(s, i)) /\ QuietsThere(t)
  BY <1>1 DEF CaptureIndexes, QuietIndexes, Good, QuietsThere
<1>5. ASSUME Held(s), Standing(s, came) PROVE Held(t) /\ Standing(t, came)
  <2>1. Held(t)
    BY <1>1, <1>5, HeldCarries
  <2>2. AtGoodCapture(s, came) => AtGoodCapture(t, came)
    BY <1>1, <1>3 DEF AtGoodCapture
  <2>3. AtGoodQuiet(s, came) => AtGoodQuiet(t, came)
    BY <1>1, <1>3, <1>4 DEF AtGoodQuiet
  <2>4. AtBadCapture(s, came) => AtBadCapture(t, came)
    BY <1>1, <1>3, <1>4 DEF AtBadCapture
  <2>5. AtBadQuiet(s, came) => AtBadQuiet(t, came)
    BY <1>1, <1>3, <1>4 DEF AtBadQuiet
  <2>6. AtList(s, came) => AtList(t, came)
    BY <1>1, <1>3 DEF AtList
  <2>7. QED BY <1>5, <2>1, <2>2, <2>3, <2>4, <2>5, <2>6 DEF Standing
<1>6. QED BY <1>1, <1>2, <1>5 DEF t

----------------------------------------------------------------------------
(* The steps.                                                              *)

\* The invariant holds at the start.
LEMMA PickInvInit == Init => PickInv
<1> SUFFICES ASSUME Init PROVE PickInv
  OBVIOUS
<1>1. PICK I \in Illegal, v \in [ToSet(Captures) -> SeeValues] :
          position = [legal |-> Moves \ I, see |-> v]
  BY DEF Init
<1>2. PICK kind \in Kinds, tt \in TTMoves \cup {None}, threshold \in SeeValues,
           depth \in Depths \cup {0} :
          picker = NewPicker(kind, FilterTT(kind, tt, position.legal), depth,
                             IF kind = "ProbCut" THEN threshold ELSE 0)
  BY SMTT(60) DEF Init
<1> DEFINE f == FilterTT(kind, tt, position.legal)
<1>3. position.legal \subseteq Moves
  BY <1>1
<1>4. /\ f \in Moves \cup {None}
      /\ f # None => f \in position.legal /\ (kind = "ProbCut" => f \in ToSet(Captures))
  BY <1>3 DEF FilterTT
<1> HIDE DEF f
<1>5. /\ picker \in Pickers /\ picker.tt = f /\ picker.kind = kind /\ ~picker.skipQuiets
      /\ picker.stage = "Tt"
  <2>1. <<>> \in Seq(Entries) /\ 1 \in Nat \ {0} /\ depth \in Depths \cup {0}
    OBVIOUS
  <2>2. QED BY <1>2, <1>4, <2>1 DEF NewPicker, Pickers, Stages, f
<1>6. out = <<>> /\ skips = -1
  BY DEF Init
<1>7. ToSet(out) = {} /\ IsInjective(out) /\ out \in Seq(Moves \cup {None})
  BY <1>6 DEF ToSet, IsInjective
<1>8. CameRight
  BY <1>5, <1>6, <1>7 DEF CameRight, Came
<1>9. ~Exhausted /\ AtStart(picker)
  BY <1>5, <1>6, <1>7 DEF Exhausted, AtStart
<1>10. picker.tt # None => /\ picker.tt \in position.legal
                           /\ picker.kind = "ProbCut" => picker.tt \in ToSet(Captures)
  BY <1>4, <1>5
<1>11. QED BY <1>3, <1>5, <1>8, <1>9, <1>10 DEF PickInv

\* What is held and where the picker stands, in the state after a step that
\* makes this picker and leaves the position.
LEMMA StandsOn ==
    ASSUME NEW t, NEW came, position' = position, picker' = t, Came' = came,
           Held(t), Standing(t, came)
    PROVE  Held(picker)' /\ Standing(picker, Came)'
<1>1. Held(picker)'
  BY DEF Held, MovesAt, CaptureIndexes, QuietIndexes, IsLegal
<1>2. CASE AtGoodCapture(t, came)
  <2>1. AtGoodCapture(picker, Came)'
    BY <1>2 DEF AtGoodCapture, Fresh, Spent, Wants, See
  <2>2. QED BY <1>1, <2>1 DEF Standing
<1>3. CASE AtGoodQuiet(t, came)
  <2>1. AtGoodQuiet(picker, Came)'
    BY <1>3 DEF AtGoodQuiet, QuietsThere, MovesAt, QuietIndexes, Good, Fresh, Spent, Wants, See
  <2>2. QED BY <1>1, <2>1 DEF Standing
<1>4. CASE AtBadCapture(t, came)
  <2>1. AtBadCapture(picker, Came)'
    BY <1>4 DEF AtBadCapture, QuietsThere, MovesAt, QuietIndexes, CaptureIndexes, Good,
       Fresh, Spent, Wants, See
  <2>2. QED BY <1>1, <2>1 DEF Standing
<1>5. CASE AtBadQuiet(t, came)
  <2>1. AtBadQuiet(picker, Came)'
    BY <1>5 DEF AtBadQuiet, QuietsThere, MovesAt, QuietIndexes, CaptureIndexes, Good,
       Fresh, Spent, Wants, See
  <2>2. QED BY <1>1, <2>1 DEF Standing
<1>6. CASE AtList(t, came)
  <2>1. AtList(picker, Came)'
    BY <1>6 DEF AtList, Fresh, Spent, Wants, See
  <2>2. QED BY <1>1, <2>1 DEF Standing
<1>7. QED BY <1>2, <1>3, <1>4, <1>5, <1>6 DEF Standing

\* What came out, with a move that had not come out appended.
LEMMA CameMore ==
    ASSUME NEW seq \in Seq(Moves \cup {None}), IsInjective(seq), NEW m \in Moves \cup {None},
           m \notin ToSet(seq)
    PROVE  LET more == Append(seq, m)
           IN  /\ more \in Seq(Moves \cup {None}) /\ IsInjective(more)
               /\ ToSet(more) = ToSet(seq) \cup {m} /\ more # <<>>
               /\ Len(more) = Len(seq) + 1 /\ DOMAIN more = 1..(Len(seq) + 1)
               /\ more[Len(seq) + 1] = m /\ \A i \in 1..Len(seq) : more[i] = seq[i]
<1> DEFINE more == Append(seq, m)
           n == Len(seq)
<1>1. /\ more \in Seq(Moves \cup {None}) /\ Len(more) = n + 1 /\ n \in Nat /\ more # <<>>
      /\ DOMAIN more = 1..(n + 1) /\ more[n + 1] = m /\ \A i \in 1..n : more[i] = seq[i]
      /\ DOMAIN seq = 1..n
  OBVIOUS
<1>2. \A i \in 1..(n + 1) : i \in 1..n \/ i = n + 1
  BY <1>1
<1>3. n + 1 \in 1..(n + 1) /\ \A i \in 1..n : i \in 1..(n + 1)
  BY <1>1
<1> HIDE DEF more, n
<1>4. ToSet(more) = ToSet(seq) \cup {m}
  BY <1>1, <1>2, <1>3 DEF ToSet
<1>5. \A i \in 1..n : seq[i] \in ToSet(seq)
  BY <1>1 DEF ToSet
<1>6. IsInjective(more)
  BY <1>1, <1>2, <1>5 DEF IsInjective
<1>7. QED BY <1>1, <1>4, <1>6 DEF more, n

\* A call keeps it.
LEMMA CallKeeps ==
    ASSUME PickInv, NEW score \in ScoresNow, Call(score)
    PROVE  PickInv'
<1> DEFINE s == picker
           r == NextMove(s, score)
           mv == r.mv
           given == s.stage = "Tt" /\ s.tt # None
<1>1. /\ ~Exhausted /\ picker' = r.s /\ out' = Append(out, mv) /\ position' = position
      /\ skips' = skips
  BY DEF Call, Exhausted
<1>2. /\ s \in Pickers /\ position.legal \subseteq Moves /\ CameRight
      /\ s.tt # None => s.tt \in position.legal /\ (s.kind = "ProbCut" => s.tt \in ToSet(Captures))
      /\ \/ AtStart(s)
         \/ out # <<>> /\ Held(s) /\ Standing(s, Came)
  BY <1>1 DEF PickInv
<1>3. given => /\ r = [s |-> [s EXCEPT !.stage = "Init"], mv |-> s.tt] /\ out = <<>>
  <2> SUFFICES ASSUME given PROVE r = [s |-> [s EXCEPT !.stage = "Init"], mv |-> s.tt] /\ out = <<>>
    OBVIOUS
  <2>1. r = [s |-> [s EXCEPT !.stage = "Init"], mv |-> s.tt]
    BY DEF NextMove, Yield
  <2>2. out = <<>>
    BY <1>2 DEF AtStart, Standing, AtGoodCapture, AtGoodQuiet, AtBadCapture, AtBadQuiet, AtList, Pickers, Kinds
  <2>3. QED BY <2>1, <2>2
<1>4. ~given => Answers(s, Came, r)
  BY <1>1, NextMoveAnswers
<1> HIDE DEF r, mv
<1>5. r.s \in Pickers /\ SameRun(s, r.s)
  <2>1. CASE given
    BY <1>2, <1>3, <2>1 DEF Pickers, SameRun, Stages
  <2>2. CASE ~given
    BY <1>4, <2>2 DEF Answers
  <2>3. QED BY <2>1, <2>2
<1>6. mv \in Moves \cup {None} /\ mv \notin ToSet(out)
  <2>1. CASE given
    BY <1>2, <1>3, <2>1 DEF mv, ToSet
  <2>2. CASE ~given
    <3>1. mv # None => mv \in position.legal /\ mv \notin Came
      BY <1>4, <2>2 DEF Answers, Wants, mv
    <3>2. QED BY <1>1, <1>2, <3>1 DEF Came, Exhausted
  <2>3. QED BY <2>1, <2>2
<1> DEFINE n == Len(out)
<1>7. /\ out \in Seq(Moves \cup {None}) /\ IsInjective(out) /\ n \in Nat /\ DOMAIN out = 1..n
  BY <1>2 DEF CameRight
<1>8. /\ out' \in Seq(Moves \cup {None}) /\ IsInjective(out') /\ ToSet(out') = ToSet(out) \cup {mv}
      /\ out' # <<>> /\ Len(out') = n + 1 /\ DOMAIN out' = 1..(n + 1) /\ out'[n + 1] = mv
      /\ \A i \in 1..n : out'[i] = out[i]
  BY <1>1, <1>6, <1>7, CameMore
<1> HIDE DEF n
<1>9. Came' = (ToSet(out) \cup {mv}) \ {None}
  BY <1>8 DEF Came
<1>10. \A m : Wants(picker, m)' <=> Wants(s, m)
  BY <1>1, <1>5 DEF Wants, SameRun, See
<1>11. Listed(picker)' = Listed(s)
  BY <1>1, <1>5 DEF Listed, SameRun
<1>12. picker'.tt = s.tt /\ picker'.kind = s.kind /\ picker'.skipQuiets = s.skipQuiets
  BY <1>1, <1>5 DEF SameRun
<1>13. CameRight'
  <2>1. ASSUME NEW m \in Came' PROVE m = s.tt \/ (Wants(s, m) /\ m \in Listed(s))
    <3>1. CASE m \in Came
      BY <1>2, <3>1 DEF CameRight
    <3>2. CASE m \notin Came
      <4>1. m = mv /\ mv # None
        BY <1>9, <2>1, <3>2 DEF Came
      <4>2. QED BY <1>3, <1>4, <4>1 DEF Answers, mv
    <3>3. QED BY <3>1, <3>2
  <2>2. s.tt # None => out'[1] = s.tt
    <3>1. CASE out = <<>>
      <4>1. n = 0
        BY <3>1 DEF n
      <4>2. s.tt # None => given
        BY <1>2, <3>1 DEF AtStart
      <4>3. given => out'[1] = s.tt
        BY <1>3, <1>8, <4>1 DEF mv
      <4>4. QED BY <4>2, <4>3
    <3>2. CASE out # <<>>
      <4>1. 1 \in 1..n
        BY <1>7, <3>2 DEF n
      <4>2. out'[1] = out[1]
        BY <1>8, <4>1
      <4>3. QED BY <1>2, <3>2, <4>2 DEF CameRight
    <3>3. QED BY <3>1, <3>2
  <2>3. s.skipQuiets => skips \in Nat /\ skips <= Len(out')
    BY <1>2, <1>7, <1>8 DEF CameRight, n
  <2>4. ASSUME s.kind = "Main", s.skipQuiets, NEW i \in DOMAIN out', i > skips, out'[i] \in ToSet(Quiets)
        PROVE  out'[i] = s.tt
    <3>1. CASE i \in 1..n
      BY <1>2, <1>7, <1>8, <2>4, <3>1 DEF CameRight
    <3>2. CASE i = n + 1
      <4>1. mv \in ToSet(Quiets) /\ mv # None
        BY <1>8, <2>4, <3>2, GeneratorsAssumption DEF Moves
      <4>2. CASE given
        BY <1>3, <1>8, <3>2, <4>2 DEF mv
      <4>3. CASE ~given
        BY <1>4, <2>4, <4>1, <4>3 DEF Answers, mv
      <4>4. QED BY <4>2, <4>3
    <3>3. QED BY <1>7, <1>8, <2>4, <3>1, <3>2
  <2>5. ~s.skipQuiets => skips = -1
    BY <1>2 DEF CameRight
  <2> HIDE DEF given
  <2>6. \A m \in Came' : m = picker'.tt \/ (Wants(picker, m)' /\ m \in Listed(picker)')
    BY <1>10, <1>11, <1>12, <2>1
  <2>7. QED BY <1>1, <1>8, <1>12, <2>2, <2>3, <2>4, <2>5, <2>6 DEF CameRight
<1>14. Exhausted' => Given(picker, Came)'
  <2> SUFFICES ASSUME Exhausted' PROVE Given(picker, Came)'
    OBVIOUS
  <2>1. mv = None
    BY <1>1, <1>8 DEF Exhausted
  <2>2. ~given
    BY <1>3, <2>1 DEF mv
  <2>3. Given(s, Came) /\ Came' = Came
    BY <1>4, <1>9, <2>1, <2>2 DEF Answers, mv, Came
  <2>4. QED BY <1>10, <1>12, <2>3 DEF Given, ListOf
<1>15. ~Exhausted' => AtStart(picker)' \/ (out' # <<>> /\ Held(picker)' /\ Standing(picker, Came)')
  <2> SUFFICES ASSUME ~Exhausted' PROVE AtStart(picker)' \/ (out' # <<>> /\ Held(picker)' /\ Standing(picker, Came)')
    OBVIOUS
  <2>1. mv # None
    BY <1>8 DEF Exhausted
  <2>2. CASE given
    <3>1. out' = <<s.tt>> /\ picker'.stage = "Init"
      BY <1>1, <1>2, <1>3, <2>2 DEF mv, Pickers
    <3>2. QED BY <1>12, <2>2, <3>1 DEF AtStart
  <2>3. CASE ~given
    <3> DEFINE t == r.s
               came == Came \cup {mv}
    <3>1. Held(t) /\ Standing(t, came)
      BY <1>4, <2>1, <2>3 DEF Answers, mv
    <3>2. Came' = came /\ picker' = t
      BY <1>1, <1>9, <2>1 DEF Came
    <3> HIDE DEF t, came
    <3>3. Held(picker)' /\ Standing(picker, Came)'
      BY <1>1, <3>1, <3>2, StandsOn
    <3>4. QED BY <1>8, <3>3
  <2>4. QED BY <2>2, <2>3
<1>16. QED BY <1>1, <1>2, <1>5, <1>12, <1>13, <1>14, <1>15 DEF PickInv

\* Skipping the quiets keeps it.
LEMMA SkipQuietsKeeps ==
    ASSUME PickInv, SkipQuietMoves
    PROVE  PickInv'
<1> DEFINE s == picker
           t == [s EXCEPT !.skipQuiets = TRUE]
<1>1. /\ ~Exhausted /\ picker' = t /\ out' = out /\ position' = position /\ skips' = Len(out)
  BY DEF SkipQuietMoves, Exhausted
<1>2. /\ s \in Pickers /\ position.legal \subseteq Moves /\ CameRight
      /\ s.tt # None => s.tt \in position.legal /\ (s.kind = "ProbCut" => s.tt \in ToSet(Captures))
      /\ \/ AtStart(s)
         \/ out # <<>> /\ Held(s) /\ Standing(s, Came)
  BY <1>1 DEF PickInv
<1>3. /\ t \in Pickers /\ t.skipQuiets /\ t.kind = s.kind /\ t.tt = s.tt /\ t.stage = s.stage
      /\ \A m : Wants(t, m) <=> Wants(s, m)
      /\ (Held(s) /\ Standing(s, Came)) => (Held(t) /\ Standing(t, Came))
  BY <1>2, SkipKeeps
<1> HIDE DEF t
<1>4. Came' = Came /\ ~Exhausted'
  BY <1>1 DEF Came, Exhausted
<1>5. out \in Seq(Moves \cup {None}) /\ Len(out) \in Nat /\ DOMAIN out = 1..Len(out)
  BY <1>2 DEF CameRight
<1>6. \A m : Wants(picker, m)' <=> Wants(t, m)
  BY <1>1 DEF Wants, See
<1>7. Listed(picker)' = Listed(s)
  BY <1>1, <1>3 DEF Listed
<1>8. CameRight'
  <2>1. \A m \in Came' : m = picker'.tt \/ (Wants(picker, m)' /\ m \in Listed(picker)')
    BY <1>1, <1>2, <1>3, <1>4, <1>6, <1>7 DEF CameRight
  <2>2. \A i \in DOMAIN out' : ~(i > skips')
    BY <1>1, <1>5
  <2>3. picker'.skipQuiets /\ skips' \in Nat /\ skips' <= Len(out')
    BY <1>1, <1>3, <1>5
  <2>4. out' # <<>> /\ picker'.tt # None => out'[1] = picker'.tt
    BY <1>1, <1>2, <1>3 DEF CameRight
  <2>5. out' \in Seq(Moves \cup {None}) /\ IsInjective(out')
    BY <1>1, <1>2 DEF CameRight
  <2>6. QED BY <2>1, <2>2, <2>3, <2>4, <2>5 DEF CameRight
<1>9. AtStart(picker)' \/ (out' # <<>> /\ Held(picker)' /\ Standing(picker, Came)')
  <2>1. CASE AtStart(s)
    BY <1>1, <1>3, <2>1 DEF AtStart
  <2>2. CASE out # <<>> /\ Held(s) /\ Standing(s, Came)
    <3> DEFINE came == Came
    <3>1. Held(t) /\ Standing(t, came) /\ Came' = came
      BY <1>3, <1>4, <2>2
    <3> HIDE DEF came
    <3>2. QED BY <1>1, <2>2, <3>1, StandsOn
  <2>3. QED BY <1>2, <2>1, <2>2
<1>10. QED BY <1>1, <1>2, <1>3, <1>4, <1>8, <1>9 DEF PickInv

\* The invariant is kept by every step.
LEMMA PickInvNext == PickInv /\ [Next]_vars => PickInv'
<1> SUFFICES ASSUME PickInv, [Next]_vars PROVE PickInv'
  OBVIOUS
<1>1. CASE \E score \in ScoresNow : Call(score)
  BY <1>1, CallKeeps
<1>2. CASE SkipQuietMoves
  BY <1>2, SkipQuietsKeeps
<1>3. CASE UNCHANGED vars
  <2>1. picker' = picker /\ position' = position /\ out' = out /\ skips' = skips
    BY <1>3 DEF vars
  <2>2. Came' = Came /\ (Exhausted' <=> Exhausted)
    BY <2>1 DEF Came, Exhausted
  <2>3. \A m : Wants(picker, m)' <=> Wants(picker, m)
    BY <2>1 DEF Wants, See
  <2>4. Given(picker, Came)' <=> Given(picker, Came)
    BY <2>1, <2>2, <2>3 DEF Given, ListOf
  <2>5. Listed(picker)' = Listed(picker)
    BY <2>1 DEF Listed
  <2>6. CameRight'
    BY <2>1, <2>2, <2>3, <2>5 DEF PickInv, CameRight
  <2>7. AtStart(picker)' <=> AtStart(picker)
    BY <2>1 DEF AtStart
  <2>8. Held(picker) /\ Standing(picker, Came) => Held(picker)' /\ Standing(picker, Came)'
    <3> DEFINE t == picker
               came == Came
    <3>1. picker' = t /\ Came' = came
      BY <2>1, <2>2
    <3> HIDE DEF t, came
    <3>2. Held(t) /\ Standing(t, came) => Held(picker)' /\ Standing(picker, Came)'
      BY <2>1, <3>1, StandsOn
    <3>3. QED BY <3>2 DEF t, came
  <2>9. QED BY <2>1, <2>2, <2>4, <2>6, <2>7, <2>8 DEF PickInv
<1>4. QED BY <1>1, <1>2, <1>3 DEF Next

\* The invariant is what is asked for.
LEMMA PickInvEnough == PickInv => YieldsEach
<1> SUFFICES ASSUME PickInv PROVE YieldsEach
  OBVIOUS
<1> DEFINE s == picker
           n == Len(out)
<1>1. /\ s \in Pickers /\ position.legal \subseteq Moves
      /\ s.tt # None => s.tt \in position.legal /\ (s.kind = "ProbCut" => s.tt \in ToSet(Captures))
      /\ out \in Seq(Moves \cup {None}) /\ IsInjective(out)
      /\ \A m \in Came : m = s.tt \/ (Wants(s, m) /\ m \in Listed(s))
      /\ out # <<>> /\ s.tt # None => out[1] = s.tt
      /\ s.skipQuiets => skips \in Nat
      /\ ~s.skipQuiets => skips = -1
      /\ s.kind = "Main" /\ s.skipQuiets =>
           \A i \in DOMAIN out : i > skips /\ out[i] \in ToSet(Quiets) => out[i] = s.tt
      /\ Exhausted => Given(s, Came)
  BY DEF PickInv, CameRight
<1>2. Came \subseteq position.legal /\ None \notin Came
  BY <1>1 DEF Came, Wants
<1>3. s.kind = "ProbCut" => Came \subseteq ToSet(Captures)
  BY <1>1, <1>2 DEF Listed, ListOf
<1>4. \A m : m \in Wanted <=> /\ m \in position.legal
                              /\ s.kind # "Main" => m \in ToSet(ListOf(s.kind))
                              /\ s.kind = "ProbCut" => See(m, s.threshold)
  BY <1>1 DEF Wanted, Pickers, Kinds
<1>5. Came \subseteq Wanted \cup {s.tt}
  <2> SUFFICES ASSUME NEW m \in Came, m # s.tt PROVE m \in Wanted
    OBVIOUS
  <2>1. Wants(s, m) /\ m \in Listed(s)
    BY <1>1
  <2>2. QED BY <1>4, <2>1 DEF Wants, Listed
<1>6. ASSUME Exhausted
      PROVE  LET late == {out[i] : i \in {j \in DOMAIN out : j > skips}}
                 unseen == (Wanted \cup {s.tt}) \ (Came \cup {None})
             IN  IF skips = -1 \/ s.kind # "Main" THEN unseen = {}
                 ELSE /\ late \cap ToSet(Quiets) \subseteq {s.tt}
                      /\ unseen \subseteq ToSet(Quiets)
  <2> DEFINE late == {out[i] : i \in {j \in DOMAIN out : j > skips}}
             unseen == (Wanted \cup {s.tt}) \ (Came \cup {None})
  <2>1. s.tt = None \/ s.tt \in Came
    <3>1. out # <<>> /\ 1 \in DOMAIN out
      <4>1. out # <<>>
        BY <1>6 DEF Exhausted, ToSet
      <4>2. QED BY <1>1, <4>1, EmptySeq
    <3>2. QED BY <1>1, <3>1 DEF Came, ToSet
  <2>2. ASSUME NEW m \in unseen PROVE Wants(s, m) /\ m \in Moves /\ m \notin Came
    <3>1. m \in Wanted /\ m # s.tt /\ m \notin Came
      BY <2>1
    <3>2. QED BY <1>1, <1>4, <3>1 DEF Wants
  <2>3. ASSUME NEW m \in unseen, skips = -1 \/ s.kind # "Main" PROVE FALSE
    <3>1. s.kind = "Main" => ~s.skipQuiets /\ m \in ToSet(Captures) \cup ToSet(Quiets)
      BY <1>1, <2>2, <2>3 DEF Moves
    <3>2. s.kind # "Main" => m \in ToSet(ListOf(s.kind))
      BY <1>4, <2>1
    <3>3. s.kind = "Main" => ToSet(ListOf(s.kind)) = ToSet(Captures)
      BY DEF ListOf
    <3>4. Wants(s, m) /\ m \notin Came
      BY <2>2
    <3> HIDE DEF unseen
    <3>5. QED BY <1>1, <1>6, <3>1, <3>2, <3>3, <3>4 DEF Given
  <2>4. ASSUME skips # -1, s.kind = "Main"
        PROVE  late \cap ToSet(Quiets) \subseteq {s.tt} /\ unseen \subseteq ToSet(Quiets)
    <3>1. s.skipQuiets
      BY <1>1, <2>4
    <3>2. late \cap ToSet(Quiets) \subseteq {s.tt}
      BY <1>1, <2>4, <3>1
    <3>3. unseen \subseteq ToSet(Quiets)
      <4> SUFFICES ASSUME NEW m \in unseen, m \notin ToSet(Quiets) PROVE FALSE
        OBVIOUS
      <4>1. Wants(s, m) /\ m \in ToSet(Captures) /\ m \notin Came
        BY <2>2 DEF Moves
      <4>2. ToSet(ListOf(s.kind)) = ToSet(Captures)
        BY <2>4 DEF ListOf
      <4> HIDE DEF unseen
      <4>3. QED BY <1>1, <1>6, <4>1, <4>2 DEF Given
    <3>4. QED BY <3>2, <3>3
  <2> HIDE DEF late
  <2>5. QED BY <2>3, <2>4 DEF late
<1>7. QED BY <1>1, <1>2, <1>3, <1>5, <1>6 DEF YieldsEach

\* The picker gives every legal move of its kind, once, the table's first, and no
\* other; skipping the quiets loses quiets only.  Whatever the generators list,
\* the histories score and the exchanges are worth, at any stage (movepick.rs).
THEOREM YieldsEachAlways == Spec => []YieldsEach
<1>1. PickInv /\ [Next]_vars => PickInv'
  BY PickInvNext
<1>2. QED BY <1>1, PickInvInit, PickInvEnough, PTL DEF Spec

----------------------------------------------------------------------------
(* Repetition. A timeline t of states, and what was played, ln.            *)

Sides == {"Black", "White"}
States ==
    [key : [place : [Sides -> Places], stm : Sides], hands : Hands, stm : Sides,
     givesCheck : BOOLEAN, pliesFromNull : Nat, continuousCheck : [Sides -> Nat],
     repetition : [distance : Int, times : Nat,
                   type : {"None", "Lose", "Win", "Draw", "Superior", "Inferior"}]]
Played == [null : BOOLEAN, by : Sides, check : BOOLEAN]

\* Who moves at the k-th state.
Side(k) == IF k % 2 = 1 THEN "Black" ELSE "White"

\* What was played since a state, up to another.
NoNull(ln, i, k) == \A n \in i..(k - 1) : ~ln[n].null
ChecksOf(ln, c, i, k) == \A n \in 1..(k - 1) : n >= i /\ ln[n].by = c => ln[n].check
SameAt(t, i, k) == t[i].key = t[k].key /\ t[i].hands = t[k].hands
Occurrences(t, i, k) == {n \in i..(k - 1) : SameAt(t, n, k)}

\* Sides take turns, and a move takes its side's piece elsewhere.
TurnInv(t, ln, k) ==
    /\ t[k] \in States /\ t[k].stm = Side(k) /\ t[k].key.stm = Side(k)
    /\ k > 1 =>
         /\ ln[k - 1].by = Side(k - 1)
         /\ ~ln[k - 1].null =>
              /\ t[k].key.place[Side(k - 1)] # t[k - 1].key.place[Side(k - 1)]
              /\ t[k].key.place[Side(k)] = t[k - 1].key.place[Side(k)]

\* The counters of a state: the plies since a null move, and twice the checks
\* each side has given in a row.
NullInv(t, ln, k) ==
    /\ t[k].pliesFromNull < k
    /\ \A i \in 0..(k - 1) : i <= t[k].pliesFromNull <=> NoNull(ln, k - i, k)
RunInv(t, ln, k) ==
    \A c \in Sides, i \in 2..k :
        i % 2 = 0 /\ (c = Side(k) => i < k) =>
            (i <= t[k].continuousCheck[c] <=> ChecksOf(ln, c, k - i, k))

\* What is stored with a state is a chain of occurrences.
ChainInv(t, ln, k) ==
    LET r == t[k].repetition IN
    /\ r.times > 0 =>
         \E i \in 1..(k - 1) :
            /\ SameAt(t, i, k) /\ NoNull(ln, i, k)
            /\ Cardinality(Occurrences(t, i, k)) = r.times
            /\ r.type = "Lose" => ChecksOf(ln, Side(k), i, k)
            /\ r.type = "Win" => ChecksOf(ln, Other(Side(k)), i, k)
    /\ r.distance > 0 => r.distance \in 4..(k - 1) /\ t[k - r.distance].key = t[k].key
    /\ r.distance < 0 => r.times >= 3

StateInv(t, ln, k) ==
    TurnInv(t, ln, k) /\ NullInv(t, ln, k) /\ RunInv(t, ln, k) /\ ChainInv(t, ln, k)
LineInv ==
    /\ hist \in Seq(States) /\ root \in States /\ line \in Seq(Played)
    /\ Len(line) = Len(hist)
    /\ \A k \in 1..(Len(hist) + 1) : StateInv(Timeline, line, k)

\* The k-th state of a timeline.
LEMMA TimelineAt ==
    ASSUME NEW h \in Seq(States), NEW r \in States
    PROVE  /\ <<r>> \o h \in Seq(States) /\ Len(<<r>> \o h) = Len(h) + 1
           /\ \A k \in 1..(Len(h) + 1) : (<<r>> \o h)[k] = IF k = 1 THEN r ELSE h[k - 1]
OBVIOUS

\* What holds of a state depends on nothing that is played after it.
LEMMA StateCarries ==
    ASSUME NEW t, NEW ln, NEW u, NEW lm, NEW k \in Nat \ {0}, StateInv(t, ln, k),
           \A i \in 1..k : u[i] = t[i], \A n \in 1..(k - 1) : lm[n] = ln[n]
    PROVE  StateInv(u, lm, k)
<1>1. u[k] = t[k] /\ (k > 1 => k - 1 \in 1..k /\ k - 1 \in 1..(k - 1))
  OBVIOUS
<1>2. TurnInv(u, lm, k)
  BY <1>1 DEF StateInv, TurnInv
<1>3. \A i \in Int : i >= 1 => (NoNull(lm, i, k) <=> NoNull(ln, i, k))
  BY DEF NoNull
<1>4. \A c, i : ChecksOf(lm, c, i, k) <=> ChecksOf(ln, c, i, k)
  BY DEF ChecksOf
<1>5. NullInv(u, lm, k)
  <2>1. \A i \in 0..(k - 1) : k - i \in Int /\ k - i >= 1
    OBVIOUS
  <2>2. QED BY <1>1, <1>3, <2>1 DEF StateInv, NullInv
<1>6. RunInv(u, lm, k)
  BY <1>1, <1>4 DEF StateInv, RunInv
<1>7. \A i \in 1..k : (SameAt(u, i, k) <=> SameAt(t, i, k))
  BY <1>1 DEF SameAt
<1>8. \A i \in 1..(k - 1) : Occurrences(u, i, k) = Occurrences(t, i, k)
  BY <1>7 DEF Occurrences
<1>9. ChainInv(u, lm, k)
  <2>1. \A i \in 1..(k - 1) : (NoNull(lm, i, k) <=> NoNull(ln, i, k)) /\ i \in 1..k
    BY <1>3
  <2>2. t[k].repetition.distance \in 4..(k - 1) =>
            u[k - t[k].repetition.distance] = t[k - t[k].repetition.distance]
    OBVIOUS
  <2>3. QED BY <1>1, <1>4, <1>7, <1>8, <2>1, <2>2 DEF StateInv, ChainInv
<1>10. QED BY <1>2, <1>5, <1>6, <1>9 DEF StateInv

\* Taking back.
LEMMA UndoKeeps == LineInv /\ Undo => LineInv'
<1> SUFFICES ASSUME LineInv, Undo PROVE LineInv'
  OBVIOUS
<1>1. hist' \in Seq(States) /\ line' \in Seq(Played) /\ root' = root
  BY DEF LineInv, Undo
<1>2. /\ Len(hist') = Len(hist) - 1 /\ Len(line') = Len(hist')
      /\ \A k \in 1..Len(hist') : hist'[k] = hist[k] /\ line'[k] = line[k]
  BY DEF LineInv, Undo
<1>3. \A k \in 1..(Len(hist') + 1) : StateInv(Timeline', line', k)
  <2> SUFFICES ASSUME NEW k \in 1..(Len(hist') + 1) PROVE StateInv(Timeline', line', k)
    OBVIOUS
  <2>1. \A i \in 1..k : Timeline'[i] = Timeline[i]
    <3>1. \A i \in 1..k : i \in 1..(Len(hist) + 1) /\ i \in 1..(Len(hist') + 1)
      BY <1>2
    <3>2. \A i \in 1..k : i # 1 => i - 1 \in 1..Len(hist')
      BY <1>2
    <3>3. QED BY <1>1, <1>2, <3>1, <3>2, TimelineAt DEF LineInv, Timeline
  <2>2. \A n \in 1..(k - 1) : line'[n] = line[n]
    BY <1>2
  <2>3. k \in Nat \ {0} /\ StateInv(Timeline, line, k)
    BY <1>2 DEF LineInv
  <2>4. QED BY <2>1, <2>2, <2>3, StateCarries
<1>4. QED BY <1>1, <1>2, <1>3 DEF LineInv

----------------------------------------------------------------------------
\* One more state: what a move or a null move makes of the counters.
Follows(t, ln, N) ==
    LET old == t[N - 1]
        new == t[N]
        move == ln[N - 1]
    IN  /\ N > 1 /\ new \in States
        /\ move.by = old.stm /\ new.stm = Other(old.stm) /\ new.key.stm = new.stm
        /\ ~move.null => /\ new.key.place[old.stm] # old.key.place[old.stm]
                         /\ new.key.place[new.stm] = old.key.place[new.stm]
        /\ move.null => ~move.check
        /\ new.pliesFromNull = IF move.null THEN 0 ELSE old.pliesFromNull + 1
        /\ new.continuousCheck[new.stm] = old.continuousCheck[new.stm]
        /\ new.continuousCheck[old.stm] = IF move.check THEN old.continuousCheck[old.stm] + 2 ELSE 0

\* The sides take turns, and two states of one side are an even number of plies apart.
LEMMA Turns ==
    /\ \A k \in Nat : Side(k) \in Sides /\ Side(k + 1) = Other(Side(k)) /\ Side(k + 1) # Side(k)
    /\ \A c \in Sides : Other(c) \in Sides /\ Other(c) # c /\ Other(Other(c)) = c
    /\ \A c, d \in Sides : c # d => c = Other(d)
    /\ \A k \in Nat, i \in Nat : i <= k => (Side(k - i) = Side(k) <=> i % 2 = 0)
BY DEF Side, Sides, Other

\* The next state is the other side's to move.
LEMMA TurnStep ==
    ASSUME NEW t, NEW ln, NEW N \in Nat, Follows(t, ln, N), TurnInv(t, ln, N - 1)
    PROVE  TurnInv(t, ln, N)
<1>1. N - 1 \in Nat /\ N > 1 /\ (N - 1) + 1 = N
  BY DEF Follows
<1>2. t[N - 1].stm = Side(N - 1) /\ Side(N) = Other(Side(N - 1))
  BY <1>1, Turns DEF TurnInv
<1>3. QED BY <1>1, <1>2 DEF Follows, TurnInv

\* The plies since a null move count on, or begin again.
LEMMA NullStep ==
    ASSUME NEW t, NEW ln, NEW N \in Nat, Follows(t, ln, N), t[N - 1] \in States,
           NullInv(t, ln, N - 1)
    PROVE  NullInv(t, ln, N)
<1> DEFINE p == t[N - 1].pliesFromNull
           q == t[N].pliesFromNull
<1>1. /\ N > 1 /\ p \in Nat /\ p < N - 1 /\ q = IF ln[N - 1].null THEN 0 ELSE p + 1
      /\ \A i \in 0..(N - 2) : i <= p <=> NoNull(ln, (N - 1) - i, N - 1)
  BY DEF Follows, NullInv, States
<1> HIDE DEF p, q
<1>2. q < N
  BY <1>1
<1>3. ASSUME NEW i \in 0..(N - 1) PROVE i <= q <=> NoNull(ln, N - i, N)
  <2>1. CASE i = 0
    BY <1>1, <2>1 DEF NoNull
  <2>2. CASE i > 0
    <3>1. i - 1 \in 0..(N - 2) /\ (N - 1) - (i - 1) = N - i
      BY <1>1, <2>2
    <3>2. i - 1 <= p <=> NoNull(ln, N - i, N - 1)
      BY <1>1, <3>1
    <3>3. NoNull(ln, N - i, N) <=> NoNull(ln, N - i, N - 1) /\ ~ln[N - 1].null
      BY <1>1, <2>2 DEF NoNull
    <3>4. QED BY <1>1, <2>2, <3>2, <3>3
  <2>3. QED BY <2>1, <2>2
<1>4. QED BY <1>2, <1>3 DEF NullInv, q

\* A run of checks is twice the moves it consists of: the other side's moves in
\* between do not end it.
LEMMA RunStep ==
    ASSUME NEW t, NEW ln, NEW N \in Nat, Follows(t, ln, N),
           \A k \in 1..(N - 1) : TurnInv(t, ln, k), TurnInv(t, ln, N), RunInv(t, ln, N - 1)
    PROVE  RunInv(t, ln, N)
<1> DEFINE M == N - 1
           me == Side(M)
           run(c, k) == t[k].continuousCheck[c]
<1>1. /\ M \in Nat /\ M >= 1 /\ N = M + 1 /\ Side(N) = Other(me) /\ me \in Sides
      /\ t[M].stm = me /\ t[N].stm = Other(me) /\ t[N] \in States /\ t[M] \in States
  BY Turns DEF Follows, TurnInv
<1>2. \A n \in 1..M : ln[n].by = Side(n)
  <2> SUFFICES ASSUME NEW n \in 1..M PROVE ln[n].by = Side(n)
    OBVIOUS
  <2>1. TurnInv(t, ln, n + 1) /\ (n + 1) - 1 = n /\ n + 1 > 1
    <3>1. n + 1 \in 1..(N - 1) \/ n + 1 = N
      BY <1>1
    <3>2. QED BY <3>1, <1>1
  <2>2. QED BY <2>1 DEF TurnInv
<1>3. /\ run(Other(me), N) = run(Other(me), M)
      /\ run(me, N) = IF ln[M].check THEN run(me, M) + 2 ELSE 0
  BY <1>1 DEF Follows
<1>4. \A c \in Sides : run(c, M) \in Nat
  BY <1>1 DEF States
<1> SUFFICES ASSUME NEW c \in Sides, NEW i \in 2..N, i % 2 = 0, c = Side(N) => i < N
             PROVE  i <= run(c, N) <=> ChecksOf(ln, c, N - i, N)
  BY DEF RunInv
<1> HIDE DEF M, me, run
<1>5. CASE c = Other(me)
  <2>1. i <= M /\ i \in 2..M /\ c # me
    BY <1>1, <1>5, Turns
  <2>2. i <= run(c, M) <=> ChecksOf(ln, c, M - i, M)
    BY <1>5, <2>1, Turns DEF RunInv, M, me, run
  <2>3. ChecksOf(ln, c, N - i, N) <=> ChecksOf(ln, c, M - i, M)
    <3>1. \A n \in 1..(N - 1) : ln[n].by = Side(n)
      BY <1>1, <1>2
    <3>2. Side(M) # c
      BY <2>1 DEF me
    <3>3. M - i >= 1 => Side(M - i) # c
      BY <1>1, <2>1, <3>2, Turns
    <3>4. \A n \in 1..M : n >= M - i => n = M - i \/ n >= N - i
      BY <1>1
    <3>5. QED BY <1>1, <3>1, <3>2, <3>3, <3>4 DEF ChecksOf
  <2>4. QED BY <1>3, <1>5, <2>2, <2>3
<1>6. CASE c = me
  <2>1. ChecksOf(ln, c, N - i, N) => ln[M].check
    <3>1. M \in 1..(N - 1) /\ M >= N - i /\ ln[M].by = c
      BY <1>1, <1>2, <1>6 DEF me
    <3>2. QED BY <3>1 DEF ChecksOf
  <2>2. CASE ~ln[M].check
    BY <1>3, <1>6, <2>1, <2>2
  <2>3. CASE ln[M].check /\ i = 2
    <3>1. ChecksOf(ln, c, N - i, N)
      <4>1. \A n \in 1..(N - 1) : n >= N - i => n = M \/ n = M - 1
        BY <1>1, <2>3
      <4>2. M - 1 >= 1 => ln[M - 1].by # c
        <5>1. M - 1 >= 1 => ln[M - 1].by = Side(M - 1)
          BY <1>1, <1>2
        <5>2. M - 1 >= 1 => Side(M - 1) # Side(M)
          BY <1>1, Turns
        <5>3. QED BY <1>6, <5>1, <5>2 DEF me
      <4>3. QED BY <1>1, <2>3, <4>1, <4>2 DEF ChecksOf
    <3>2. run(c, M) \in Nat
      BY <1>4
    <3>3. QED BY <1>3, <1>6, <2>3, <3>1, <3>2
  <2>4. CASE ln[M].check /\ i # 2
    <3>1. i - 2 \in 2..M /\ (i - 2) % 2 = 0 /\ i - 2 < M
      BY <1>1, <2>4
    <3>2. i - 2 <= run(c, M) <=> ChecksOf(ln, c, M - (i - 2), M)
      BY <1>6, <3>1 DEF RunInv, M, me, run
    <3>3. ChecksOf(ln, c, N - i, N) <=> ChecksOf(ln, c, M - (i - 2), M)
      <4>1. \A n \in 1..(N - 1) : ln[n].by = Side(n)
        BY <1>1, <1>2
      <4>2. N - i >= 1 => Side(N - i) # c
        <5>1. Side(N - i) = Side(N)
          <6>1. i \in Nat /\ i <= N /\ i % 2 = 0
            OBVIOUS
          <6>2. QED BY <6>1, Turns
        <5>2. QED BY <1>1, <1>6, <5>1, Turns
      <4>3. \A n \in 1..M : n >= N - i => n = N - i \/ n >= M - (i - 2)
        BY <1>1
      <4>4. M - (i - 2) = (N - i) + 1
        BY <1>1
      <4>5. M - (i - 2) <= M
        <5>1. i - 2 \in Nat
          BY <3>1
        <5>2. QED BY <1>1, <5>1
      <4>6. QED BY <1>1, <2>4, <4>1, <4>2, <4>3, <4>4, <4>5 DEF ChecksOf
    <3>4. run(c, M) \in Nat
      BY <1>4
    <3>5. QED BY <1>3, <1>6, <2>4, <3>2, <3>3, <3>4
  <2>5. QED BY <2>2, <2>3, <2>4
<1>7. QED BY <1>1, <1>5, <1>6, Turns

----------------------------------------------------------------------------
\* The walk back.
LEMMA NearestIsLeast ==
    ASSUME NEW S, S \subseteq Nat, S # {}
    PROVE  Nearest(S) \in S /\ \A j \in S : Nearest(S) <= j
<1>1. \E i \in S : \A j \in S : i <= j
  BY Sorting!LeastNatural
<1>2. QED BY <1>1 DEF Nearest

\* The distances it may stop at, in a timeline of N states.
StopsAt(t, N, S) ==
    /\ S \subseteq 4..(N - 1)
    /\ \A i \in 4..(N - 1) :
          i \in S <=> i <= LookBack(t[N]) /\ i % 2 = 0 /\ Matches(t[N], t[N - i])

\* They are those the walk back over the state stack stops at.
LEMMA StopsAre ==
    ASSUME NEW h \in Seq(States), NEW r \in States, h # <<>>
    PROVE  /\ StopsAt(<<r>> \o h, Len(h) + 1, Stops(h, r))
           /\ \A i \in 1..Len(h) : StateBack(h, r, i) = (<<r>> \o h)[Len(h) + 1 - i]
<1> DEFINE t == <<r>> \o h
           N == Len(h) + 1
<1>1. N \in Nat /\ N > 1 /\ t[N] = h[Len(h)]
  BY TimelineAt
<1>1a. \A k \in 1..(Len(h) + 1) : t[k] = IF k = 1 THEN r ELSE h[k - 1]
  BY TimelineAt
<1>2. \A i \in 1..Len(h) : StateBack(h, r, i) = t[N - i]
  <2> SUFFICES ASSUME NEW i \in 1..Len(h) PROVE StateBack(h, r, i) = t[N - i]
    OBVIOUS
  <2>1. N - i \in 1..(Len(h) + 1) /\ (N - i = 1 <=> i = Len(h)) /\ (N - i) - 1 = Len(h) - i
    OBVIOUS
  <2>2. t[N - i] = IF N - i = 1 THEN r ELSE h[(N - i) - 1]
    <3> HIDE DEF t
    <3>1. QED BY <1>1a, <2>1
  <2> HIDE DEF t
  <2>3. QED BY <2>1, <2>2 DEF StateBack
<1>3. LookBack(t[N]) \in Nat
  <2>1. t[N] \in States
    BY <1>1
  <2>2. QED BY <2>1, WindowAssumption DEF LookBack, States
<1>4. StopsAt(t, N, Stops(h, r))
  <2> HIDE DEF t
  <2>1. QED BY <1>1, <1>2, <1>3 DEF Stops, StopsAt, HasStateBack
<1>5. QED BY <1>2, <1>4

\* What the counters say about a state met again.
LEMMA Distances ==
    ASSUME NEW t, NEW ln, NEW N \in Nat, N > 1, TurnInv(t, ln, N), NullInv(t, ln, N),
           RunInv(t, ln, N), NEW i \in 4..(N - 1), i % 2 = 0, i <= LookBack(t[N])
    PROVE  /\ NoNull(ln, N - i, N)
           /\ i <= t[N].continuousCheck[t[N].stm] <=> ChecksOf(ln, Side(N), N - i, N)
           /\ i <= t[N].continuousCheck[Other(t[N].stm)] <=> ChecksOf(ln, Other(Side(N)), N - i, N)
<1>1. t[N].pliesFromNull \in Nat
  BY DEF TurnInv, States
<1>2. i <= t[N].pliesFromNull
  BY <1>1, WindowAssumption DEF LookBack
<1>3. NoNull(ln, N - i, N)
  <2>1. i \in 0..(N - 1)
    OBVIOUS
  <2>2. QED BY <1>2, <2>1 DEF NullInv
<1>4. /\ i \in 2..N /\ i < N
      /\ t[N].stm = Side(N) /\ Side(N) \in Sides /\ Other(Side(N)) \in Sides
  BY Turns DEF TurnInv
<1>5. QED BY <1>3, <1>4 DEF RunInv

\* Between a state and its nearest earlier occurrence it does not occur.
LEMMA NoneBetween ==
    ASSUME NEW t, NEW ln, NEW N \in Nat, N > 1,
           \A k \in 1..N : TurnInv(t, ln, k),
           NEW S, StopsAt(t, N, S), S # {}, NoNull(ln, N - Nearest(S), N),
           NEW n \in (N - Nearest(S) + 1)..(N - 1)
    PROVE  ~SameAt(t, n, N)
<1> SUFFICES ASSUME SameAt(t, n, N) PROVE FALSE
  OBVIOUS
<1> DEFINE d == N - n
<1>1. Nearest(S) \in S /\ (\A j \in S : Nearest(S) <= j) /\ Nearest(S) \in 4..(N - 1)
  <2>1. S \subseteq Nat
    BY DEF StopsAt
  <2>2. QED BY <2>1, NearestIsLeast DEF StopsAt
<1>2. n \in 1..N /\ d \in Nat /\ d >= 1 /\ d < Nearest(S) /\ N - d = n
  BY <1>1
<1>3. d % 2 = 0
  <2>1. Side(N - d) = Side(N)
    BY <1>2 DEF SameAt, TurnInv
  <2>2. d <= N
    BY <1>2
  <2>3. QED BY <1>2, <2>1, <2>2, Turns
<1>4. CASE d >= 4
  <2>1. d \in 4..(N - 1)
    BY <1>1, <1>2, <1>4
  <2>2. Nearest(S) <= LookBack(t[N]) /\ LookBack(t[N]) \in Int
    <3>1. t[N] \in States
      BY DEF TurnInv
    <3>2. LookBack(t[N]) \in Int
      BY <3>1, WindowAssumption DEF LookBack, States
    <3>3. QED BY <1>1, <3>2 DEF StopsAt
  <2>3. Matches(t[N], t[N - d])
    BY <1>2 DEF SameAt, Matches
  <2>4. d \in S
    BY <1>1, <1>2, <1>3, <2>1, <2>2, <2>3 DEF StopsAt
  <2>5. QED BY <1>1, <1>2, <2>4
<1>5. CASE d < 4
  <2>1. n = N - 2 /\ N - 2 >= 1
    BY <1>1, <1>2, <1>3, <1>5
  <2>2. ~ln[N - 1].null /\ ~ln[N - 2].null
    BY <1>1, <2>1 DEF NoNull
  <2>3. t[N].key.place[Side(N - 1)] # t[N - 1].key.place[Side(N - 1)]
    <3>1. TurnInv(t, ln, N)
      OBVIOUS
    <3>2. QED BY <2>2, <3>1 DEF TurnInv
  <2>4. t[N - 1].key.place[Side(N - 1)] = t[N - 2].key.place[Side(N - 1)]
    <3>1. TurnInv(t, ln, N - 1) /\ N - 1 > 1 /\ (N - 1) - 1 = N - 2
      BY <2>1
    <3>2. QED BY <2>2, <3>1 DEF TurnInv
  <2>5. QED BY <2>1, <2>3, <2>4 DEF SameAt
<1>6. QED BY <1>2, <1>4, <1>5

\* What compute_repetition stores, given the distances it may stop at.
Stored(t, N, S) ==
    IF S = {} THEN NotRepeated
    ELSE LET i     == Nearest(S)
             prev  == t[N - i]
             type  == Verdict(t[N], prev, i)
             times == prev.repetition.times + 1
         IN  IF prev.hands # t[N].hands
             THEN [distance |-> i, times |-> 0, type |-> type]
             ELSE [distance |-> Signed(times, i),
                   times |-> times,
                   type |-> IF prev.repetition.times # 0 /\ type # prev.repetition.type
                            THEN "Draw" ELSE type]

\* Chaining to the nearest earlier occurrence goes on counting those before it.
LEMMA ChainStep ==
    ASSUME NEW t, NEW ln, NEW N \in Nat, N > 1,
           \A k \in 1..N : TurnInv(t, ln, k), NullInv(t, ln, N), RunInv(t, ln, N),
           \A k \in 1..(N - 1) : ChainInv(t, ln, k),
           NEW S, StopsAt(t, N, S), t[N].repetition = Stored(t, N, S)
    PROVE  ChainInv(t, ln, N)
<1>1. CASE S = {}
  BY <1>1 DEF Stored, NotRepeated, ChainInv
<1>2. CASE S # {}
  <2> DEFINE i == Nearest(S)
             j == N - i
             prev == t[j]
             old == prev.repetition
             r == t[N].repetition
             type == Verdict(t[N], prev, i)
  <2>1. i \in S /\ i \in 4..(N - 1) /\ i % 2 = 0 /\ i <= LookBack(t[N]) /\ Matches(t[N], t[j])
    <3>1. S \subseteq Nat
      BY DEF StopsAt
    <3>2. i \in S
      BY <1>2, <3>1, NearestIsLeast
    <3> HIDE DEF i
    <3>3. QED BY <3>2 DEF StopsAt
  <2>2. NoNull(ln, j, N)
    <3> HIDE DEF i
    <3>1. TurnInv(t, ln, N)
      OBVIOUS
    <3>2. QED BY <2>1, <3>1, Distances
  <2>3. \A n \in (j + 1)..(N - 1) : ~SameAt(t, n, N)
    BY <1>2, <2>2, NoneBetween
  <2>4. r = IF prev.hands # t[N].hands
            THEN [distance |-> i, times |-> 0, type |-> type]
            ELSE [distance |-> Signed(old.times + 1, i), times |-> old.times + 1,
                  type |-> IF old.times # 0 /\ type # old.type THEN "Draw" ELSE type]
    BY <1>2 DEF Stored
  <2> HIDE DEF i
  <2>5. j \in 1..(N - 1) /\ j < N /\ t[j] \in States /\ t[N] \in States /\ N - i = j
    <3>1. j \in 1..(N - 1) /\ j \in 1..N /\ N \in 1..N
      BY <2>1
    <3>2. TurnInv(t, ln, j) /\ TurnInv(t, ln, N)
      BY <3>1
    <3>3. QED BY <3>1, <3>2 DEF TurnInv
  <2>6. prev.key = t[N].key /\ old.times \in Nat
    BY <2>1, <2>5 DEF Matches, States
  <2>7. CASE prev.hands # t[N].hands
    <3>1. r.times = 0 /\ r.distance = i
      BY <2>4, <2>7
    <3> HIDE DEF r, prev
    <3>2. QED BY <2>1, <2>5, <2>6, <3>1 DEF ChainInv, r, prev
  <2>8. CASE prev.hands = t[N].hands
    <3>1. SameAt(t, j, N)
      BY <2>6, <2>8 DEF SameAt
    <3>2. /\ r.times = old.times + 1 /\ r.distance = Signed(old.times + 1, i)
          /\ r.type = IF old.times # 0 /\ type # old.type THEN "Draw" ELSE type
      BY <2>4, <2>8
    <3>3. /\ type = "Lose" => ChecksOf(ln, Side(N), j, N)
          /\ type = "Win" => ChecksOf(ln, Other(Side(N)), j, N)
      <4>1. TurnInv(t, ln, N)
        OBVIOUS
      <4>2. /\ i <= t[N].continuousCheck[t[N].stm] <=> ChecksOf(ln, Side(N), N - i, N)
            /\ i <= t[N].continuousCheck[Other(t[N].stm)] <=> ChecksOf(ln, Other(Side(N)), N - i, N)
        BY <2>1, <4>1, Distances
      <4>3. QED BY <2>5, <2>8, <4>2 DEF Verdict
    <3> HIDE DEF type
    <3>4. /\ r.distance > 0 => r.distance = i
          /\ r.distance < 0 => r.times >= 3
      BY <2>1, <2>6, <3>2 DEF Signed
    <3>5. \E k \in 1..(N - 1) :
            /\ SameAt(t, k, N) /\ NoNull(ln, k, N)
            /\ Cardinality(Occurrences(t, k, N)) = r.times
            /\ r.type = "Lose" => ChecksOf(ln, Side(N), k, N)
            /\ r.type = "Win" => ChecksOf(ln, Other(Side(N)), k, N)
      <4>1. CASE old.times = 0
        <5>1. Occurrences(t, j, N) = {j}
          BY <2>3, <2>5, <3>1 DEF Occurrences
        <5>2. Cardinality(Occurrences(t, j, N)) = 1
          BY <5>1, FS_Singleton
        <5>3. r.times = 1 /\ r.type = type
          BY <3>2, <4>1
        <5> HIDE DEF r, old
        <5>4. QED BY <2>2, <2>5, <3>1, <3>3, <5>2, <5>3
      <4>2. CASE old.times # 0
        <5>1. ChainInv(t, ln, j) /\ old.times > 0
          BY <2>5, <2>6, <4>2
        <5>2. PICK k \in 1..(j - 1) :
                /\ SameAt(t, k, j) /\ NoNull(ln, k, j)
                /\ Cardinality(Occurrences(t, k, j)) = old.times
                /\ old.type = "Lose" => ChecksOf(ln, Side(j), k, j)
                /\ old.type = "Win" => ChecksOf(ln, Other(Side(j)), k, j)
          BY <5>1 DEF ChainInv
        <5>3. Side(j) = Side(N)
          <6>1. i \in Nat /\ i <= N
            BY <2>1
          <6>2. QED BY <2>1, <2>5, <6>1, Turns
        <5>4. SameAt(t, k, N) /\ NoNull(ln, k, N)
          <6>1. SameAt(t, k, N)
            BY <3>1, <5>2 DEF SameAt
          <6>2. NoNull(ln, k, N)
            BY <2>2, <2>5, <5>2 DEF NoNull
          <6>3. QED BY <6>1, <6>2
        <5>5. Occurrences(t, k, N) = Occurrences(t, k, j) \cup {j} /\ j \notin Occurrences(t, k, j)
          <6>1. \A n \in k..(j - 1) : SameAt(t, n, j) <=> SameAt(t, n, N)
            BY <3>1 DEF SameAt
          <6>2. \A n \in k..(N - 1) : n \in k..(j - 1) \/ n = j \/ n \in (j + 1)..(N - 1)
            BY <2>5
          <6>3. \A n \in k..(j - 1) : n \in k..(N - 1) /\ n # j
            BY <2>5
          <6>4. j \in k..(N - 1) /\ j \notin k..(j - 1)
            BY <2>5
          <6>5. QED BY <2>3, <3>1, <6>1, <6>2, <6>3, <6>4 DEF Occurrences
        <5>6. IsFiniteSet(Occurrences(t, k, j))
          <6>1. IsFiniteSet(k..(j - 1)) /\ Occurrences(t, k, j) \subseteq k..(j - 1)
            BY <2>5, FS_Interval DEF Occurrences
          <6>2. QED BY <6>1, FS_Subset
        <5>7. Cardinality(Occurrences(t, k, N)) = r.times
          <6>1. Cardinality(Occurrences(t, k, N)) = Cardinality(Occurrences(t, k, j)) + 1
            BY <5>5, <5>6, FS_AddElement
          <6>2. QED BY <3>2, <5>2, <6>1
        <5>8. \A c \in Sides : ChecksOf(ln, c, k, j) /\ ChecksOf(ln, c, j, N) => ChecksOf(ln, c, k, N)
          <6>1. \A n \in 1..(N - 1) : n >= j \/ n \in 1..(j - 1)
            BY <2>5
          <6>2. QED BY <6>1 DEF ChecksOf
        <5>9. r.type \in {"Lose", "Win"} => type = r.type /\ old.type = r.type
          BY <3>2, <4>2
        <5>10. Side(N) \in Sides /\ Other(Side(N)) \in Sides
          BY Turns
        <5>11. k \in 1..(N - 1)
          BY <2>5
        <5> HIDE DEF r, old
        <5>12. /\ r.type = "Lose" => ChecksOf(ln, Side(N), k, N)
               /\ r.type = "Win" => ChecksOf(ln, Other(Side(N)), k, N)
          BY <3>3, <5>2, <5>3, <5>8, <5>9, <5>10
        <5>13. QED BY <5>4, <5>7, <5>11, <5>12
      <4>3. QED BY <4>1, <4>2
    <3> HIDE DEF r
    <3>6. r.distance > 0 => r.distance \in 4..(N - 1) /\ t[N - r.distance].key = t[N].key
      BY <2>1, <2>5, <2>6, <3>4
    <3>7. QED BY <3>4, <3>5, <3>6 DEF ChainInv, r
  <2>9. QED BY <2>7, <2>8
<1>3. QED BY <1>1, <1>2

----------------------------------------------------------------------------
\* A line that grows by a state stored as compute_repetition does.
LEMMA GrownKeeps ==
    ASSUME LineInv, NEW st \in States, NEW mv \in Played,
           Follows(<<root>> \o Append(hist, st), Append(line, mv), Len(hist) + 2),
           NEW S, StopsAt(<<root>> \o Append(hist, st), Len(hist) + 2, S),
           st.repetition = Stored(<<root>> \o Append(hist, st), Len(hist) + 2, S)
    PROVE  \A k \in 1..(Len(hist) + 2) :
              StateInv(<<root>> \o Append(hist, st), Append(line, mv), k)
<1> DEFINE t == <<root>> \o Append(hist, st)
           ln == Append(line, mv)
           N == Len(hist) + 2
<1>1. /\ N \in Nat /\ N > 1 /\ N - 1 \in Nat \ {0} /\ N - 1 = Len(hist) + 1
      /\ hist \in Seq(States) /\ root \in States /\ Len(line) = N - 2 /\ line \in Seq(Played)
  BY DEF LineInv
<1>2. /\ Append(hist, st) \in Seq(States) /\ Len(Append(hist, st)) = Len(hist) + 1
      /\ Append(hist, st)[Len(hist) + 1] = st
      /\ \A k \in 1..Len(hist) : Append(hist, st)[k] = hist[k]
  BY <1>1
<1>3. \A k \in 1..N : t[k] = IF k = 1 THEN root ELSE Append(hist, st)[k - 1]
  <2>1. Len(Append(hist, st)) + 1 = N
    BY <1>2
  <2>2. QED BY <1>1, <1>2, <2>1, TimelineAt
<1>4. \A k \in 1..(N - 1) : Timeline[k] = IF k = 1 THEN root ELSE hist[k - 1]
  BY <1>1, TimelineAt DEF Timeline
<1>5. \A n \in 1..(N - 2) : ln[n] = line[n]
  BY <1>1
<1> HIDE DEF t, ln, N
<1>6. t[N] = st /\ \A k \in 1..(N - 1) : t[k] = Timeline[k]
  <2>1. \A k \in 1..(N - 1) : k \in 1..N /\ (k # 1 => k - 1 \in 1..Len(hist))
    BY <1>1
  <2>2. N \in 1..N /\ N # 1 /\ N - 1 = Len(hist) + 1
    BY <1>1
  <2>3. QED BY <1>2, <1>3, <1>4, <2>1, <2>2
<1>7. \A k \in 1..(N - 1) : StateInv(t, ln, k)
  <2> SUFFICES ASSUME NEW k \in 1..(N - 1) PROVE StateInv(t, ln, k)
    OBVIOUS
  <2>1. k \in Nat \ {0} /\ (\A i \in 1..k : i \in 1..(N - 1)) /\ (\A n \in 1..(k - 1) : n \in 1..(N - 2))
    BY <1>1
  <2>2. StateInv(Timeline, line, k)
    BY <1>1 DEF LineInv
  <2>3. QED BY <1>5, <1>6, <2>1, <2>2, StateCarries
<1>8. N - 1 \in 1..(N - 1) /\ Follows(t, ln, N) /\ StopsAt(t, N, S) /\ t[N].repetition = Stored(t, N, S)
  BY <1>1, <1>6 DEF t, ln, N
<1>9. TurnInv(t, ln, N - 1) /\ NullInv(t, ln, N - 1) /\ RunInv(t, ln, N - 1) /\ t[N - 1] \in States
  BY <1>7, <1>8 DEF StateInv, TurnInv
<1>10. TurnInv(t, ln, N)
  BY <1>1, <1>8, <1>9, TurnStep
<1>11. NullInv(t, ln, N)
  BY <1>1, <1>8, <1>9, NullStep
<1>12. \A k \in 1..(N - 1) : TurnInv(t, ln, k) /\ ChainInv(t, ln, k)
  BY <1>7 DEF StateInv
<1>13. RunInv(t, ln, N)
  BY <1>1, <1>8, <1>9, <1>10, <1>12, RunStep
<1>14. \A k \in 1..N : k = N \/ k \in 1..(N - 1)
  BY <1>1
<1>15. ChainInv(t, ln, N)
  <2>1. \A k \in 1..N : TurnInv(t, ln, k)
    BY <1>10, <1>12, <1>14
  <2>2. QED BY <1>1, <1>8, <1>11, <1>12, <1>13, <2>1, ChainStep
<1>16. \A k \in 1..N : StateInv(t, ln, k)
  BY <1>7, <1>10, <1>11, <1>13, <1>14, <1>15 DEF StateInv
<1>17. QED BY <1>16 DEF t, ln, N

\* What is stored is computed from the timeline, and not from what was stored
\* with its last state.
LEMMA StoredRepetitionIs ==
    ASSUME NEW h \in Seq(States), NEW r \in States, h # <<>>
    PROVE  StoredRepetition(h, r) = Stored(<<r>> \o h, Len(h) + 1, Stops(h, r))
<1> DEFINE t == <<r>> \o h
           N == Len(h) + 1
           S == Stops(h, r)
<1> SUFFICES StoredRepetition(h, r) = Stored(t, N, S)
  OBVIOUS
<1>1. t[N] = h[Len(h)]
  <2>1. N \in 1..(Len(h) + 1) /\ N # 1 /\ N - 1 = Len(h)
    OBVIOUS
  <2>2. \A k \in 1..(Len(h) + 1) : t[k] = IF k = 1 THEN r ELSE h[k - 1]
    BY TimelineAt
  <2> HIDE DEF t, N
  <2>3. QED BY <2>1, <2>2
<1>2. StopsAt(t, N, S) /\ \A i \in 1..Len(h) : StateBack(h, r, i) = t[N - i]
  BY StopsAre
<1> HIDE DEF t, S, N
<1>3. CASE S = {}
  BY <1>3 DEF StoredRepetition, Stored, S
<1>4. CASE S # {}
  <2>1. Nearest(S) \in 1..Len(h)
    <3>1. S \subseteq Nat /\ S \subseteq 4..Len(h)
      BY <1>2 DEF StopsAt, N
    <3>2. Nearest(S) \in S
      BY <1>4, <3>1, NearestIsLeast
    <3>3. Len(h) \in Nat
      OBVIOUS
    <3>4. Nearest(S) \in 4..Len(h)
      BY <3>1, <3>2
    <3>5. QED BY <3>3, <3>4
  <2>2. StateBack(h, r, Nearest(S)) = t[N - Nearest(S)]
    BY <1>2, <2>1
  <2> DEFINE i == Nearest(S)
             cur == t[N]
             prev == t[N - i]
             type == Verdict(cur, prev, i)
             times == prev.repetition.times + 1
             what == IF prev.hands # cur.hands
                     THEN [distance |-> i, times |-> 0, type |-> type]
                     ELSE [distance |-> Signed(times, i), times |-> times,
                           type |-> IF prev.repetition.times # 0 /\ type # prev.repetition.type
                                    THEN "Draw" ELSE type]
  <2>3. StoredRepetition(h, r) = what
    <3>1. cur = h[Len(h)] /\ prev = StateBack(h, r, i) /\ i = Nearest(Stops(h, r)) /\ Stops(h, r) # {}
      BY <1>1, <1>4, <2>2 DEF S
    <3> HIDE DEF cur, prev, i, S
    <3>2. QED BY ONLY <3>1 DEF StoredRepetition
  <2>4. Stored(t, N, S) = what
    BY <1>4 DEF Stored
  <2>5. QED BY <2>3, <2>4
<1>5. QED BY <1>3, <1>4

\* The stored repetition of the last state itself is not read in computing it.
LEMMA LastUnread ==
    ASSUME NEW t, NEW u, NEW N \in Nat, NEW S, StopsAt(t, N, S), \A k \in 1..(N - 1) : u[k] = t[k],
           u[N].key = t[N].key, u[N].hands = t[N].hands, u[N].stm = t[N].stm,
           u[N].pliesFromNull = t[N].pliesFromNull,
           u[N].continuousCheck = t[N].continuousCheck
    PROVE  StopsAt(u, N, S) /\ Stored(u, N, S) = Stored(t, N, S)
<1>1. \A i \in 4..(N - 1) : u[N - i] = t[N - i]
  OBVIOUS
<1>2. LookBack(u[N]) = LookBack(t[N])
  BY DEF LookBack
<1>3. \A p : Matches(u[N], p) <=> Matches(t[N], p)
  BY DEF Matches
<1>4. \A p, i : Verdict(u[N], p, i) = Verdict(t[N], p, i)
  BY DEF Verdict
<1>5. StopsAt(u, N, S)
  BY <1>1, <1>2, <1>3 DEF StopsAt
<1>6. S # {} => Nearest(S) \in 4..(N - 1)
  <2>1. S \subseteq Nat /\ S \subseteq 4..(N - 1)
    BY DEF StopsAt
  <2>2. QED BY <2>1, NearestIsLeast
<1>7. Stored(u, N, S) = Stored(t, N, S)
  BY <1>1, <1>4, <1>6 DEF Stored
<1>8. QED BY <1>5, <1>7

\* Its fields are in their ranges.
LEMMA StoredTyped ==
    ASSUME NEW t, NEW N \in Nat, NEW S, StopsAt(t, N, S), \A k \in 1..(N - 1) : t[k] \in States
    PROVE  Stored(t, N, S) \in [distance : Int, times : Nat,
                                type : {"None", "Lose", "Win", "Draw", "Superior", "Inferior"}]
<1>1. CASE S = {}
  BY <1>1 DEF Stored, NotRepeated
<1>2. CASE S # {}
  <2> DEFINE i == Nearest(S)
             prev == t[N - i]
             type == Verdict(t[N], prev, i)
  <2>1. i \in 4..(N - 1)
    <3>1. S \subseteq Nat /\ S \subseteq 4..(N - 1)
      BY DEF StopsAt
    <3>2. QED BY <1>2, <3>1, NearestIsLeast
  <2> HIDE DEF i
  <2>2. prev \in States
    BY <2>1
  <2>3. prev.repetition.times + 1 \in Nat
    BY <2>2 DEF States
  <2>4. type \in {"None", "Lose", "Win", "Draw", "Superior", "Inferior"}
    BY DEF Verdict
  <2>5. Signed(prev.repetition.times + 1, i) \in Int
    BY <2>1 DEF Signed
  <2> HIDE DEF type, prev
  <2>6. Stored(t, N, S) =
          IF prev.hands # t[N].hands
          THEN [distance |-> i, times |-> 0, type |-> type]
          ELSE [distance |-> Signed(prev.repetition.times + 1, i),
                times |-> prev.repetition.times + 1,
                type |-> IF prev.repetition.times # 0 /\ type # prev.repetition.type
                         THEN "Draw" ELSE type]
    BY <1>2 DEF Stored, i, prev, type
  <2>7. QED BY <2>1, <2>3, <2>4, <2>5, <2>6
<1>3. QED BY <1>1, <1>2


----------------------------------------------------------------------------
\* The last state of a line, and what it is for the line that grows.
LEMMA LastState ==
    LineInv => /\ Current = Timeline[Len(hist) + 1] /\ Current \in States
               /\ Len(hist) + 1 \in Nat /\ hist \in Seq(States) /\ root \in States
               /\ Len(line) = Len(hist) /\ line \in Seq(Played) /\ Len(Timeline) = Len(hist) + 1
               /\ TurnInv(Timeline, line, Len(hist) + 1)
<1> SUFFICES ASSUME LineInv
             PROVE  /\ Current = Timeline[Len(hist) + 1] /\ Current \in States
                    /\ Len(hist) + 1 \in Nat /\ hist \in Seq(States) /\ root \in States
                    /\ Len(line) = Len(hist) /\ line \in Seq(Played) /\ Len(Timeline) = Len(hist) + 1
                    /\ TurnInv(Timeline, line, Len(hist) + 1)
  OBVIOUS
<1>1. /\ Len(hist) + 1 \in Nat /\ hist \in Seq(States) /\ root \in States
      /\ Len(line) = Len(hist) /\ line \in Seq(Played)
      /\ Len(hist) \in Nat /\ (Len(hist) = 0 <=> hist = <<>>)
  BY DEF LineInv
<1>2. Len(Timeline) = Len(hist) + 1
      /\ \A k \in 1..(Len(hist) + 1) : Timeline[k] = IF k = 1 THEN root ELSE hist[k - 1]
  BY <1>1, TimelineAt DEF Timeline
<1>3. Current = Timeline[Len(hist) + 1]
  <2>1. Len(hist) + 1 \in 1..(Len(hist) + 1) /\ (Len(hist) + 1) - 1 = Len(hist)
    BY <1>1
  <2>2. QED BY <1>1, <1>2, <2>1 DEF Current
<1>4. TurnInv(Timeline, line, Len(hist) + 1)
  BY <1>1 DEF LineInv, StateInv
<1>5. QED BY <1>1, <1>2, <1>3, <1>4 DEF TurnInv

\* A line grown by one state and what led to it: the two states that matter.
LEMMA GrownEnds ==
    ASSUME LineInv, NEW st \in States, NEW mv \in Played
    PROVE  LET t == <<root>> \o Append(hist, st)
               N == Len(hist) + 2
           IN  /\ Append(hist, st) \in Seq(States) /\ Len(Append(hist, st)) = Len(hist) + 1
               /\ Append(line, mv) \in Seq(Played) /\ Len(Append(line, mv)) = Len(hist) + 1
               /\ N \in Nat /\ N > 1 /\ t[N] = st /\ t[N - 1] = Current
               /\ Append(line, mv)[N - 1] = mv
               /\ \A k \in 1..(N - 1) : t[k] = Timeline[k] /\ t[k] \in States
<1> DEFINE t == <<root>> \o Append(hist, st)
           N == Len(hist) + 2
<1>1. /\ Append(hist, st) \in Seq(States) /\ Len(Append(hist, st)) = Len(hist) + 1
      /\ Append(hist, st)[Len(hist) + 1] = st
      /\ \A k \in 1..Len(hist) : Append(hist, st)[k] = hist[k]
  BY LastState
<1>2. /\ Append(line, mv) \in Seq(Played) /\ Len(Append(line, mv)) = Len(hist) + 1
      /\ Append(line, mv)[Len(hist) + 1] = mv
  BY LastState
<1>3. \A k \in 1..N : t[k] = IF k = 1 THEN root ELSE Append(hist, st)[k - 1]
  <2>1. Len(Append(hist, st)) + 1 = N
    BY <1>1, LastState
  <2>2. QED BY <1>1, <2>1, LastState, TimelineAt
<1>4. \A k \in 1..(N - 1) : Timeline[k] = IF k = 1 THEN root ELSE hist[k - 1]
  BY LastState, TimelineAt DEF Timeline
<1>5. N \in Nat /\ N > 1 /\ N - 1 = Len(hist) + 1 /\ Len(hist) \in Nat
  BY LastState
<1>6. \A k \in 1..(N - 1) : t[k] = Timeline[k]
  <2>1. \A k \in 1..(N - 1) : k \in 1..N /\ (k # 1 => k - 1 \in 1..Len(hist))
    BY <1>5
  <2>2. QED BY <1>1, <1>3, <1>4, <2>1
<1>7. t[N] = st
  <2>1. N \in 1..N /\ N # 1 /\ N - 1 = Len(hist) + 1
    BY <1>5
  <2>2. QED BY <1>1, <1>3, <2>1
<1>8. t[N - 1] = Current
  <2>1. N - 1 \in 1..(N - 1)
    BY <1>5
  <2>2. QED BY <1>5, <1>6, <2>1, LastState
<1>9. \A k \in 1..(N - 1) : t[k] \in States
  BY <1>4, <1>6, <1>5, LastState
<1>10. QED BY <1>1, <1>2, <1>5, <1>6, <1>7, <1>8, <1>9

\* Storing a repetition with the last state is appending another last state.
LEMMA LastReplaced ==
    ASSUME NEW q \in Seq(States), NEW a \in States, NEW b \in States
    PROVE  [Append(q, a) EXCEPT ![Len(q) + 1] = b] = Append(q, b)
<1> DEFINE x == [Append(q, a) EXCEPT ![Len(q) + 1] = b]
<1>1. /\ Append(q, a) \in Seq(States) /\ Len(Append(q, a)) = Len(q) + 1 /\ Len(q) \in Nat
      /\ Append(q, b) \in Seq(States) /\ Len(Append(q, b)) = Len(q) + 1
  OBVIOUS
<1>2. x \in Seq(States) /\ Len(x) = Len(q) + 1
  BY <1>1
<1>3. \A k \in 1..(Len(q) + 1) : x[k] = Append(q, b)[k]
  <2>1. \A k \in 1..Len(q) : Append(q, a)[k] = q[k] /\ Append(q, b)[k] = q[k]
    OBVIOUS
  <2>2. Append(q, b)[Len(q) + 1] = b
    OBVIOUS
  <2>3. \A k \in 1..(Len(q) + 1) : k \in 1..Len(q) \/ k = Len(q) + 1
    OBVIOUS
  <2>4. DOMAIN Append(q, a) = 1..(Len(q) + 1)
    BY <1>1
  <2>5. \A k \in 1..(Len(q) + 1) : x[k] = IF k = Len(q) + 1 THEN b ELSE Append(q, a)[k]
    BY <2>4
  <2> HIDE DEF x
  <2>6. QED BY <2>1, <2>2, <2>3, <2>5
<1> HIDE DEF x
<1>4. x = Append(q, b)
  BY <1>1, <1>2, <1>3, SeqEqual
<1>5. QED BY <1>4 DEF x

\* A move keeps what holds of the line.
LEMMA MoveKeeps ==
    ASSUME LineInv, NEW to \in Places, NEW hands \in Hands, DoMove(to, hands)
    PROVE  LineInv'
<1> DEFINE mover == Current.stm
           place == [Current.key.place EXCEPT ![mover] = to]
           check == InCheck(place, Other(mover))
           s0 == StateAfterMove(Current, Key(place, Other(mover)), hands, mover, check)
           mv == [null |-> FALSE, by |-> mover, check |-> check]
           h == Append(hist, s0)
           N == Len(hist) + 2
           S == Stops(h, root)
           rep == StoredRepetition(h, root)
           st == [s0 EXCEPT !.repetition = rep]
           t == <<root>> \o Append(hist, st)
           u == <<root>> \o h
<1>1. /\ mover \in Sides /\ Other(mover) \in Sides /\ Other(mover) # mover
      /\ place \in [Sides -> Places] /\ check \in BOOLEAN
      /\ place[mover] = to /\ place[Other(mover)] = Current.key.place[Other(mover)]
  BY LastState, Turns DEF States, InCheck
<1>2. place # Current.key.place /\ hist' = StoreRepetition(h, root)
      /\ line' = Append(line, mv) /\ root' = root
  BY DEF DoMove
<1>3. to # Current.key.place[mover]
  <2>1. Current.key.place \in [Sides -> Places]
    BY LastState DEF States
  <2>2. to = Current.key.place[mover] => place = Current.key.place
    BY <2>1
  <2>3. QED BY <1>2, <2>2
<1> HIDE DEF mover, place, check
<1>4. s0 \in States /\ mv \in Played
  <2>1. Key(place, Other(mover)) \in [place : [Sides -> Places], stm : Sides]
    BY <1>1 DEF Key
  <2>2. /\ Current.continuousCheck \in [Sides -> Nat] /\ Current.pliesFromNull \in Nat
    BY LastState DEF States
  <2>3. [Current.continuousCheck EXCEPT ![mover] = IF check THEN @ + 2 ELSE 0] \in [Sides -> Nat]
    BY <1>1, <2>2
  <2>4. mv \in Played
    BY <1>1 DEF Played
  <2> HIDE DEF mv
  <2>5. s0 \in States
    BY <1>1, <2>1, <2>2, <2>3 DEF StateAfterMove, States, NotRepeated
  <2>6. QED BY <2>4, <2>5
<1>5. s0.stm = Other(mover) /\ s0.key = Key(place, Other(mover)) /\ s0.hands = hands
      /\ s0.pliesFromNull = Current.pliesFromNull + 1
      /\ s0.continuousCheck = [Current.continuousCheck EXCEPT ![mover] = IF check THEN @ + 2 ELSE 0]
  BY DEF StateAfterMove
<1> HIDE DEF s0, mv
<1>6. /\ h \in Seq(States) /\ Len(h) = Len(hist) + 1 /\ h # <<>> /\ Len(h) + 1 = N
      /\ N \in Nat /\ N > 1 /\ u[N] = s0
      /\ \A k \in 1..(N - 1) : u[k] = Timeline[k] /\ u[k] \in States
  <2>1. /\ h \in Seq(States) /\ Len(h) = Len(hist) + 1
        /\ N \in Nat /\ N > 1 /\ u[N] = s0
        /\ \A k \in 1..(N - 1) : u[k] = Timeline[k] /\ u[k] \in States
    BY <1>4, GrownEnds
  <2>2. Len(hist) \in Nat
    BY LastState
  <2>3. QED BY <2>1, <2>2
<1>7. root \in States
  BY LastState
<1> HIDE DEF h, u, N, S, rep
<1>8. StopsAt(u, N, S) /\ rep = Stored(u, N, S)
  BY <1>6, <1>7, StopsAre, StoredRepetitionIs DEF u, S, rep
<1>9. rep \in [distance : Int, times : Nat,
               type : {"None", "Lose", "Win", "Draw", "Superior", "Inferior"}]
  BY <1>6, <1>8, StoredTyped
<1>10. st \in States /\ st.repetition = rep /\ st.stm = s0.stm /\ st.key = s0.key
       /\ st.hands = s0.hands /\ st.pliesFromNull = s0.pliesFromNull
       /\ st.continuousCheck = s0.continuousCheck
  BY <1>4, <1>9 DEF States
<1> HIDE DEF st
<1>11. hist' = Append(hist, st)
  <2>1. /\ h[Len(h)] = s0 /\ Len(h) = Len(hist) + 1
        /\ h = Append(hist, s0) /\ hist \in Seq(States)
    BY <1>4, LastState DEF h
  <2>2. hist' = [h EXCEPT ![Len(h)] = st]
    BY <1>2, <2>1 DEF StoreRepetition, st, rep
  <2>3. QED BY <1>4, <1>10, <2>1, <2>2, LastReplaced
<1>12. /\ Append(hist, st) \in Seq(States) /\ Len(Append(hist, st)) = Len(hist) + 1
       /\ Append(line, mv) \in Seq(Played) /\ Len(Append(line, mv)) = Len(hist) + 1
       /\ t[N] = st /\ t[N - 1] = Current /\ Append(line, mv)[N - 1] = mv
       /\ \A k \in 1..(N - 1) : t[k] = Timeline[k] /\ t[k] \in States
  BY <1>4, <1>10, GrownEnds DEF N
<1> HIDE DEF t
<1>13. Follows(t, Append(line, mv), N)
  <2>1. mv.by = mover /\ ~mv.null /\ mv.check = check
    BY DEF mv
  <2>2. /\ st.key.place[mover] = to /\ st.key.stm = st.stm /\ st.stm = Other(mover)
        /\ st.key.place[Other(mover)] = Current.key.place[Other(mover)]
    BY <1>1, <1>5, <1>10 DEF Key
  <2>3. /\ st.pliesFromNull = Current.pliesFromNull + 1
        /\ st.continuousCheck[Other(mover)] = Current.continuousCheck[Other(mover)]
        /\ st.continuousCheck[mover] = IF check THEN Current.continuousCheck[mover] + 2 ELSE 0
    <3>1. Current.continuousCheck \in [Sides -> Nat]
      BY LastState DEF States
    <3>2. QED BY <1>1, <1>5, <1>10, <3>1
  <2>4. mover = Current.stm
    BY DEF mover
  <2>5. QED BY <1>3, <1>6, <1>10, <1>12, <2>1, <2>2, <2>3, <2>4 DEF Follows
<1>14. StopsAt(t, N, S) /\ st.repetition = Stored(t, N, S)
  <2>1. \A k \in 1..(N - 1) : t[k] = u[k]
    BY <1>6, <1>12
  <2>2. /\ t[N].key = u[N].key /\ t[N].hands = u[N].hands /\ t[N].stm = u[N].stm
        /\ t[N].pliesFromNull = u[N].pliesFromNull
        /\ t[N].continuousCheck = u[N].continuousCheck
    BY <1>6, <1>10, <1>12
  <2>3. N \in Nat /\ StopsAt(u, N, S) /\ st.repetition = Stored(u, N, S)
    BY <1>6, <1>8, <1>10
  <2>4. StopsAt(t, N, S) /\ Stored(t, N, S) = Stored(u, N, S)
    BY <2>1, <2>2, <2>3, LastUnread
  <2>5. QED BY <2>3, <2>4
<1>15. \A k \in 1..N : StateInv(t, Append(line, mv), k)
  BY <1>4, <1>10, <1>13, <1>14, GrownKeeps DEF t, N
<1>16. Timeline' = t /\ Len(hist') + 1 = N
  <2>1. Len(hist) \in Nat
    BY LastState
  <2>2. QED BY <1>2, <1>11, <1>12, <2>1 DEF Timeline, t, N
<1>17. hist' \in Seq(States) /\ line' \in Seq(Played) /\ Len(line') = Len(hist') /\ root' \in States
  BY <1>2, <1>7, <1>11, <1>12
<1>18. \A k \in 1..(Len(hist') + 1) : StateInv(Timeline', line', k)
  BY <1>2, <1>15, <1>16
<1>19. QED BY <1>17, <1>18 DEF LineInv

\* So does a null move.
LEMMA NullKeeps ==
    ASSUME LineInv, DoNull
    PROVE  LineInv'
<1> DEFINE mover == Current.stm
           key == Key(Current.key.place, Other(mover))
           st == StateAfterNull(Current, key, Current.hands, mover)
           mv == [null |-> TRUE, by |-> mover, check |-> FALSE]
           N == Len(hist) + 2
           t == <<root>> \o Append(hist, st)
<1>1. hist' = Append(hist, st) /\ line' = Append(line, mv) /\ root' = root
  BY DEF DoNull
<1>2. /\ mover \in Sides /\ Other(mover) \in Sides /\ Other(mover) # mover
      /\ Current.continuousCheck \in [Sides -> Nat]
  BY LastState, Turns DEF States
<1>3. st \in States /\ mv \in Played
  <2>1. key \in [place : [Sides -> Places], stm : Sides]
    BY <1>2, LastState DEF Key, States
  <2>2. [Current.continuousCheck EXCEPT ![mover] = 0] \in [Sides -> Nat] /\ Current.hands \in Hands
    BY <1>2, LastState DEF States
  <2>3. mv \in Played
    BY <1>2 DEF Played
  <2> HIDE DEF mv, key
  <2>4. st \in States
    BY <1>2, <2>1, <2>2 DEF StateAfterNull, States, NotRepeated
  <2>5. QED BY <2>3, <2>4
<1>4. /\ st.stm = Other(mover) /\ st.key.stm = st.stm /\ st.pliesFromNull = 0
      /\ st.continuousCheck[Other(mover)] = Current.continuousCheck[Other(mover)]
      /\ st.continuousCheck[mover] = 0 /\ st.repetition = NotRepeated
      /\ mv.by = mover /\ mv.null /\ ~mv.check
  BY <1>2 DEF StateAfterNull, Key
<1> HIDE DEF st, mv, key
<1>5. /\ Append(hist, st) \in Seq(States) /\ Len(Append(hist, st)) = Len(hist) + 1
      /\ Append(line, mv) \in Seq(Played) /\ Len(Append(line, mv)) = Len(hist) + 1
      /\ N \in Nat /\ N > 1 /\ t[N] = st /\ t[N - 1] = Current /\ Append(line, mv)[N - 1] = mv
  BY <1>3, GrownEnds
<1> HIDE DEF t, N
<1>6. Follows(t, Append(line, mv), N)
  <2> HIDE DEF mover
  <2>1. mover = Current.stm
    BY DEF mover
  <2>2. QED BY <1>3, <1>4, <1>5, <2>1 DEF Follows
<1>7. StopsAt(t, N, {}) /\ st.repetition = Stored(t, N, {})
  <2>1. LookBack(t[N]) = 0
    BY <1>4, <1>5, WindowAssumption DEF LookBack
  <2>2. QED BY <1>4, <1>5, <2>1 DEF StopsAt, Stored
<1>8. \A k \in 1..N : StateInv(t, Append(line, mv), k)
  BY <1>3, <1>6, <1>7, GrownKeeps DEF t, N
<1>9. Timeline' = t /\ Len(hist') + 1 = N /\ root' \in States
  <2>1. Len(hist) \in Nat /\ root \in States
    BY LastState
  <2>2. QED BY <1>1, <1>5, <2>1 DEF Timeline, t, N
<1>10. QED BY <1>1, <1>5, <1>8, <1>9 DEF LineInv

\* The line starts so.
LEMMA StartHolds == LineInit => LineInv
<1> SUFFICES ASSUME LineInit PROVE LineInv
  OBVIOUS
<1>1. PICK first \in Hands : root = RootState(Key(StartPlace, "Black"), first, "Black")
  BY DEF LineInit
<1>2. hist = <<>> /\ line = <<>> /\ hist \in Seq(States) /\ line \in Seq(Played)
      /\ Len(hist) = 0 /\ Len(line) = 0
  BY DEF LineInit
<1>3. root \in States
  <2>1. Key(StartPlace, "Black") \in [place : [Sides -> Places], stm : Sides]
    BY StartAssumption DEF Key, Sides
  <2>2. QED BY <1>1, <2>1 DEF RootState, NotRepeated, States, Sides
<1>4. /\ root.stm = "Black" /\ root.key.stm = "Black" /\ root.pliesFromNull = 0
      /\ root.repetition.times = 0 /\ root.repetition.distance = 0
  BY <1>1 DEF RootState, Key, NotRepeated
<1>5. Timeline[1] = root
  BY <1>2, <1>3, TimelineAt DEF Timeline
<1>6. StateInv(Timeline, line, 1)
  <2>1. TurnInv(Timeline, line, 1)
    BY <1>3, <1>4, <1>5 DEF TurnInv, Side
  <2>2. NullInv(Timeline, line, 1)
    BY <1>4, <1>5 DEF NullInv, NoNull
  <2>3. RunInv(Timeline, line, 1)
    BY DEF RunInv
  <2>4. ChainInv(Timeline, line, 1)
    BY <1>4, <1>5 DEF ChainInv
  <2>5. QED BY <2>1, <2>2, <2>3, <2>4 DEF StateInv
<1>7. QED BY <1>2, <1>3, <1>6 DEF LineInv

\* Every step keeps what holds of the line.
LEMMA LineStep == LineInv /\ [LineNext]_lineVars => LineInv'
<1> SUFFICES ASSUME LineInv, [LineNext]_lineVars PROVE LineInv'
  OBVIOUS
<1>1. CASE LineNext
  BY <1>1, MoveKeeps, NullKeeps, UndoKeeps DEF LineNext
<1>2. CASE UNCHANGED lineVars
  BY <1>2 DEF lineVars, LineInv, Timeline
<1>3. QED BY <1>1, <1>2

\* What the properties say of the line, in the terms of its invariant.
LEMMA InLineTerms ==
    ASSUME LineInv, NEW i \in 1..Now
    PROVE  /\ Now = Len(hist) + 1 /\ Current = Timeline[Now]
           /\ SameBoard(i) <=> Timeline[i].key = Timeline[Now].key
           /\ SamePosition(i) <=> SameAt(Timeline, i, Now)
           /\ Connected(i) <=> NoNull(line, i, Now)
           /\ \A c \in Sides : CheckedSince(c, i) <=> ChecksOf(line, c, i, Now)
<1>1. Now = Len(hist) + 1 /\ Now \in Nat /\ Current = Timeline[Now] /\ Len(line) = Now - 1
  BY LastState DEF Now
<1>2. \A n \in i..Len(line) : n \in 1..(Now - 1) /\ n >= i
  BY <1>1
<1>3. \A n \in 1..(Now - 1) : n >= i => n \in i..Len(line)
  BY <1>1
<1>4. Connected(i) <=> NoNull(line, i, Now)
  BY <1>1 DEF Connected, NoNull
<1>5. \A c \in Sides : CheckedSince(c, i) <=> ChecksOf(line, c, i, Now)
  BY <1>2, <1>3 DEF CheckedSince, ChecksOf
<1>6. QED BY <1>1, <1>4, <1>5 DEF SameBoard, SamePosition, SameAt

\* The walk back stops at the earlier states a player would answer about, and
\* its verdict is the player's answer.
LEMMA StopsAreEarlier ==
    ASSUME LineInv, hist # <<>>, NEW d \in 4..(Now - 1)
    PROVE  /\ d \in Stops(hist, root) <=>
                /\ d <= MaxRepetitionPly
                /\ SameBoard(Now - d) /\ Connected(Now - d) /\ Answer(Now - d) # "None"
           /\ d \in Stops(hist, root) =>
                Verdict(hist[Len(hist)], StateBack(hist, root, d), d) = Answer(Now - d)
<1> DEFINE t == Timeline
           N == Now
           S == Stops(hist, root)
           i == Now - d
           now == t[N].hands[t[N].stm]
           then == t[i].hands[t[N].stm]
<1>1. /\ N = Len(hist) + 1 /\ N \in Nat /\ N > 1 /\ hist \in Seq(States) /\ root \in States
      /\ i \in 1..(N - 1) /\ i \in 1..N /\ N - d = i /\ d \in 0..(N - 1) /\ d \in 2..N /\ d < N
      /\ d \in 1..Len(hist)
  <2>1. N = Len(hist) + 1 /\ Len(hist) \in Nat /\ hist \in Seq(States) /\ root \in States
    BY LastState DEF Now
  <2>2. QED BY <2>1
<1>2. /\ Current = t[N] /\ (SameBoard(i) <=> t[i].key = t[N].key)
      /\ SamePosition(i) <=> SameAt(t, i, N)
      /\ Connected(i) <=> NoNull(line, i, N)
      /\ \A c \in Sides : CheckedSince(c, i) <=> ChecksOf(line, c, i, N)
  BY <1>1, InLineTerms
<1>3. Current = hist[Len(hist)]
  BY DEF Current
<1>4. StopsAt(t, N, S) /\ StateBack(hist, root, d) = t[i]
  BY <1>1, StopsAre DEF Timeline
<1>5. TurnInv(t, line, N) /\ NullInv(t, line, N) /\ RunInv(t, line, N) /\ TurnInv(t, line, i)
  <2>1. i \in 1..(Len(hist) + 1) /\ N \in 1..(Len(hist) + 1)
    BY <1>1
  <2> HIDE DEF t, N, i
  <2>2. QED BY <2>1 DEF LineInv, StateInv, t
<1>6. t[N].stm = Side(N) /\ t[i].key.stm = Side(i) /\ t[N].key.stm = Side(N)
      /\ t[N].pliesFromNull \in Nat
  BY <1>5 DEF TurnInv, States
<1> HIDE DEF t, N, i, S
<1>7. d <= LookBack(t[N]) <=> d <= MaxRepetitionPly /\ NoNull(line, i, N)
  <2>1. d <= LookBack(t[N]) <=> d <= MaxRepetitionPly /\ d <= t[N].pliesFromNull
    BY <1>1, <1>6, WindowAssumption DEF LookBack
  <2>2. d <= t[N].pliesFromNull <=> NoNull(line, i, N)
    BY <1>1, <1>5 DEF NullInv
  <2>3. QED BY <2>1, <2>2
<1>8. t[i].key = t[N].key => d % 2 = 0
  <2>1. d \in Nat /\ d <= N
    BY <1>1
  <2>2. Side(N - d) = Side(N) <=> d % 2 = 0
    BY <1>1, <2>1, Turns
  <2>3. t[i].key = t[N].key => Side(i) = Side(N)
    BY <1>6
  <2>4. QED BY <1>1, <2>2, <2>3
<1>9. Answer(i) = IF t[i].key = t[N].key /\ t[i].hands = t[N].hands
                  THEN IF ChecksOf(line, Side(N), i, N) THEN "Lose"
                       ELSE IF ChecksOf(line, Other(Side(N)), i, N) THEN "Win" ELSE "Draw"
                  ELSE IF EqualOrSuperior(now, then) THEN "Superior"
                  ELSE IF EqualOrSuperior(then, now) THEN "Inferior" ELSE "None"
  <2>1. Side(N) \in Sides /\ Other(Side(N)) \in Sides
    BY <1>1, Turns
  <2>2. SamePosition(i) <=> t[i].key = t[N].key /\ t[i].hands = t[N].hands
    BY <1>2 DEF SameAt
  <2>3. Timeline[i].hands = t[i].hands
    BY DEF t
  <2>4. QED BY <1>2, <1>6, <2>1, <2>2, <2>3 DEF Answer
<1>10. Matches(t[N], t[i]) <=>
         /\ t[i].key = t[N].key
         /\ t[i].hands = t[N].hands \/ EqualOrSuperior(now, then) \/ EqualOrSuperior(then, now)
  BY DEF Matches
<1> HIDE DEF now, then
<1>11. t[i].key = t[N].key => (Matches(t[N], t[i]) <=> Answer(i) # "None")
  BY <1>9, <1>10
<1>12. d \in S <=> d <= LookBack(t[N]) /\ d % 2 = 0 /\ Matches(t[N], t[i])
  <2>1. d \in 4..(N - 1)
    BY DEF N
  <2>2. QED BY <1>1, <1>4, <2>1 DEF StopsAt
<1>13. d \in S <=>
         d <= MaxRepetitionPly /\ SameBoard(i) /\ Connected(i) /\ Answer(i) # "None"
  BY <1>2, <1>7, <1>8, <1>10, <1>11, <1>12
<1>14. d \in S => Verdict(t[N], t[i], d) = Answer(i)
  <2> SUFFICES ASSUME d \in S PROVE Verdict(t[N], t[i], d) = Answer(i)
    OBVIOUS
  <2>1. /\ d <= t[N].continuousCheck[t[N].stm] <=> ChecksOf(line, Side(N), i, N)
        /\ d <= t[N].continuousCheck[Other(t[N].stm)] <=> ChecksOf(line, Other(Side(N)), i, N)
    <3>1. d \in 4..(N - 1) /\ d % 2 = 0 /\ d <= LookBack(t[N])
      BY <1>12 DEF N
    <3>2. QED BY <1>1, <1>5, <3>1, Distances
  <2>2. Verdict(t[N], t[i], d) =
          IF t[i].hands = t[N].hands
          THEN IF d <= t[N].continuousCheck[t[N].stm] THEN "Lose"
               ELSE IF d <= t[N].continuousCheck[Other(t[N].stm)] THEN "Win" ELSE "Draw"
          ELSE IF EqualOrSuperior(now, then) THEN "Superior" ELSE "Inferior"
    BY DEF Verdict, now, then
  <2>3. t[i].key = t[N].key /\ (t[i].hands = t[N].hands \/ EqualOrSuperior(now, then)
                                \/ EqualOrSuperior(then, now))
    BY <1>10, <1>12
  <2>4. QED BY <1>9, <2>1, <2>2, <2>3
<1>15. QED BY <1>2, <1>3, <1>4, <1>13, <1>14 DEF t, N, i, S

\* The quick-draw query is exact on every line the invariant describes.
LEMMA QuickIsExact == LineInv => QuickExact
<1> SUFFICES ASSUME LineInv PROVE QuickExact
  OBVIOUS
<1> DEFINE Earlier == {i \in 1..(Now - 4) :
                         /\ Now - i <= MaxRepetitionPly
                         /\ SameBoard(i) /\ Connected(i) /\ Answer(i) # "None"}
           S == Stops(hist, root)
           latest == CHOOSE i \in Earlier : \A j \in Earlier : j <= i
<1> SUFFICES QuickRepetition(hist, root) = IF Earlier = {} THEN "None" ELSE Answer(latest)
  BY DEF QuickExact
<1>1. Now = Len(hist) + 1 /\ Len(hist) \in Nat /\ hist \in Seq(States) /\ root \in States
  BY LastState DEF Now
<1>2. CASE hist = <<>>
  <2>1. Earlier = {}
    <3>1. Now = 1
      BY <1>1, <1>2
    <3>2. QED BY <3>1
  <2> HIDE DEF Earlier
  <2>2. QED BY <1>2, <2>1 DEF QuickRepetition
<1>3. CASE hist # <<>>
  <2>1. \A d \in 4..(Now - 1) :
          /\ d \in S <=> (Now - d) \in Earlier
          /\ d \in S => Verdict(hist[Len(hist)], StateBack(hist, root, d), d) = Answer(Now - d)
    <3> SUFFICES ASSUME NEW d \in 4..(Now - 1)
                 PROVE  /\ d \in S <=> (Now - d) \in Earlier
                        /\ d \in S =>
                             Verdict(hist[Len(hist)], StateBack(hist, root, d), d) = Answer(Now - d)
      OBVIOUS
    <3>1. Now - d \in 1..(Now - 4) /\ Now - (Now - d) = d
      BY <1>1
    <3>2. /\ d \in S <=>
                /\ d <= MaxRepetitionPly
                /\ SameBoard(Now - d) /\ Connected(Now - d) /\ Answer(Now - d) # "None"
          /\ d \in S =>
                Verdict(hist[Len(hist)], StateBack(hist, root, d), d) = Answer(Now - d)
      BY <1>3, StopsAreEarlier
    <3> HIDE DEF S
    <3>3. QED BY <3>1, <3>2
  <2>2. S \subseteq Nat /\ S \subseteq 4..(Now - 1)
    <3>1. StopsAt(Timeline, Now, S)
      BY <1>1, <1>3, StopsAre DEF Timeline
    <3> HIDE DEF S
    <3>2. QED BY <1>1, <3>1 DEF StopsAt
  <2>3. Earlier \subseteq 1..(Now - 4)
    OBVIOUS
  <2> HIDE DEF Earlier, S
  <2>4. CASE S = {}
    <3>1. Earlier = {}
      <4> SUFFICES ASSUME NEW i \in Earlier PROVE FALSE
        OBVIOUS
      <4>1. Now - i \in 4..(Now - 1) /\ Now - (Now - i) = i
        BY <1>1, <2>3
      <4>2. QED BY <2>1, <2>4, <4>1
    <3>2. QED BY <2>4, <3>1 DEF QuickRepetition, S
  <2>5. CASE S # {}
    <3> DEFINE near == Nearest(S)
    <3>1. near \in S /\ (\A j \in S : near <= j) /\ near \in 4..(Now - 1)
      BY <2>2, <2>5, NearestIsLeast
    <3> HIDE DEF near
    <3>2. (Now - near) \in Earlier
      BY <2>1, <3>1
    <3>3. \A j \in Earlier : j <= Now - near
      <4> SUFFICES ASSUME NEW j \in Earlier PROVE j <= Now - near
        OBVIOUS
      <4>1. Now - j \in 4..(Now - 1) /\ Now - (Now - j) = j
        BY <1>1, <2>3
      <4>2. near <= Now - j
        BY <2>1, <3>1, <4>1
      <4>3. QED BY <1>1, <2>3, <3>1, <4>2
    <3>4. latest \in Earlier /\ \A j \in Earlier : j <= latest
      BY <3>2, <3>3
    <3> HIDE DEF latest
    <3>5. latest = Now - near
      <4>1. latest \in Int /\ Now - near \in Int
        BY <1>1, <2>3, <3>1, <3>4
      <4>2. latest <= Now - near /\ Now - near <= latest
        BY <3>2, <3>3, <3>4
      <4>3. QED BY <4>1, <4>2
    <3>6. QuickRepetition(hist, root) = Verdict(hist[Len(hist)], StateBack(hist, root, near), near)
      BY <1>3, <2>5 DEF QuickRepetition, S, near
    <3>7. QED BY <2>1, <3>1, <3>2, <3>5, <3>6
  <2>6. QED BY <2>4, <2>5
<1>4. QED BY <1>2, <1>3

\* What is stored with the last state, and what is reported of it at any ply.
LEMMA StoredIsRight == LineInv => StoredRight
<1> SUFFICES ASSUME LineInv PROVE StoredRight
  OBVIOUS
<1> DEFINE t == Timeline
           N == Now
           r == t[N].repetition
           Here(i) == {n \in i..(N - 1) : SamePosition(n)}
<1>1. /\ N = Len(hist) + 1 /\ N \in Nat /\ N >= 1 /\ Current = t[N] /\ t[N] \in States
      /\ t[N].stm = Side(N) /\ Side(N) \in Sides /\ Other(Side(N)) \in Sides
  <2>1. N = Len(hist) + 1 /\ Len(hist) \in Nat /\ TurnInv(t, line, N) /\ Current = t[N]
    BY LastState DEF Now
  <2> HIDE DEF N, t
  <2>2. N \in Nat /\ N >= 1
    BY <2>1
  <2>3. t[N] \in States /\ t[N].stm = Side(N)
    BY <2>1 DEF TurnInv
  <2>4. Side(N) \in Sides /\ Other(Side(N)) \in Sides
    BY <2>2, Turns
  <2>5. QED BY <2>1, <2>2, <2>3, <2>4
<1>2. \A i \in 1..N : /\ SameBoard(i) <=> t[i].key = t[N].key
                      /\ SamePosition(i) <=> SameAt(t, i, N)
                      /\ Connected(i) <=> NoNull(line, i, N)
                      /\ \A c \in Sides : CheckedSince(c, i) <=> ChecksOf(line, c, i, N)
  BY InLineTerms
<1>3. ChainInv(t, line, N)
  <2>1. N \in 1..(Len(hist) + 1)
    BY <1>1
  <2> HIDE DEF N, t
  <2>2. QED BY <2>1 DEF LineInv, StateInv, t
<1>4. r.times \in Nat /\ r.distance \in Int
  BY <1>1 DEF States
<1> HIDE DEF t, N, r
<1>5. \A i \in 1..(N - 1) : Here(i) = Occurrences(t, i, N)
  <2>1. \A i \in 1..(N - 1) : \A n \in i..(N - 1) : n \in 1..N
    BY <1>1
  <2>2. QED BY <1>2, <2>1 DEF Occurrences
<1> HIDE DEF Here
<1>6. r.times > 0 =>
        \E i \in 1..(N - 1) :
            /\ SamePosition(i) /\ Connected(i)
            /\ Cardinality(Here(i)) = r.times
            /\ r.type = "Lose" => CheckedSince(Side(N), i)
            /\ r.type = "Win" => CheckedSince(Other(Side(N)), i)
  <2> SUFFICES ASSUME r.times > 0
               PROVE  \E i \in 1..(N - 1) :
                          /\ SamePosition(i) /\ Connected(i)
                          /\ Cardinality(Here(i)) = r.times
                          /\ r.type = "Lose" => CheckedSince(Side(N), i)
                          /\ r.type = "Win" => CheckedSince(Other(Side(N)), i)
    OBVIOUS
  <2>1. PICK i \in 1..(N - 1) :
            /\ SameAt(t, i, N) /\ NoNull(line, i, N)
            /\ Cardinality(Occurrences(t, i, N)) = r.times
            /\ r.type = "Lose" => ChecksOf(line, Side(N), i, N)
            /\ r.type = "Win" => ChecksOf(line, Other(Side(N)), i, N)
    BY <1>3 DEF ChainInv, r
  <2>2. i \in 1..N
    BY <1>1
  <2>3. QED BY <1>1, <1>2, <1>5, <2>1, <2>2
<1>7. ChainSound
  <2>1. Current.stm = Side(N) /\ Current.repetition = r
    BY <1>1 DEF r
  <2>2. QED BY <1>6, <2>1 DEF ChainSound, N, Here
<1>8. ASSUME NEW ply \in 0..Len(hist), ChainedRepetition(hist, ply) # "None"
      PROVE  \/ Cardinality({i \in 1..N : SamePosition(i)}) >= 4
             \/ \E i \in (N - ply + 1)..(N - 4) : SameBoard(i)
  <2>1. r.distance # 0 /\ r.distance < ply
    <3>1. hist # <<>> /\ hist[Len(hist)].repetition.distance # 0
          /\ hist[Len(hist)].repetition.distance < ply
      BY <1>8 DEF ChainedRepetition
    <3>2. Current.repetition = r
      BY <1>1 DEF r
    <3>3. QED BY <3>1, <3>2 DEF Current
  <2>2. CASE r.distance > 0
    <3>1. r.distance \in 4..(N - 1) /\ t[N - r.distance].key = t[N].key
      BY <1>3, <2>2 DEF ChainInv, r
    <3>2. N - r.distance \in 1..N /\ N - r.distance \in (N - ply + 1)..(N - 4)
      BY <1>1, <1>4, <2>1, <3>1
    <3>3. QED BY <1>2, <3>1, <3>2
  <2>3. CASE r.distance < 0
    <3> DEFINE All == {i \in 1..N : SamePosition(i)}
    <3>1. r.times >= 3
      BY <1>3, <2>3 DEF ChainInv, r
    <3>2. PICK i \in 1..(N - 1) : Cardinality(Here(i)) = r.times
      BY <1>4, <1>6, <3>1
    <3>3. Here(i) \cup {N} \subseteq All /\ N \notin Here(i)
      <4>1. \A n \in i..(N - 1) : n \in 1..N /\ n # N
        BY <1>1
      <4>2. N \in 1..N /\ SameAt(t, N, N)
        BY <1>1 DEF SameAt
      <4>3. QED BY <1>2, <4>1, <4>2 DEF Here
    <3>4. IsFiniteSet(All)
      <4>1. IsFiniteSet(1..N) /\ All \subseteq 1..N
        BY <1>1, FS_Interval
      <4> HIDE DEF All
      <4>2. QED BY <4>1, FS_Subset
    <3> HIDE DEF All
    <3>5. IsFiniteSet(Here(i)) /\ IsFiniteSet(Here(i) \cup {N})
      <4>1. Here(i) \subseteq All
        BY <3>3
      <4>2. QED BY <3>3, <3>4, <4>1, FS_Subset
    <3>6. Cardinality(Here(i) \cup {N}) = r.times + 1
      BY <3>2, <3>3, <3>5, FS_AddElement
    <3>7. Cardinality(Here(i) \cup {N}) <= Cardinality(All)
      BY <3>3, <3>4, FS_Subset
    <3>8. Cardinality(All) \in Nat
      BY <3>4, FS_CardinalityType
    <3>9. Cardinality(All) >= 4
      BY <1>4, <3>1, <3>6, <3>7, <3>8
    <3>10. QED BY <3>9 DEF All
  <2>4. QED BY <1>4, <2>1, <2>2, <2>3
<1>9. ReportedRightly
  BY <1>8 DEF ReportedRightly, N
<1>10. QED BY <1>7, <1>9 DEF StoredRight

\* is_repetition of the quick-draw build answers for the latest earlier state on
\* the same board whose hands can be compared, within the window and since the
\* last null move, and says Lose or Win exactly when that side has been checking
\* all the way: whatever the moves, the checks and the hands.
THEOREM QuickExactAlways == LineSpec => []QuickExact
<1>1. LineSpec => []LineInv
  BY StartHolds, LineStep, PTL DEF LineSpec
<1>2. QED BY <1>1, QuickIsExact, PTL

\* What compute_repetition of the other build stores with each state counts its
\* real occurrences, with a perpetual verdict only for a side that checked since
\* the first of them; and what is_repetition reports at a search root is a
\* fourfold repetition, inside the search one of a state after the root.
THEOREM StoredRightAlways == LineSpec => []StoredRight
<1>1. LineSpec => []LineInv
  BY StartHolds, LineStep, PTL DEF LineSpec
<1>2. QED BY <1>1, StoredIsRight, PTL

=============================================================================
