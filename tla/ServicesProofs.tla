--------------------------- MODULE ServicesProofs ---------------------------
(***************************************************************************)
(* Theorems about the services.                                            *)
(*                                                                         *)
(* The histories: an update pulls an entry towards its bonus and never     *)
(* beyond the bound of its table, whatever update is loaded before, and    *)
(* stored after, another; so every entry of every table stays within its   *)
(* bound, no update falls into the sentinel's plane and a correction is    *)
(* small (LearnsSound).                                                    *)
(*                                                                         *)
(* The budget of a go: for every clock, every setting of the options and   *)
(* every moment of the ponderhit, plan and end time keep to the clock      *)
(* (TimeRight).                                                            *)
(*                                                                         *)
(* The clock of a search that ponders: an end time stays within the clock, *)
(* is fixed once, never while pondering, and at a checkpoint counts from   *)
(* the ponderhit, for every set of budgets, length of a second and bound   *)
(* (PonderTime).                                                           *)
(*                                                                         *)
(* The outcome of a go: the workers' vote and the score carried to the     *)
(* next go (VoteAndCarryRight).                                            *)
(***************************************************************************)
EXTENDS MCServices, PonderTime, FiniteSetTheorems, TLAPS

----------------------------------------------------------------------------
(* Gravity.                                                                *)

Within(x, d) == -d <= x /\ x <= d

\* A product with a natural grows with its factor.
LEMMA ProductGrows ==
    ASSUME NEW a \in Int, NEW b \in Int, NEW c \in Int, a <= b, 0 <= c
    PROVE  a * c <= b * c
BY Z3

\* The quotient of two naturals is the integer below the fraction.
LEMMA QuotientBelow ==
    ASSUME NEW n \in Nat, NEW d \in Nat \ {0}
    PROVE  /\ n \div d \in Nat
           /\ d * (n \div d) <= n
           /\ n < d * (n \div d) + d
BY Z3

\* What is taken off a natural entry: no more than the entry or the bonus, and
\* enough to keep the sum of both within the bound.
LEMMA TakenOff ==
    ASSUME NEW e \in Nat, NEW c \in Nat, NEW d \in Nat \ {0}, e <= d, c <= d
    PROVE  /\ (e * c) \div d \in Nat
           /\ (e * c) \div d <= e
           /\ (e * c) \div d <= c
           /\ e + c - d <= (e * c) \div d
<1> DEFINE q == (e * c) \div d
<1>1. /\ e * c \in Nat
      /\ q \in Nat /\ d * q <= e * c /\ e * c < d * q + d
    BY QuotientBelow, Z3
<1>2. q <= e
    <2> SUFFICES ASSUME e + 1 <= q PROVE FALSE
        BY <1>1
    <2>1. (e + 1) * d <= q * d
        BY <1>1, ProductGrows
    <2>2. c * e <= d * e
        BY ProductGrows
    <2> QED BY <1>1, <2>1, <2>2, Z3
<1>3. q <= c
    <2> SUFFICES ASSUME c + 1 <= q PROVE FALSE
        BY <1>1
    <2>1. (c + 1) * d <= q * d
        BY <1>1, ProductGrows
    <2>2. e * c <= d * c
        BY ProductGrows
    <2> QED BY <1>1, <2>1, <2>2, Z3
<1>4. e + c - d <= q
    <2> SUFFICES ASSUME q + 1 <= e + c - d PROVE FALSE
        BY <1>1
    <2>1. (q + 1) * d <= (e + c - d) * d
        BY <1>1, ProductGrows
    <2>2. 0 * (d - c) <= (d - e) * (d - c)
        BY ProductGrows
    <2> QED BY <1>1, <2>1, <2>2, Z3
<1> QED BY <1>1, <1>2, <1>3, <1>4

----------------------------------------------------------------------------
\* (apply_gravity, history.rs) For every entry within the bound of its table and
\* every bonus, however large, the entry it becomes is within the bound.
THEOREM GravityBounded ==
    ASSUME NEW d \in Nat \ {0}, NEW entry \in Int, NEW bonus \in Int, Within(entry, d)
    PROVE  apply_gravity(entry, bonus, d) \in Int /\ Within(apply_gravity(entry, bonus, d), d)
<1> DEFINE c == Clamp(bonus, -d, d)
           off == Quot(entry * AbsOf(c), d)
<1>1. c \in Int /\ -d <= c /\ c <= d /\ AbsOf(c) \in Nat /\ AbsOf(c) <= d
    BY DEF Clamp, AbsOf
<1>2. apply_gravity(entry, bonus, d) = entry + c - off
    BY DEF apply_gravity
<1>3. CASE entry >= 0
    <2>1. entry * AbsOf(c) \in Nat
        BY <1>1, <1>3, Z3
    <2>2. off = (entry * AbsOf(c)) \div d
        BY <2>1 DEF Quot
    <2>3. entry \in Nat /\ entry <= d
        BY <1>3 DEF Within
    <2>4. /\ off \in Nat /\ off <= entry /\ off <= AbsOf(c) /\ entry + AbsOf(c) - d <= off
        BY <1>1, <2>2, <2>3, TakenOff
    <2> HIDE DEF c, off
    <2>5. (c >= 0 => AbsOf(c) = c) /\ (c < 0 => AbsOf(c) = -c)
        BY <1>1 DEF AbsOf
    <2> QED BY <1>1, <1>2, <2>3, <2>4, <2>5 DEF Within
<1>4. CASE entry < 0
    <2>1. (-entry) * AbsOf(c) \in Nat /\ -(entry * AbsOf(c)) = (-entry) * AbsOf(c)
        BY <1>1, <1>4, Z3
    <2>2. off = -(((-entry) * AbsOf(c)) \div d)
        <3>1. CASE entry * AbsOf(c) >= 0
            <4>1. entry * AbsOf(c) = 0 /\ (-entry) * AbsOf(c) = 0
                BY <1>1, <2>1, <3>1
            <4>2. 0 \div d = 0
                BY Z3
            <4> QED BY <4>1, <4>2 DEF Quot
        <3>2. CASE ~(entry * AbsOf(c) >= 0)
            BY <2>1, <3>2 DEF Quot
        <3> QED BY <3>1, <3>2
    <2>3. -entry \in Nat /\ -entry <= d
        BY <1>4 DEF Within
    <2>4. /\ off \in Int /\ -off <= -entry /\ -off <= AbsOf(c) /\ -entry + AbsOf(c) - d <= -off
        <3> DEFINE q == ((-entry) * AbsOf(c)) \div d
        <3>1. q \in Nat /\ q <= -entry /\ q <= AbsOf(c) /\ -entry + AbsOf(c) - d <= q
            BY <1>1, <2>3, TakenOff
        <3>2. off = -q
            BY <2>2
        <3> HIDE DEF q, off
        <3> QED BY <1>1, <3>1, <3>2
    <2> HIDE DEF c, off
    <2>5. (c >= 0 => AbsOf(c) = c) /\ (c < 0 => AbsOf(c) = -c)
        BY <1>1 DEF AbsOf
    <2> QED BY <1>1, <1>2, <2>3, <2>4, <2>5 DEF Within
<1> QED BY <1>3, <1>4


----------------------------------------------------------------------------
(* From entries to tables.                                                 *)

Tables == DOMAIN D
EntriesWithin(entries) ==
    \A e \in DOMAIN entries :
        e[1] \in Tables /\ entries[e] \in Int /\ Within(entries[e], D[e[1]])

\* A table has a positive bound, and what a new worker fills it with is within it.
LEMMA TableBounds ==
    ASSUME NEW t \in Tables
    PROVE  D[t] \in Nat \ {0} /\ Fresh[t] \in Int /\ Within(Fresh[t], D[t])
BY DEF Tables, D, Fresh, Within

\* What has not been written reads as what the table was filled with.
LEMMA ReadWithin ==
    ASSUME NEW entries, EntriesWithin(entries), NEW e, e[1] \in Tables,
           fill \in {"fresh", "high", "low"}
    PROVE  Read(entries, e) \in Int /\ Within(Read(entries, e), D[e[1]])
<1>1. CASE e \in DOMAIN entries
    BY <1>1 DEF Read, EntriesWithin
<1>2. CASE e \notin DOMAIN entries
    <2>1. D[e[1]] \in Nat \ {0} /\ Fresh[e[1]] \in Int /\ Within(Fresh[e[1]], D[e[1]])
        BY TableBounds
    <2>2. FillOf(e[1]) \in Int /\ Within(FillOf(e[1]), D[e[1]])
        BY <2>1 DEF FillOf, Within
    <2> QED BY <1>2, <2>2 DEF Read
<1> QED BY <1>1, <1>2

\* Writing a value within its bound leaves every entry within its bound.
LEMMA WriteWithin ==
    ASSUME NEW entries, EntriesWithin(entries), NEW e, e[1] \in Tables,
           NEW v \in Int, Within(v, D[e[1]])
    PROVE  EntriesWithin(Write(entries, e, v))
BY DEF EntriesWithin, Write

\* (update of every table) An update of an entry of any table leaves every entry
\* of all tables within its bound, whatever filled the tables at the start.
THEOREM UpdateKeepsBounds ==
    ASSUME NEW entries, EntriesWithin(entries), NEW u, u.entry[1] \in Tables, u.bonus \in Int,
           fill \in {"fresh", "high", "low"}
    PROVE  EntriesWithin(AfterUpdate(entries, u))
<1>1. D[u.entry[1]] \in Nat \ {0}
    BY TableBounds
<1>2. Read(entries, u.entry) \in Int /\ Within(Read(entries, u.entry), D[u.entry[1]])
    BY ReadWithin
<1> DEFINE v == apply_gravity(Read(entries, u.entry), u.bonus, D[u.entry[1]])
<1>3. v \in Int /\ Within(v, D[u.entry[1]])
    BY <1>1, <1>2, GravityBounded
<1> HIDE DEF v
<1>4. EntriesWithin(Write(entries, u.entry, v))
    BY <1>3, WriteWithin
<1> QED BY <1>4 DEF AfterUpdate, v

\* (apply_gravity_atomic) A store made from an entry loaded some time ago, while
\* other workers have stored others there, still leaves every shared entry within
\* its bound.
THEOREM LateStoreKeepsBounds ==
    ASSUME NEW w \in Workers, StoreShared(w), EntriesWithin(shared),
           Head(todo[w]).entry[1] \in Tables, Head(todo[w]).bonus \in Int,
           loaded[w][1] \in Int, Within(loaded[w][1], D[Head(todo[w]).entry[1]])
    PROVE  EntriesWithin(shared')
<1> DEFINE u == Head(todo[w])
           v == apply_gravity(loaded[w][1], u.bonus, D[u.entry[1]])
<1>1. D[u.entry[1]] \in Nat \ {0}
    BY TableBounds
<1>2. v \in Int /\ Within(v, D[u.entry[1]])
    BY <1>1, GravityBounded
<1>3. shared' = Write(shared, u.entry, v)
    BY DEF StoreShared
<1> HIDE DEF u, v
<1>4. EntriesWithin(Write(shared, u.entry, v))
    BY <1>2, WriteWithin DEF u
<1> QED BY <1>3, <1>4

----------------------------------------------------------------------------
(* What the workers learn: the updates of a node.                           *)

EntriesGood(n, entries) ==
    /\ EntriesWithin(entries)
    /\ \A e \in DOMAIN entries : e[1] = "continuation" => e[2] >= PlaneLen

MalusInt(n, malus) == malus \in Int

Malus == INSTANCE FoldProofs WITH Op <- Shrunk, Holds <- MalusInt
Own == INSTANCE FoldProofs WITH Op <- AfterOwn, Holds <- EntriesGood

GoodMoves ==
    {m \in [piece : RealPieces, to : 0..(BoardSquares - 1), raw : Nat,
            captured : RealPieces \cup {Nothing}, promote : BOOLEAN] : PlaneOf(m.piece, m.to) # 0}

\* A cell that holds a move has that move's plane, which is not the sentinel's.
Cells ==
    {c \in [move : GoodMoves \cup {NoMove, NullMove}, contHist : Nat, contCorr : Nat,
            inCheck : BOOLEAN, ttHit : BOOLEAN, moveCount : Nat, statScore : Int,
            fresh : BOOLEAN, own : SUBSET {"verify", "singular"}] : IsOk(c) => c.contHist >= 1}

\* An update that leaves the sentinel's plane alone.
Updates ==
    {u \in [entry : Tables \X Int, bonus : Int] :
        u.entry[1] = "continuation" => u.entry[2] >= PlaneLen}

\* An update of an entry outside the sentinel's plane is one of these.
LEMMA UpdateIs ==
    ASSUME NEW t \in Tables, NEW i \in Int, NEW b \in Int, t = "continuation" => i >= PlaneLen
    PROVE  Update(t, i, b) \in Updates
BY DEF Update, Updates

\* The division of i32 yields an integer.
LEMMA QuotInt ==
    ASSUME NEW a \in Int, NEW d \in Nat \ {0}
    PROVE  Quot(a, d) \in Int
BY Z3 DEF Quot

\* Where pieces and squares lie in the tables.
LEMMA Places ==
    ASSUME NEW pc \in RealPieces, NEW to \in 0..(BoardSquares - 1)
    PROVE  /\ piece_code(pc) \in 0..(PieceNb - 1)
           /\ PlaneOf(pc, to) \in 0..(PlaneLen - 1)
           /\ \A plane \in Nat : /\ ContinuationCell(plane, pc, to) \in Nat
                                 /\ plane >= 1 => ContinuationCell(plane, pc, to) >= PlaneLen
           /\ \A c, d \in BOOLEAN : PlaneIndex(c, d, pc, to) \in Nat
                                    /\ PlaneIndex(c, d, pc, to) >= PlaneOf(pc, to)
<1>1. piece_code(pc) \in 0..(PieceNb - 1)
  BY DEF RealPieces, AllPieces, piece_code, One, PieceNb
<1>2. PlaneOf(pc, to) \in 0..(PlaneLen - 1)
  BY <1>1 DEF PlaneOf, PlaneLen, PieceNb, BoardSquares
<1>3. \A plane \in Nat : /\ ContinuationCell(plane, pc, to) \in Nat
                         /\ plane >= 1 => ContinuationCell(plane, pc, to) >= PlaneLen
  <2>1. PlaneLen = 2592
    BY DEF PlaneLen, PieceNb, BoardSquares
  <2>2. ASSUME NEW plane \in Nat
        PROVE  /\ ContinuationCell(plane, pc, to) \in Nat
               /\ plane >= 1 => ContinuationCell(plane, pc, to) >= PlaneLen
    <3>1. ContinuationCell(plane, pc, to) = plane * 2592 + PlaneOf(pc, to)
      BY <2>1 DEF ContinuationCell
    <3>2. PlaneOf(pc, to) \in Nat
      BY <1>1 DEF PlaneOf, BoardSquares, PieceNb
    <3>3. QED BY <2>1, <3>1, <3>2
  <2>3. QED BY <2>2
<1>4. \A c, d \in BOOLEAN : PlaneIndex(c, d, pc, to) \in Nat
                            /\ PlaneIndex(c, d, pc, to) >= PlaneOf(pc, to)
  BY <1>1 DEF PlaneIndex, PlaneOf, One, PieceNb, BoardSquares
<1>5. QED BY <1>1, <1>2, <1>3, <1>4

\* A list of updates under a condition is a list of updates.
LEMMA WhenOver ==
    ASSUME NEW cond, NEW s \in Seq(Updates)
    PROVE  When(cond, s) \in Seq(Updates)
BY DEF When

\* A continuation history of a move learns outside the sentinel's plane.
LEMMA ContinuationUpdates ==
    ASSUME NEW st \in Seq(Cells), NEW ss \in StackBase..Len(st), NEW pc \in RealPieces,
           NEW to \in 0..(BoardSquares - 1), NEW bonus \in Int
    PROVE  UpdateContinuationHistories(st, ss, pc, to, bonus) \in Seq(Updates)
<1> DEFINE n == IF st[ss].inCheck THEN 2 ELSE 6
           u(i) == Update("continuation", ContinuationCell(st[ss - i].contHist, pc, to),
                          Quot(bonus * ConthistWeights[i], 1024) + 88 * One(i < 2))
           list == [i \in 1..n |-> When(IsOk(st[ss - i]), <<u(i)>>)]
<1>1. n \in Nat /\ n <= 6
  OBVIOUS
<1>2. ASSUME NEW i \in 1..n PROVE list[i] \in Seq(Updates)
  <2>1. ss - i \in 1..Len(st) /\ st[ss - i] \in Cells
    BY <1>1 DEF StackBase
  <2>2. CASE ~IsOk(st[ss - i])
    BY <2>2 DEF When
  <2>3. CASE IsOk(st[ss - i])
    <3>1. st[ss - i].contHist \in Nat /\ st[ss - i].contHist >= 1
      BY <2>1, <2>3 DEF Cells
    <3>2. /\ ContinuationCell(st[ss - i].contHist, pc, to) \in Int
          /\ ContinuationCell(st[ss - i].contHist, pc, to) >= PlaneLen
      BY <3>1, Places
    <3>3. ConthistWeights[i] \in Int /\ One(i < 2) \in Int
      BY <1>1 DEF ConthistWeights, One
    <3>4. bonus * ConthistWeights[i] \in Int
      BY <3>3
    <3>5. Quot(bonus * ConthistWeights[i], 1024) + 88 * One(i < 2) \in Int
      <4> DEFINE b == bonus * ConthistWeights[i]
      <4>1. b \in Int
        BY <3>4
      <4> HIDE DEF b
      <4>2. Quot(b, 1024) \in Int
        BY <4>1, QuotInt
      <4>3. Quot(b, 1024) + 88 * One(i < 2) \in Int
        BY <3>3, <4>2
      <4>4. QED BY <4>3 DEF b
    <3>6. "continuation" \in Tables
      BY DEF Tables, D
    <3>7. u(i) \in Updates
      BY <3>2, <3>5, <3>6, UpdateIs
    <3> HIDE DEF u
    <3>8. QED BY <2>3, <3>7 DEF When
  <2>4. QED BY <2>2, <2>3
<1>3. list \in [1..n -> Seq(Updates)]
  <2> DEFINE x(i) == When(IsOk(st[ss - i]), <<u(i)>>)
  <2>1. \A i \in 1..n : x(i) \in Seq(Updates)
    <3>1. \A i \in 1..n : list[i] = x(i)
      OBVIOUS
    <3> HIDE DEF x, list
    <3>2. QED BY <1>2, <3>1
  <2> HIDE DEF x, n
  <2>2. [i \in 1..n |-> x(i)] \in [1..n -> Seq(Updates)]
    BY <2>1
  <2>3. QED BY <2>2 DEF x
<1> HIDE DEF list, n
<1>4. FlattenSeq(list) \in Seq(Updates)
  BY <1>1, <1>3, Own!FlattenSeqOver DEF FlattenSeq, Own!FlattenSeq
<1>5. QED BY <1>4 DEF UpdateContinuationHistories, list, n

\* A product of integers, divided.
LEMMA ScaledInt ==
    ASSUME NEW a \in Int, NEW k \in Int, NEW d \in Nat \ {0}
    PROVE  Quot(a * k, d) \in Int
<1> DEFINE b == a * k
<1>1. b \in Int
  OBVIOUS
<1> HIDE DEF b
<1>2. Quot(b, d) \in Int
  BY <1>1, QuotInt
<1>3. QED BY <1>2 DEF b

\* The fields of a move.
LEMMA MoveFields ==
    ASSUME NEW m \in GoodMoves
    PROVE  /\ m.piece \in RealPieces /\ m.to \in 0..(BoardSquares - 1) /\ m.raw \in Nat
           /\ m.captured \in RealPieces \cup {Nothing} /\ PlaneOf(m.piece, m.to) # 0
BY DEF GoodMoves

\* Moves are neither no move nor a null move.
LEMMA MovesAreOk == GoodMoves \cap {NoMove, NullMove} = {}
<1> SUFFICES ASSUME NEW m \in GoodMoves, m = NoMove \/ m = NullMove PROVE FALSE
  OBVIOUS
<1>1. m.piece.kind \in 0..7
  BY DEF GoodMoves, RealPieces, AllPieces
<1>2. m.piece = Nothing
  BY DEF NoMove, NullMove
<1>3. QED BY <1>1, <1>2 DEF Nothing

\* The cells of a line: those that hold a move hold a good one.
LEMMA CellFields ==
    ASSUME NEW st \in Seq(Cells), NEW i \in 1..Len(st)
    PROVE  /\ st[i] \in Cells /\ st[i].contHist \in Nat /\ st[i].contCorr \in Nat
           /\ st[i].statScore \in Int /\ st[i].inCheck \in BOOLEAN /\ st[i].moveCount \in Nat
           /\ IsOk(st[i]) => st[i].move \in GoodMoves
BY DEF Cells, IsOk

\* One capture learns.
LEMMA CaptureUpdates ==
    ASSUME NEW m \in GoodMoves, NEW bonus \in Int
    PROVE  CaptureUpdate(m, bonus) \in Seq(Updates)
<1>1. captured_code(m.captured) \in Int
  <2>1. m.captured.kind \in Int /\ m.captured.promoted \in BOOLEAN
    <3>1. CASE m.captured \in RealPieces
      BY <3>1 DEF RealPieces, AllPieces
    <3>2. CASE m.captured = Nothing
      BY <3>2 DEF Nothing
    <3>3. QED BY <3>1, <3>2, MoveFields
  <2>2. QED BY <2>1 DEF captured_code, One
<1>2. PlaneOf(m.piece, m.to) \in Int
  BY MoveFields, Places
<1>3. CaptureIndex(m.piece, m.to, m.captured) \in Int
  BY <1>1, <1>2 DEF CaptureIndex, CapturedNb
<1>4. "capture" \in Tables
  BY DEF Tables, D
<1>5. Update("capture", CaptureIndex(m.piece, m.to, m.captured), bonus) \in Updates
  BY <1>3, <1>4, UpdateIs
<1>6. QED BY <1>5 DEF CaptureUpdate

\* The side to move and the ply of a cell.
LEMMA PlyOf ==
    ASSUME NEW ss \in Nat, ss > StackBase
    PROVE  Ply(ss) \in Nat /\ Us(ss) \in 0..1 /\ 1 - Us(ss) \in 0..1
BY DEF Ply, Us, StackBase

\* A main history learns of a move, for either side.
LEMMA MainUpdates ==
    ASSUME NEW us \in 0..1, NEW m \in GoodMoves, NEW bonus \in Int
    PROVE  <<Update("main", ButterflyIndex(us, m), bonus)>> \in Seq(Updates)
<1>1. ButterflyIndex(us, m) \in Int
  BY MoveFields DEF ButterflyIndex
<1>2. "main" \in Tables
  BY DEF Tables, D
<1>3. Update("main", ButterflyIndex(us, m), bonus) \in Updates
  BY <1>1, <1>2, UpdateIs
<1>4. QED BY <1>3

\* A pawn history learns of a move.
LEMMA PawnUpdates ==
    ASSUME NEW key \in Nat, NEW m \in GoodMoves, NEW bonus \in Int
    PROVE  <<Update("pawn", PawnIndex(key, m.piece, m.to), bonus)>> \in Seq(Updates)
<1>1. piece_code(m.piece) \in Int /\ m.to \in Int
  BY MoveFields, Places
<1>2. key % PawnSlots \in Int
  <2>1. PawnSlots \in Nat \ {0}
    BY ThreadsAssumption DEF PawnSlots
  <2>2. QED BY <2>1
<1>3. PawnIndex(key, m.piece, m.to) \in Int
  BY <1>1, <1>2 DEF PawnIndex, PieceNb, BoardSquares
<1>4. "pawn" \in Tables
  BY DEF Tables, D
<1>5. Update("pawn", PawnIndex(key, m.piece, m.to), bonus) \in Updates
  BY <1>3, <1>4, UpdateIs
<1>6. QED BY <1>5

\* What a quiet move teaches.
LEMMA QuietUpdates ==
    ASSUME NEW st \in Seq(Cells), NEW ss \in (StackBase + 1)..Len(st), NEW key \in Nat,
           NEW m \in GoodMoves, NEW bonus \in Int
    PROVE  UpdateQuietHistories(st, ss, key, m, bonus) \in Seq(Updates)
<1>1. ss \in Nat /\ ss > StackBase /\ ss \in StackBase..Len(st)
  BY DEF StackBase
<1>2. Ply(ss) \in Nat /\ Us(ss) \in 0..1
  BY <1>1, PlyOf
<1>3. <<Update("main", ButterflyIndex(Us(ss), m), bonus)>> \in Seq(Updates)
  BY <1>2, MainUpdates
<1>4. When(Ply(ss) < LowPlySize,
           <<Update("low_ply", LowPlyIndex(Ply(ss), m), Quot(bonus * 761, 1024))>>) \in Seq(Updates)
  <2>1. LowPlyIndex(Ply(ss), m) \in Int
    BY <1>2, MoveFields DEF LowPlyIndex
  <2>2. "low_ply" \in Tables
    BY DEF Tables, D
  <2>3. Quot(bonus * 761, 1024) \in Int
    BY ScaledInt
  <2>4. Update("low_ply", LowPlyIndex(Ply(ss), m), Quot(bonus * 761, 1024)) \in Updates
    BY <2>1, <2>2, <2>3, UpdateIs
  <2>5. <<Update("low_ply", LowPlyIndex(Ply(ss), m), Quot(bonus * 761, 1024))>> \in Seq(Updates)
    BY <2>4
  <2> DEFINE cond == Ply(ss) < LowPlySize
             list == <<Update("low_ply", LowPlyIndex(Ply(ss), m), Quot(bonus * 761, 1024))>>
  <2>6. list \in Seq(Updates)
    BY <2>5
  <2> HIDE DEF cond, list
  <2>7. When(cond, list) \in Seq(Updates)
    BY <2>6, WhenOver
  <2>8. QED BY <2>7 DEF cond, list
<1>5. UpdateContinuationHistories(st, ss, m.piece, m.to, Quot(bonus * 955, 1024)) \in Seq(Updates)
  <2>1. Quot(bonus * 955, 1024) \in Int
    BY ScaledInt
  <2>2. QED BY <1>1, <2>1, MoveFields, ContinuationUpdates
<1>6. <<Update("pawn", PawnIndex(key, m.piece, m.to),
               Quot(bonus * (IF bonus > 0 THEN 850 ELSE 550), 1024))>> \in Seq(Updates)
  <2>1. Quot(bonus * (IF bonus > 0 THEN 850 ELSE 550), 1024) \in Int
    <3>1. (IF bonus > 0 THEN 850 ELSE 550) \in Int
      OBVIOUS
    <3>2. QED BY <3>1, ScaledInt
  <2>2. QED BY <2>1, PawnUpdates
<1>7. QED BY <1>3, <1>4, <1>5, <1>6 DEF UpdateQuietHistories

\* The malus of every quiet is an integer.
LEMMA QuietMalusInt ==
    ASSUME NEW malus \in Int, NEW i \in Nat
    PROVE  QuietMalus(malus, i) \in Int
<1> DEFINE seq == [j \in 1..i |-> j]
           base == Quot(malus * 1113, 1024)
<1>1. MalusInt(0, base)
  BY ScaledInt DEF MalusInt
<1>2. \A k \in 1..i : \A v : MalusInt(k - 1, v) => MalusInt(k, Shrunk(v, seq[k]))
  BY ScaledInt DEF MalusInt, Shrunk
<1>3. DOMAIN seq = 1..i
  OBVIOUS
<1> HIDE DEF seq, base
<1>4. MalusInt(i, Malus!FoldLeft(Shrunk, base, seq))
  BY <1>1, <1>2, <1>3, Malus!FoldLeftHolds
<1>5. Malus!FoldLeft(Shrunk, base, seq) = FoldLeft(Shrunk, base, seq)
  BY DEF FoldLeft, Malus!FoldLeft, MapThenFoldSet, Malus!MapThenFoldSet, Max, Malus!Max
<1>6. QED BY <1>4, <1>5 DEF QuietMalus, MalusInt, seq, base

\* The quiets that were searched before the best move lose.
LEMMA QuietsUpdates ==
    ASSUME NEW st \in Seq(Cells), NEW ss \in (StackBase + 1)..Len(st), NEW key \in Nat,
           NEW quiets \in Seq(GoodMoves), NEW malus \in Int
    PROVE  FlattenSeq([i \in DOMAIN quiets |->
               UpdateQuietHistories(st, ss, key, quiets[i], -QuietMalus(malus, i))]) \in Seq(Updates)
<1> DEFINE n == Len(quiets)
           x(i) == UpdateQuietHistories(st, ss, key, quiets[i], -QuietMalus(malus, i))
           list == [i \in 1..n |-> x(i)]
<1>1. n \in Nat /\ DOMAIN quiets = 1..n
  OBVIOUS
<1>2. ASSUME NEW i \in 1..n PROVE x(i) \in Seq(Updates)
  <2>1. quiets[i] \in GoodMoves
    OBVIOUS
  <2>2. -QuietMalus(malus, i) \in Int
    <3>1. QuietMalus(malus, i) \in Int
      <4>1. i \in Nat
        BY <1>1
      <4>2. QED BY <4>1, QuietMalusInt
    <3>2. QED BY <3>1
  <2>3. QED BY <2>1, <2>2, QuietUpdates
<1> HIDE DEF n, x
<1>3. list \in [1..n -> Seq(Updates)]
  BY <1>2
<1> HIDE DEF list
<1>4. FlattenSeq(list) \in Seq(Updates)
  BY <1>1, <1>3, Own!FlattenSeqOver DEF FlattenSeq, Own!FlattenSeq
<1>5. QED BY <1>1, <1>4 DEF list, x

\* The captures that were searched before the best move lose.
LEMMA CapturesUpdates ==
    ASSUME NEW captures \in Seq(GoodMoves), NEW bonus \in Int
    PROVE  FlattenSeq([i \in DOMAIN captures |-> CaptureUpdate(captures[i], bonus)]) \in Seq(Updates)
<1> DEFINE n == Len(captures)
           x(i) == CaptureUpdate(captures[i], bonus)
           list == [i \in 1..n |-> x(i)]
<1>1. n \in Nat /\ DOMAIN captures = 1..n
  OBVIOUS
<1>2. ASSUME NEW i \in 1..n PROVE x(i) \in Seq(Updates)
  <2>1. captures[i] \in GoodMoves
    OBVIOUS
  <2>2. QED BY <2>1, CaptureUpdates
<1> HIDE DEF n, x
<1>3. list \in [1..n -> Seq(Updates)]
  BY <1>2
<1> HIDE DEF list
<1>4. FlattenSeq(list) \in Seq(Updates)
  BY <1>1, <1>3, Own!FlattenSeqOver DEF FlattenSeq, Own!FlattenSeq
<1>5. QED BY <1>1, <1>4 DEF list, x

\* An early move that was just refuted, or a quiet one that held, learns in the
\* continuation histories of its own node.
LEMMA PrevUpdates ==
    ASSUME NEW st \in Seq(Cells), NEW ss \in (StackBase + 1)..Len(st), IsOk(st[ss - 1]),
           NEW bonus \in Int
    PROVE  UpdateContinuationHistories(st, ss - 1, st[ss - 1].move.piece, st[ss - 1].move.to, bonus)
               \in Seq(Updates)
<1>1. ss - 1 \in StackBase..Len(st) /\ ss - 1 \in 1..Len(st)
  BY DEF StackBase
<1>2. st[ss - 1].move \in GoodMoves
  BY <1>1, CellFields
<1>3. QED BY <1>1, <1>2, MoveFields, ContinuationUpdates

\* What the best move of a node teaches.
LEMMA AllStatsUpdates ==
    ASSUME NEW st \in Seq(Cells), NEW ss \in (StackBase + 1)..Len(st), NEW key \in Nat,
           NEW best \in GoodMoves, NEW quiets \in Seq(GoodMoves), NEW captures \in Seq(GoodMoves),
           NEW deep \in Int, NEW isTT \in BOOLEAN, NEW priorCapture
    PROVE  UpdateAllStats(st, ss, key, best, quiets, captures, deep, isTT, priorCapture) \in Seq(Updates)
<1> DEFINE prev == st[ss - 1]
           bonus == Capped(128 * deep - 77, 1529) + 353 * One(isTT) + Quot(prev.statScore, 32)
           malus == Capped(882 * deep - 204, 2122)
           won == IF IsCapture(best) THEN CaptureUpdate(best, Quot(bonus * 1286, 1024))
                  ELSE UpdateQuietHistories(st, ss, key, best, Quot(bonus * 806, 1024))
                       \o FlattenSeq([i \in DOMAIN quiets |->
                             UpdateQuietHistories(st, ss, key, quiets[i], -QuietMalus(malus, i))])
           early == IsOk(prev) /\ prev.moveCount = 1 + One(prev.ttHit) /\ ~priorCapture
           refuted == When(early,
                UpdateContinuationHistories(st, ss - 1, prev.move.piece, prev.move.to,
                                            Quot(-malus * 616, 1024)))
           lost == FlattenSeq([i \in DOMAIN captures |->
                CaptureUpdate(captures[i], Quot(-malus * 1559, 1024))])
<1>1. malus \in Int /\ -malus \in Int
  BY DEF Capped
<1>2. bonus \in Int
  <2>1. prev.statScore \in Int
    <3>1. ss - 1 \in 1..Len(st)
      BY DEF StackBase
    <3>2. QED BY <3>1, CellFields
  <2>2. Quot(prev.statScore, 32) \in Int
    <3>1. \A a \in Int : Quot(a, 32) \in Int
      BY QuotInt
    <3> HIDE DEF prev
    <3>2. QED BY <2>1, <3>1
  <2>3. Capped(128 * deep - 77, 1529) \in Int /\ One(isTT) \in Int
    BY DEF Capped, One
  <2>4. QED BY <2>2, <2>3
<1> HIDE DEF malus, bonus
<1>3. won \in Seq(Updates)
  <2>1. CASE IsCapture(best)
    <3>1. Quot(bonus * 1286, 1024) \in Int
      BY <1>2, ScaledInt
    <3>2. QED BY <2>1, <3>1, CaptureUpdates
  <2>2. CASE ~IsCapture(best)
    <3>1. Quot(bonus * 806, 1024) \in Int
      BY <1>2, ScaledInt
    <3>2. UpdateQuietHistories(st, ss, key, best, Quot(bonus * 806, 1024)) \in Seq(Updates)
      BY <3>1, QuietUpdates
    <3>3. FlattenSeq([i \in DOMAIN quiets |->
             UpdateQuietHistories(st, ss, key, quiets[i], -QuietMalus(malus, i))]) \in Seq(Updates)
      BY <1>1, QuietsUpdates
    <3>4. QED BY <2>2, <3>2, <3>3
  <2>3. QED BY <2>1, <2>2
<1>4. refuted \in Seq(Updates)
  <2>1. CASE early
    <3>1. Quot(-malus * 616, 1024) \in Int
      BY <1>1, ScaledInt
    <3>2. UpdateContinuationHistories(st, ss - 1, prev.move.piece, prev.move.to,
                                      Quot(-malus * 616, 1024)) \in Seq(Updates)
      BY <2>1, <3>1, PrevUpdates
    <3>3. QED BY <2>1, <3>2 DEF When
  <2>2. CASE ~early
    <3> HIDE DEF early
    <3>1. QED BY <2>2 DEF When
  <2>3. QED BY <2>1, <2>2
<1>5. lost \in Seq(Updates)
  <2>1. Quot(-malus * 1559, 1024) \in Int
    BY <1>1, ScaledInt
  <2>2. QED BY <2>1, CapturesUpdates
<1>6. UpdateAllStats(st, ss, key, best, quiets, captures, deep, isTT, priorCapture)
        = won \o refuted \o lost
  BY DEF UpdateAllStats, malus, bonus
<1> HIDE DEF won, refuted, lost
<1>7. QED BY <1>3, <1>4, <1>5, <1>6

\* What a node teaches the correction histories.
LEMMA CorrectionUpdates ==
    ASSUME NEW st \in Seq(Cells), NEW ss \in (StackBase + 1)..Len(st), NEW key \in Nat,
           NEW bonus \in Int
    PROVE  UpdateCorrectionHistory(st, ss, key, bonus) \in Seq(Updates)
<1> DEFINE prev == st[ss - 1]
           channel(n, b) == Update("correction", CorrIndex(key, Us(ss), n), b)
           contCorr(back, b) == Update("continuation_correction",
                ContinuationCell(st[ss - back].contCorr, prev.move.piece, prev.move.to), b)
           b1 == Quot(bonus * 153, 128)
           b2 == Quot(bonus * 187, 128)
           c2 == Quot(bonus * 126, 128)
           c4 == Quot(bonus * 63, 128)
           first == <<channel(0, bonus), channel(1, b1), channel(2, b2), channel(3, b2)>>
           more == <<contCorr(2, c2), contCorr(4, c4)>>
           second == When(IsOk(prev), more)
<1>1. b1 \in Int /\ b2 \in Int /\ c2 \in Int /\ c4 \in Int
  <2>1. b1 \in Int
    BY ScaledInt
  <2>2. b2 \in Int
    BY ScaledInt
  <2>3. c2 \in Int
    BY ScaledInt
  <2>4. c4 \in Int
    BY ScaledInt
  <2>5. QED BY <2>1, <2>2, <2>3, <2>4
<1> HIDE DEF b1, b2, c2, c4
<1>2. "correction" \in Tables /\ "continuation_correction" \in Tables
  BY DEF Tables, D
<1>3. ASSUME NEW n \in 0..3, NEW b \in Int PROVE channel(n, b) \in Updates
  <2>1. key % CorrSlots \in Int
    <3>1. CorrSlots \in Nat \ {0}
      BY ThreadsAssumption DEF CorrSlots
    <3>2. QED BY <3>1
  <2>2. ss \in Nat /\ ss > StackBase
    BY DEF StackBase
  <2>3. CorrIndex(key, Us(ss), n) \in Int
    BY <2>1, <2>2, PlyOf DEF CorrIndex
  <2>4. QED BY <1>2, <2>3, UpdateIs
<1>4. first \in Seq(Updates)
  <2> HIDE DEF channel
  <2>1. channel(0, bonus) \in Updates /\ channel(1, b1) \in Updates
        /\ channel(2, b2) \in Updates /\ channel(3, b2) \in Updates
    BY <1>1, <1>3
  <2>2. QED BY <2>1
<1>5. second \in Seq(Updates)
  <2>1. CASE IsOk(prev)
    <3>1. ss - 1 \in 1..Len(st) /\ ss - 2 \in 1..Len(st) /\ ss - 4 \in 1..Len(st)
      BY DEF StackBase
    <3>2. prev.move \in GoodMoves
      BY <2>1, <3>1, CellFields
    <3>3. ASSUME NEW back \in {2, 4}, NEW b \in Int PROVE contCorr(back, b) \in Updates
      <4>1. st[ss - back].contCorr \in Nat
        BY <3>1, CellFields
      <4>2. prev.move.piece \in RealPieces /\ prev.move.to \in 0..(BoardSquares - 1)
        BY <3>2, MoveFields
      <4>3. \A plane \in Nat : ContinuationCell(plane, prev.move.piece, prev.move.to) \in Nat
        BY <4>2, Places
      <4>4. ContinuationCell(st[ss - back].contCorr, prev.move.piece, prev.move.to) \in Int
        <5> DEFINE plane == st[ss - back].contCorr
                   pc == prev.move.piece
                   to == prev.move.to
        <5>1. plane \in Nat
          BY <4>1
        <5> HIDE DEF plane, pc, to
        <5>2. ContinuationCell(plane, pc, to) \in Int
          BY <4>3, <5>1 DEF pc, to
        <5>3. QED BY <5>2 DEF plane, pc, to
      <4>5. QED BY <1>2, <4>4, UpdateIs
    <3> HIDE DEF contCorr
    <3>4. contCorr(2, c2) \in Updates /\ contCorr(4, c4) \in Updates
      BY <1>1, <3>3
    <3>5. more \in Seq(Updates)
      BY <3>4
    <3> HIDE DEF more
    <3>6. QED BY <3>5, WhenOver
  <2>2. CASE ~IsOk(prev)
    BY <2>2 DEF When
  <2>3. QED BY <2>1, <2>2
<1>6. UpdateCorrectionHistory(st, ss, key, bonus) = first \o second
  BY DEF UpdateCorrectionHistory, b1, b2, c2, c4
<1> HIDE DEF first, second
<1>7. QED BY <1>4, <1>5, <1>6

----------------------------------------------------------------------------
(* What the nodes of a behaviour teach.                                    *)

\* A worker's line: good cells, the current node's after those before the root.
Lined(w) == stack[w] \in Seq(Cells) /\ Len(stack[w]) >= StackBase + 1

Outcomes == [depth : Int, isTT : BOOLEAN, pv : BOOLEAN, worse : BOOLEAN, bonus : Int]

\* What the workers may meet is what the assumption on their scripts says.
LEMMA ScriptsGood ==
    ASSUME NEW w \in Workers
    PROVE  /\ Scripts[w].moves \subseteq GoodMoves
           /\ Scripts[w].profiles \subseteq
                [moveCount : Nat, statScore : Int, inCheck : BOOLEAN, ttHit : BOOLEAN]
           /\ Scripts[w].outcomes \subseteq Outcomes
           /\ Scripts[w].again \subseteq [kind : {"verify", "singular"}, ttHit : BOOLEAN]
BY ScriptsAssumption DEF GoodMoves, Outcomes

\* The current node of a line, and the move that led to it.
LEMMA LineCells ==
    ASSUME NEW w, Lined(w)
    PROVE  /\ Top(w) \in (StackBase + 1)..Len(stack[w]) /\ Top(w) \in StackBase..Len(stack[w])
           /\ Top(w) \in Nat /\ Top(w) > StackBase
           /\ Here(w) \in Cells /\ CellsBefore(w) \in Cells
           /\ Here(w).inCheck \in BOOLEAN /\ CellsBefore(w).statScore \in Int
           /\ CellsBefore(w).moveCount \in Nat /\ CellsBefore(w).inCheck \in BOOLEAN
           /\ IsOk(CellsBefore(w)) => CellsBefore(w).move \in GoodMoves
           /\ IsOk(Here(w)) => Here(w).move \in GoodMoves
<1>1. Top(w) \in 1..Len(stack[w]) /\ Top(w) - 1 \in 1..Len(stack[w])
  BY DEF Lined, Top, StackBase
<1>2. Top(w) \in (StackBase + 1)..Len(stack[w]) /\ Top(w) \in StackBase..Len(stack[w])
      /\ Top(w) \in Nat /\ Top(w) > StackBase
  BY DEF Lined, Top, StackBase
<1>3. /\ Here(w) \in Cells /\ Here(w).inCheck \in BOOLEAN
      /\ IsOk(Here(w)) => Here(w).move \in GoodMoves
  BY <1>1, CellFields DEF Lined, Here
<1>4. /\ CellsBefore(w) \in Cells
      /\ CellsBefore(w).statScore \in Int /\ CellsBefore(w).moveCount \in Nat
      /\ CellsBefore(w).inCheck \in BOOLEAN
      /\ IsOk(CellsBefore(w)) => CellsBefore(w).move \in GoodMoves
  BY <1>1, CellFields DEF Lined, CellsBefore
<1>5. QED BY <1>2, <1>3, <1>4

\* What is learnt of the move before, in its own node.
LEMMA BeforeUpdates ==
    ASSUME NEW w, Lined(w), IsOk(CellsBefore(w)), NEW bonus \in Int
    PROVE  UpdateContinuationHistories(stack[w], Top(w) - 1, CellsBefore(w).move.piece,
                                       CellsBefore(w).move.to, bonus) \in Seq(Updates)
BY LineCells, PrevUpdates DEF Lined, CellsBefore

\* What is learnt when the table's move cuts.
LEMMA TTCutUpdates ==
    ASSUME NEW w, Lined(w), NEW m \in GoodMoves, NEW deep \in Int, NEW key \in Nat, NEW early
    PROVE  When(~IsCapture(m),
                UpdateQuietHistories(stack[w], Top(w), key, m, Capped(130 * deep - 71, 1043)))
           \o When(IsOk(CellsBefore(w)) /\ early,
                   UpdateContinuationHistories(stack[w], Top(w) - 1, CellsBefore(w).move.piece,
                                               CellsBefore(w).move.to, -2142)) \in Seq(Updates)
<1> DEFINE first == UpdateQuietHistories(stack[w], Top(w), key, m, Capped(130 * deep - 71, 1043))
           quiet == ~IsCapture(m)
           led == IsOk(CellsBefore(w)) /\ early
           second == UpdateContinuationHistories(stack[w], Top(w) - 1, CellsBefore(w).move.piece,
                                                 CellsBefore(w).move.to, -2142)
<1>1. first \in Seq(Updates)
  <2>1. Capped(130 * deep - 71, 1043) \in Int
    BY DEF Capped
  <2>2. QED BY <2>1, LineCells, QuietUpdates DEF Lined
<1>2. led => second \in Seq(Updates)
  BY BeforeUpdates
<1> HIDE DEF first, second, quiet, led
<1>3. When(quiet, first) \in Seq(Updates) /\ When(led, second) \in Seq(Updates)
  BY <1>1, <1>2 DEF When
<1>4. When(quiet, first) \o When(led, second) \in Seq(Updates)
  BY <1>3
<1>5. QED BY <1>4 DEF first, second, quiet, led

\* What the turn of the evaluation teaches of the move before.
LEMMA EvalDiffUpdates ==
    ASSUME NEW w, Lined(w), IsOk(CellsBefore(w)), NEW diff \in Int, NEW key \in Nat, NEW cond
    PROVE  <<Update("main", ButterflyIndex(1 - Us(Top(w)), CellsBefore(w).move), diff * 10)>>
           \o When(cond, <<Update("pawn", PawnIndex(key, CellsBefore(w).move.piece,
                                                    CellsBefore(w).move.to), diff * 12)>>) \in Seq(Updates)
<1> DEFINE m == CellsBefore(w).move
           first == <<Update("main", ButterflyIndex(1 - Us(Top(w)), m), diff * 10)>>
           second == <<Update("pawn", PawnIndex(key, m.piece, m.to), diff * 12)>>
<1>1. m \in GoodMoves /\ 1 - Us(Top(w)) \in 0..1
  BY LineCells, PlyOf
<1> HIDE DEF m
<1>2. first \in Seq(Updates) /\ second \in Seq(Updates)
  BY <1>1, MainUpdates, PawnUpdates
<1> HIDE DEF first, second
<1>3. When(cond, second) \in Seq(Updates)
  BY <1>2 DEF When
<1>4. first \o When(cond, second) \in Seq(Updates)
  BY <1>2, <1>3
<1>5. QED BY <1>4 DEF first, second, m

\* What is learnt of table moves.
LEMMA TTMoveUpdates ==
    ASSUME NEW bonus \in Int
    PROVE  <<Update("tt_move", 0, bonus)>> \in Seq(Updates)
<1>1. "tt_move" \in Tables
  BY DEF Tables, D
<1>2. Update("tt_move", 0, bonus) \in Updates
  BY <1>1, UpdateIs
<1>3. QED BY <1>2

\* What a node that found a best move teaches.
LEMMA BestUpdates ==
    ASSUME NEW w, Lined(w), NEW key \in Nat, NEW best \in GoodMoves, NEW other \in GoodMoves,
           NEW o \in Outcomes
    PROVE  FromBest(w, key, best, other, o) \in Seq(Updates)
<1> DEFINE quiets == When(~IsCapture(other) /\ other # best, <<other>>)
           captures == When(IsCapture(other) /\ other # best, <<other>>)
           all == UpdateAllStats(stack[w], Top(w), key, best, quiets, captures,
                                 o.depth, o.isTT, PriorCapture(w))
           cond == ~o.pv
           trust == <<Update("tt_move", 0, IF o.isTT THEN 805 ELSE -787)>>
<1>1. o.depth \in Int /\ o.isTT \in BOOLEAN
  BY DEF Outcomes
<1>2. quiets \in Seq(GoodMoves) /\ captures \in Seq(GoodMoves)
  BY DEF When
<1>3. all \in Seq(Updates)
  <2> HIDE DEF quiets, captures
  <2>1. QED BY <1>1, <1>2, LineCells, AllStatsUpdates DEF Lined
<1>4. trust \in Seq(Updates)
  <2>1. (IF o.isTT THEN 805 ELSE -787) \in Int
    OBVIOUS
  <2>2. QED BY <2>1, TTMoveUpdates
<1>5. FromBest(w, key, best, other, o) = all \o When(cond, trust)
  BY DEF FromBest
<1> HIDE DEF all, cond, trust
<1>6. When(cond, trust) \in Seq(Updates)
  BY <1>4 DEF When
<1>7. QED BY <1>3, <1>5, <1>6

\* What a node that raised nothing teaches of the move before.
LEMMA FailLowUpdates ==
    ASSUME NEW w, Lined(w), IsOk(CellsBefore(w)), NEW key \in Nat, NEW o \in Outcomes
    PROVE  FromFailLow(w, key, o) \in Seq(Updates)
<1> DEFINE m == CellsBefore(w).move
           scaled == Capped(135 * o.depth - 80, 1400) * FailLowScale(w, o)
           first == UpdateContinuationHistories(stack[w], Top(w) - 1, m.piece, m.to,
                                                Quot(scaled * 221, 16384))
           second == <<Update("main", ButterflyIndex(1 - Us(Top(w)), m), Quot(scaled * 235, 32768))>>
           cond == NotPawn(m.piece) /\ ~m.promote
           third == <<Update("pawn", PawnIndex(key, m.piece, m.to), Quot(scaled * 290, 8192))>>
<1>1. o.depth \in Int /\ o.worse \in BOOLEAN
  BY DEF Outcomes
<1>2. m \in GoodMoves /\ 1 - Us(Top(w)) \in 0..1
  BY LineCells, PlyOf
<1>3. scaled \in Int
  <2>1. Quot(CellsBefore(w).statScore, 108) \in Int
    <3>1. CellsBefore(w).statScore \in Int
      BY LineCells
    <3>2. \A a \in Int : Quot(a, 108) \in Int
      BY QuotInt
    <3>3. QED BY <3>1, <3>2
  <2>2. FailLowScale(w, o) \in Int
    <3> DEFINE a == Quot(CellsBefore(w).statScore, 108)
               b == One(CellsBefore(w).moveCount > 8)
               c == One(o.worse /\ ~Here(w).inCheck)
               d == One(o.worse /\ ~CellsBefore(w).inCheck)
               e == Capped(59 * o.depth, 454)
    <3>1. a \in Int /\ b \in Int /\ c \in Int /\ d \in Int /\ e \in Int
      BY <1>1, <2>1 DEF One, Capped
    <3>2. FailLowScale(w, o) = LET scale == -232 - a + e + 169 * b + 145 * c + 154 * d
                               IN  IF scale < 0 THEN 0 ELSE scale
      BY DEF FailLowScale
    <3> HIDE DEF a, b, c, d, e
    <3>3. QED BY <3>1, <3>2
  <2>3. Capped(135 * o.depth - 80, 1400) \in Int
    BY <1>1 DEF Capped
  <2>4. QED BY <2>2, <2>3
<1> HIDE DEF scaled
<1>4. Quot(scaled * 221, 16384) \in Int
  BY <1>3, ScaledInt
<1>5. Quot(scaled * 235, 32768) \in Int
  BY <1>3, ScaledInt
<1>6. Quot(scaled * 290, 8192) \in Int
  BY <1>3, ScaledInt
<1>7. first \in Seq(Updates)
  BY <1>4, BeforeUpdates
<1>8. second \in Seq(Updates)
  <2> HIDE DEF m
  <2>1. QED BY <1>2, <1>5, MainUpdates
<1>9. third \in Seq(Updates)
  <2> HIDE DEF m
  <2>1. QED BY <1>2, <1>6, PawnUpdates
<1>10. FromFailLow(w, key, o) = first \o second \o When(cond, third)
  BY DEF FromFailLow, scaled
<1> HIDE DEF first, second, third, cond
<1>11. When(cond, third) \in Seq(Updates)
  BY <1>9 DEF When
<1>12. QED BY <1>7, <1>8, <1>10, <1>11

\* What a node teaches the correction histories, if it does.
LEMMA CorrectedUpdates ==
    ASSUME NEW w, Lined(w), NEW key \in Nat, NEW o \in Outcomes, NEW quiet
    PROVE  Correction(w, key, o, quiet) \in Seq(Updates)
<1> DEFINE bonus == Quot(1069 * o.bonus, 1024)
           list == UpdateCorrectionHistory(stack[w], Top(w), key, bonus)
           cond == ~Here(w).inCheck /\ quiet
<1>1. bonus \in Int
  <2>1. 1069 * o.bonus \in Int
    BY DEF Outcomes
  <2>2. \A a \in Int : Quot(a, 1024) \in Int
    BY QuotInt
  <2>3. QED BY <2>1, <2>2
<1> HIDE DEF bonus
<1>2. list \in Seq(Updates)
  BY <1>1, LineCells, CorrectionUpdates DEF Lined
<1>3. Correction(w, key, o, quiet) = When(cond, list)
  BY DEF Correction, bonus
<1> HIDE DEF list, cond
<1>4. QED BY <1>2, <1>3 DEF When

----------------------------------------------------------------------------
(* The invariant of the histories.                                         *)

ListOf(n, queue) == queue \in Seq(Updates)

Queue == INSTANCE FoldProofs WITH Op <- WithShared, Holds <- ListOf

\* What the histories always are: good entries, good lines and good updates, and
\* a value loaded for the update that comes next.
HistInv ==
    /\ fill \in {"fresh", "high", "low"}
    /\ DOMAIN stack = Workers /\ \A w \in Workers : Lined(w)
    /\ DOMAIN private = Workers /\ \A w \in Workers : EntriesGood(0, private[w])
    /\ EntriesGood(0, shared)
    /\ DOMAIN todo = Workers /\ \A w \in Workers : todo[w] \in Seq(Updates)
    /\ DOMAIN loaded = Workers
    /\ \A w \in Workers : loaded[w] # <<>> =>
          todo[w] # <<>> /\ loaded[w][1] \in Int /\ Within(loaded[w][1], D[Head(todo[w]).entry[1]])

\* The fields of an update.
LEMMA UpdateFields ==
    ASSUME NEW u \in Updates
    PROVE  /\ u.entry[1] \in Tables /\ u.bonus \in Int
           /\ u.entry[1] = "continuation" => u.entry[2] >= PlaneLen
BY DEF Updates

\* Writing outside the sentinel's plane keeps it.
LEMMA WriteGood ==
    ASSUME NEW entries, EntriesGood(0, entries), NEW u \in Updates, NEW v \in Int,
           Within(v, D[u.entry[1]])
    PROVE  EntriesGood(0, Write(entries, u.entry, v))
<1>1. EntriesWithin(entries) /\ \A e \in DOMAIN entries : e[1] = "continuation" => e[2] >= PlaneLen
  BY DEF EntriesGood
<1>2. EntriesWithin(Write(entries, u.entry, v))
  BY <1>1, UpdateFields, WriteWithin
<1>3. DOMAIN Write(entries, u.entry, v) = DOMAIN entries \cup {u.entry}
  BY DEF Write
<1>4. \A e \in DOMAIN Write(entries, u.entry, v) : e[1] = "continuation" => e[2] >= PlaneLen
  BY <1>1, <1>3, UpdateFields
<1>5. QED BY <1>2, <1>4 DEF EntriesGood

\* A worker's own entries stay good under an update.
LEMMA AfterOwnGood ==
    ASSUME NEW entries, EntriesGood(0, entries), NEW u \in Updates, fill \in {"fresh", "high", "low"}
    PROVE  EntriesGood(0, AfterOwn(entries, u))
<1> DEFINE v == apply_gravity(Read(entries, u.entry), u.bonus, D[u.entry[1]])
<1>1. EntriesWithin(entries) /\ u.entry[1] \in Tables /\ u.bonus \in Int
  BY UpdateFields DEF EntriesGood
<1>2. v \in Int /\ Within(v, D[u.entry[1]])
  BY <1>1, ReadWithin, TableBounds, GravityBounded
<1> HIDE DEF v
<1>3. EntriesGood(0, Write(entries, u.entry, v))
  BY <1>2, WriteGood
<1>4. AfterUpdate(entries, u) = Write(entries, u.entry, v)
  BY DEF AfterUpdate, v
<1>5. QED BY <1>3, <1>4 DEF AfterOwn

\* A worker's own entries stay good under all the updates of a node.
LEMMA AllOwnGood ==
    ASSUME NEW entries, EntriesGood(0, entries), NEW updates \in Seq(Updates),
           fill \in {"fresh", "high", "low"}
    PROVE  EntriesGood(0, FoldLeft(AfterOwn, entries, updates))
<1> DEFINE n == Len(updates)
<1>1. n \in Nat /\ DOMAIN updates = 1..n /\ \A k \in 1..n : updates[k] \in Updates
  OBVIOUS
<1> HIDE DEF n
<1>2. ASSUME NEW k \in 1..n, NEW v, EntriesGood(k - 1, v)
      PROVE  EntriesGood(k, AfterOwn(v, updates[k]))
  <2>1. EntriesGood(0, v)
    BY <1>2 DEF EntriesGood
  <2>2. EntriesGood(0, AfterOwn(v, updates[k]))
    BY <1>1, <2>1, AfterOwnGood
  <2>3. QED BY <2>2 DEF EntriesGood
<1>3. EntriesGood(n, Own!FoldLeft(AfterOwn, entries, updates))
  BY <1>1, <1>2, Own!FoldLeftHolds
<1>4. Own!FoldLeft(AfterOwn, entries, updates) = FoldLeft(AfterOwn, entries, updates)
  BY DEF FoldLeft, Own!FoldLeft, MapThenFoldSet, Own!MapThenFoldSet, Max, Own!Max
<1>5. QED BY <1>3, <1>4 DEF EntriesGood

\* What is left to do is a list of updates.
LEMMA QueueGood ==
    ASSUME NEW updates \in Seq(Updates)
    PROVE  FoldLeft(WithShared, <<>>, updates) \in Seq(Updates)
<1> DEFINE n == Len(updates)
<1>1. n \in Nat /\ DOMAIN updates = 1..n /\ \A k \in 1..n : updates[k] \in Updates
  OBVIOUS
<1> HIDE DEF n
<1>2. ASSUME NEW k \in 1..n, NEW v, ListOf(k - 1, v)
      PROVE  ListOf(k, WithShared(v, updates[k]))
  BY <1>1, <1>2 DEF ListOf, WithShared
<1>3. ListOf(0, <<>>)
  BY DEF ListOf
<1>4. ListOf(n, Queue!FoldLeft(WithShared, <<>>, updates))
  BY <1>1, <1>2, <1>3, Queue!FoldLeftHolds
<1>5. Queue!FoldLeft(WithShared, <<>>, updates) = FoldLeft(WithShared, <<>>, updates)
  BY DEF FoldLeft, Queue!FoldLeft, MapThenFoldSet, Queue!MapThenFoldSet, Max, Queue!Max
<1>6. QED BY <1>4, <1>5 DEF ListOf

\* A node that learns keeps entries and updates good.
LEMMA ApplyKeeps ==
    ASSUME HistInv, NEW w \in Workers, NEW updates \in Seq(Updates), Idle(w), Apply(w, updates),
           UNCHANGED <<shared, loaded, fill>>, DOMAIN stack' = Workers,
           \A v \in Workers : Lined(v)'
    PROVE  HistInv'
<1>1. fill' \in {"fresh", "high", "low"} /\ EntriesGood(0, shared)' /\ DOMAIN loaded' = Workers
  BY DEF HistInv, EntriesGood, EntriesWithin
<1>2. DOMAIN private' = Workers /\ \A v \in Workers : EntriesGood(0, private'[v])
  <2> DEFINE own == FoldLeft(AfterOwn, private[w], updates)
  <2>1. EntriesGood(0, own)
    BY AllOwnGood DEF HistInv
  <2>2. private' = [private EXCEPT ![w] = own]
    BY DEF Apply
  <2> HIDE DEF own
  <2>3. QED BY <2>1, <2>2 DEF HistInv
<1>3. DOMAIN todo' = Workers /\ \A v \in Workers : todo'[v] \in Seq(Updates)
  <2> DEFINE queue == FoldLeft(WithShared, <<>>, updates)
  <2>1. queue \in Seq(Updates)
    BY QueueGood
  <2>2. todo' = [todo EXCEPT ![w] = queue]
    BY DEF Apply
  <2> HIDE DEF queue
  <2>3. QED BY <2>1, <2>2 DEF HistInv
<1>4. \A v \in Workers : loaded'[v] # <<>> =>
          todo'[v] # <<>> /\ loaded'[v][1] \in Int /\ Within(loaded'[v][1], D[Head(todo'[v]).entry[1]])
  <2> SUFFICES ASSUME NEW v \in Workers, loaded'[v] # <<>>
               PROVE  todo'[v] # <<>> /\ loaded'[v][1] \in Int
                      /\ Within(loaded'[v][1], D[Head(todo'[v]).entry[1]])
    OBVIOUS
  <2>1. v # w
    BY DEF HistInv, Idle
  <2>2. todo'[v] = todo[v]
    BY <2>1 DEF Apply, HistInv
  <2>3. QED BY <2>2 DEF HistInv
<1>5. QED BY <1>1, <1>2, <1>3, <1>4 DEF HistInv, EntriesGood, EntriesWithin, Within

\* A sequence with one element replaced is a sequence of the same length.
LEMMA ReplacedOne ==
    ASSUME NEW G, NEW s \in Seq(G), NEW i, NEW c \in G
    PROVE  [s EXCEPT ![i] = c] \in Seq(G) /\ Len([s EXCEPT ![i] = c]) = Len(s)
<1> DEFINE n == Len(s)
           t == [s EXCEPT ![i] = c]
<1>1. n \in Nat /\ s \in [1..n -> G]
  OBVIOUS
<1>2. t \in [1..n -> G]
  <2> HIDE DEF n
  <2>1. QED BY <1>1
<1> HIDE DEF t
<1>3. t \in Seq(G) /\ DOMAIN t = 1..n /\ DOMAIN t = 1..Len(t) /\ Len(t) \in Nat
  BY <1>1, <1>2
<1>4. Len(t) = n
  BY <1>1, <1>3
<1>5. QED BY <1>3, <1>4 DEF t

\* A new cell in place of the current one keeps the line good.
LEMMA CellKeeps ==
    ASSUME HistInv, NEW w \in Workers, NEW c \in Cells, stack' = [stack EXCEPT ![w][Top(w)] = c]
    PROVE  DOMAIN stack' = Workers /\ \A v \in Workers : Lined(v)'
<1> DEFINE st == [stack[w] EXCEPT ![Top(w)] = c]
<1>1. stack[w] \in Seq(Cells) /\ Len(stack[w]) >= StackBase + 1
  BY DEF HistInv, Lined
<1>2. st \in Seq(Cells) /\ Len(st) = Len(stack[w])
  BY <1>1, ReplacedOne
<1>3. stack' = [stack EXCEPT ![w] = st]
  OBVIOUS
<1> HIDE DEF st
<1>4. DOMAIN stack' = Workers
  BY <1>3 DEF HistInv
<1>5. ASSUME NEW v \in Workers PROVE Lined(v)'
  BY <1>1, <1>2, <1>3 DEF HistInv, Lined
<1>6. QED BY <1>4, <1>5

\* Leaving a node drops its cell; a search of the node's own leaves it.
LEMMA LeaveKeeps ==
    ASSUME HistInv, NEW w \in Workers, Line(w) > 0, Leave(w)
    PROVE  DOMAIN stack' = Workers /\ \A v \in Workers : Lined(v)'
<1>1. CASE Here(w).own = {}
  <2> DEFINE st == SubSeq(stack[w], 1, Len(stack[w]) - 1)
  <2>1. stack[w] \in Seq(Cells) /\ Len(stack[w]) - 1 >= StackBase + 1
    BY DEF HistInv, Lined, Line, Top, StackBase
  <2>2. st \in Seq(Cells) /\ Len(st) = Len(stack[w]) - 1
    BY <2>1 DEF StackBase
  <2>3. stack' = [stack EXCEPT ![w] = st]
    BY <1>1 DEF Leave
  <2> HIDE DEF st
  <2>4. DOMAIN stack' = Workers
    BY <2>3 DEF HistInv
  <2>5. ASSUME NEW v \in Workers PROVE Lined(v)'
    BY <2>1, <2>2, <2>3 DEF HistInv, Lined
  <2>6. QED BY <2>4, <2>5
<1>2. CASE Here(w).own # {}
  <2> DEFINE c == OwnEnded(Here(w))
  <2>1. Here(w) \in Cells
    BY LineCells DEF HistInv
  <2>2. c \in Cells
    BY <2>1 DEF OwnEnded, Cells, IsOk
  <2>3. stack' = [stack EXCEPT ![w][Top(w)] = c]
    BY <1>2 DEF Leave, Here
  <2> HIDE DEF c
  <2>4. QED BY <2>2, <2>3, CellKeeps
<1>3. QED BY <1>1, <1>2

\* A child's cell after the current one, which is turned to the move, keeps the
\* line good.
LEMMA ChildKeeps ==
    ASSUME HistInv, NEW w \in Workers, NEW c \in Cells, NEW child \in Cells,
           stack' = [stack EXCEPT ![w] = Append([@ EXCEPT ![Len(@)] = c], child)],
           UNCHANGED <<private, shared, todo, loaded, fill, events>>
    PROVE  HistInv'
<1> DEFINE turned == [stack[w] EXCEPT ![Len(stack[w])] = c]
           st == Append(turned, child)
<1>1. stack[w] \in Seq(Cells) /\ Len(stack[w]) >= StackBase + 1
  BY DEF HistInv, Lined
<1>2. turned \in Seq(Cells) /\ Len(turned) = Len(stack[w])
  BY <1>1, ReplacedOne
<1>3. stack' = [stack EXCEPT ![w] = st]
  OBVIOUS
<1> HIDE DEF turned
<1>4. st \in Seq(Cells) /\ Len(st) = Len(stack[w]) + 1
  BY <1>1, <1>2
<1> HIDE DEF st
<1>5. DOMAIN stack' = Workers
  BY <1>3 DEF HistInv
<1>6. Len(st) >= StackBase + 1
  BY <1>1, <1>4 DEF StackBase
<1>7. \A v \in Workers : stack'[v] = IF v = w THEN st ELSE stack[v]
  BY <1>3 DEF HistInv
<1>8. ASSUME NEW v \in Workers PROVE Lined(v)'
  BY <1>4, <1>6, <1>7 DEF HistInv, Lined
<1>9. QED BY <1>5, <1>8 DEF HistInv, EntriesGood, EntriesWithin, Within

\* The default cell, and that of a new child, hold no move.
LEMMA NewCells ==
    /\ DefaultCell \in Cells
    /\ \A inCheck, ttHit \in BOOLEAN :
          [DefaultCell EXCEPT !.inCheck = inCheck, !.ttHit = ttHit] \in Cells
<1>1. NoMove \in {NoMove, NullMove} /\ SentinelPlane \in Nat
  BY DEF SentinelPlane
<1>2. DefaultCell \in Cells
  BY <1>1 DEF DefaultCell, Cells, IsOk
<1>3. ASSUME NEW a \in BOOLEAN, NEW b \in BOOLEAN
      PROVE  [DefaultCell EXCEPT !.inCheck = a, !.ttHit = b] \in Cells
  <2>1. DefaultCell.move = NoMove
    BY DEF DefaultCell
  <2>2. QED BY <1>2, <2>1 DEF Cells, IsOk
<1>4. QED BY <1>2, <1>3

\* At the start nothing is written, and every line is the cells before the root.
LEMMA HistInvInit == HistInit => HistInv
<1> SUFFICES ASSUME HistInit PROVE HistInv
  OBVIOUS
<1>1. ASSUME NEW w \in Workers PROVE Lined(w)
  <2>1. NewStack \in Seq(Cells) /\ Len(NewStack) = StackBase + 1
    <3> DEFINE n == StackBase + 1
               st == [i \in 1..n |-> DefaultCell]
    <3>1. n \in Nat
      BY DEF StackBase
    <3> HIDE DEF n
    <3>2. st \in [1..n -> Cells]
      BY NewCells
    <3>3. DOMAIN st = 1..n
      OBVIOUS
    <3> HIDE DEF st
    <3>4. st \in Seq(Cells) /\ DOMAIN st = 1..Len(st) /\ Len(st) \in Nat
      BY <3>1, <3>2
    <3>5. Len(st) = n
      BY <3>1, <3>3, <3>4
    <3>6. QED BY <3>4, <3>5 DEF NewStack, st, n
  <2>2. stack[w] = NewStack
    BY DEF HistInit
  <2>3. StackBase + 1 >= StackBase + 1
    BY DEF StackBase
  <2>4. QED BY <2>1, <2>2, <2>3 DEF Lined
<1>2. EntriesGood(0, <<>>)
  <2>1. DOMAIN <<>> = {}
    OBVIOUS
  <2>2. QED BY <2>1 DEF EntriesGood, EntriesWithin
<1>3. \A w \in Workers : private[w] = <<>> /\ todo[w] = <<>> /\ loaded[w] = <<>>
  BY DEF HistInit
<1>4. /\ fill \in {"fresh", "high", "low"} /\ shared = <<>> /\ DOMAIN stack = Workers
      /\ DOMAIN private = Workers /\ DOMAIN todo = Workers /\ DOMAIN loaded = Workers
  BY DEF HistInit
<1>5. <<>> \in Seq(Updates)
  OBVIOUS
<1>6. QED BY <1>1, <1>2, <1>3, <1>4, <1>5 DEF HistInv

\* A child entered by a move: the cell's planes are that move's.
LEMMA EnterKeeps ==
    ASSUME HistInv, NEW w \in Workers, NEW m \in Scripts[w].moves, NEW p \in Scripts[w].profiles,
           Enter(w, m, p)
    PROVE  HistInv'
<1> DEFINE c == [Here(w) EXCEPT
                   !.move = m, !.moveCount = p.moveCount, !.statScore = p.statScore,
                   !.contHist = PlaneIndex(Here(w).inCheck, IsCapture(m), m.piece, m.to),
                   !.contCorr = PlaneOf(m.piece, m.to), !.fresh = FALSE]
<1>1. /\ m \in GoodMoves /\ p.moveCount \in Nat /\ p.statScore \in Int
      /\ p.inCheck \in BOOLEAN /\ p.ttHit \in BOOLEAN
  BY ScriptsGood
<1>2. Here(w) \in Cells /\ Here(w).inCheck \in BOOLEAN
  BY LineCells DEF HistInv
<1>3. /\ PlaneOf(m.piece, m.to) \in Nat /\ PlaneOf(m.piece, m.to) >= 1
      /\ PlaneIndex(Here(w).inCheck, IsCapture(m), m.piece, m.to) \in Nat
      /\ PlaneIndex(Here(w).inCheck, IsCapture(m), m.piece, m.to) >= 1
  <2>1. m.piece \in RealPieces /\ m.to \in 0..(BoardSquares - 1) /\ PlaneOf(m.piece, m.to) # 0
    BY <1>1, MoveFields
  <2>2. IsCapture(m) \in BOOLEAN
    BY DEF IsCapture
  <2>3. PlaneOf(m.piece, m.to) \in Nat
    BY <2>1, Places
  <2>4. /\ PlaneIndex(Here(w).inCheck, IsCapture(m), m.piece, m.to) \in Nat
        /\ PlaneIndex(Here(w).inCheck, IsCapture(m), m.piece, m.to) >= PlaneOf(m.piece, m.to)
    BY <1>2, <2>1, <2>2, Places
  <2>5. QED BY <2>1, <2>3, <2>4
<1>4. c \in Cells
  BY <1>1, <1>2, <1>3 DEF Cells, IsOk
<1>5. NewCell(p) \in Cells
  BY <1>1, NewCells DEF NewCell
<1>6. /\ stack' = [stack EXCEPT ![w] = Append([@ EXCEPT ![Len(@)] = c], NewCell(p))]
      /\ UNCHANGED <<private, shared, todo, loaded, fill, events>>
  BY DEF Enter
<1> HIDE DEF c
<1>7. QED BY <1>4, <1>5, <1>6, ChildKeeps

\* A null move: the cell's planes are the sentinel's.
LEMMA EnterNullKeeps ==
    ASSUME HistInv, NEW w \in Workers, NEW p \in Scripts[w].profiles, EnterNull(w, p)
    PROVE  HistInv'
<1>1. p.inCheck \in BOOLEAN /\ p.ttHit \in BOOLEAN
  BY ScriptsGood
<1>2. Here(w) \in Cells
  BY LineCells DEF HistInv
<1> DEFINE c == PassCell(Here(w))
<1>3. c \in Cells
  BY <1>2 DEF PassCell, Cells, IsOk, SentinelPlane
<1>4. NewCell(p) \in Cells
  BY <1>1, NewCells DEF NewCell
<1>5. stack' = [stack EXCEPT ![w] = Append([@ EXCEPT ![Len(@)] = c], NewCell(p))]
  BY DEF EnterNull
<1>6. UNCHANGED <<private, shared, todo, loaded, fill, events>>
  BY DEF EnterNull
<1> HIDE DEF c
<1>7. QED BY <1>3, <1>4, <1>5, <1>6, ChildKeeps

\* The node is entered again on its own cell.
LEMMA ReenterKeeps ==
    ASSUME HistInv, NEW w \in Workers, NEW a \in Scripts[w].again, Reenter(w, a)
    PROVE  HistInv'
<1>1. a.kind \in {"verify", "singular"} /\ a.ttHit \in BOOLEAN
  BY ScriptsGood
<1>2. Here(w) \in Cells
  BY LineCells DEF HistInv
<1> DEFINE c == Reentered(Here(w), a)
<1>3. c \in Cells
  BY <1>1, <1>2 DEF Reentered, Cells, IsOk
<1>4. /\ stack' = [stack EXCEPT ![w][Top(w)] = c]
      /\ UNCHANGED <<private, shared, todo, loaded, fill, events>>
  BY DEF Reenter, Here
<1> HIDE DEF c
<1>5. DOMAIN stack' = Workers /\ \A v \in Workers : Lined(v)'
  BY <1>3, <1>4, CellKeeps
<1>6. QED BY <1>4, <1>5 DEF HistInv, EntriesGood, EntriesWithin, Within

\* A node that learns and returns keeps all.
LEMMA ReturnKeepsAll ==
    ASSUME HistInv, NEW w \in Workers, NEW updates \in Seq(Updates), Return(w, updates)
    PROVE  HistInv'
<1>1. Idle(w) /\ Line(w) > 0 /\ Apply(w, updates) /\ Leave(w) /\ UNCHANGED <<shared, loaded, fill>>
  BY DEF Return
<1>2. DOMAIN stack' = Workers /\ \A v \in Workers : Lined(v)'
  BY <1>1, LeaveKeeps
<1>3. QED BY <1>1, <1>2, ApplyKeeps

\* The table's move cuts.
LEMMA TTCutKeeps ==
    ASSUME HistInv, NEW w \in Workers, NEW m \in Scripts[w].moves, NEW o \in Scripts[w].outcomes,
           NEW key \in PositionKeys, TTCut(w, m, o, key)
    PROVE  HistInv'
<1> DEFINE early == CellsBefore(w).moveCount <= 4 /\ ~PriorCapture(w)
           updates == When(~IsCapture(m),
                           UpdateQuietHistories(stack[w], Top(w), key, m, Capped(130 * o.depth - 71, 1043)))
                      \o When(IsOk(CellsBefore(w)) /\ early,
                              UpdateContinuationHistories(stack[w], Top(w) - 1, CellsBefore(w).move.piece,
                                                          CellsBefore(w).move.to, -2142))
<1>1. m \in GoodMoves /\ o.depth \in Int /\ key \in Nat /\ Lined(w)
  BY ScriptsGood, ScriptsAssumption DEF Outcomes, HistInv
<1>2. updates \in Seq(Updates)
  <2> HIDE DEF early
  <2>1. QED BY <1>1, TTCutUpdates
<1>3. Return(w, updates)
  BY DEF TTCut
<1> HIDE DEF updates
<1>4. QED BY <1>2, <1>3, ReturnKeepsAll

\* The evaluation turns.
LEMMA EvalDiffKeeps ==
    ASSUME HistInv, NEW w \in Workers, NEW sum \in Scripts[w].diffs, NEW key \in PositionKeys,
           EvalDiff(w, sum, key)
    PROVE  HistInv'
<1> DEFINE diff == Clamp(-sum, -214, 171) + 60
           cond == ~Here(w).ttHit /\ NotPawn(CellsBefore(w).move.piece) /\ ~CellsBefore(w).move.promote
           updates == <<Update("main", ButterflyIndex(1 - Us(Top(w)), CellsBefore(w).move), diff * 10)>>
                      \o When(cond, <<Update("pawn", PawnIndex(key, CellsBefore(w).move.piece,
                                                               CellsBefore(w).move.to), diff * 12)>>)
<1>1. diff \in Int /\ key \in Nat /\ Lined(w) /\ IsOk(CellsBefore(w))
  BY ScriptsAssumption DEF HistInv, EvalDiff, Clamp
<1>2. Stay(w, updates) /\ stack' = [stack EXCEPT ![w][Top(w)].fresh = FALSE]
  BY DEF EvalDiff
<1>3. updates \in Seq(Updates)
  <2> HIDE DEF cond, diff
  <2>1. QED BY <1>1, EvalDiffUpdates
<1> HIDE DEF updates
<1>4. DOMAIN stack' = Workers /\ \A v \in Workers : Lined(v)'
  <2> DEFINE c == [Here(w) EXCEPT !.fresh = FALSE]
  <2>1. Here(w) \in Cells
    BY <1>1, LineCells
  <2>2. c \in Cells
    BY <2>1 DEF Cells, IsOk
  <2>3. stack' = [stack EXCEPT ![w][Top(w)] = c]
    BY <1>2 DEF Here
  <2> HIDE DEF c
  <2>4. QED BY <2>2, <2>3, CellKeeps
<1>5. QED BY <1>2, <1>3, <1>4, ApplyKeeps DEF Stay

\* A singular search cuts.
LEMMA MultiCutKeeps ==
    ASSUME HistInv, NEW w \in Workers, NEW o \in Scripts[w].outcomes, MultiCut(w, o)
    PROVE  HistInv'
<1> DEFINE bonus == -Capped(424 + 107 * o.depth, 3375)
<1>1. bonus \in Int
  BY ScriptsGood DEF Outcomes, Capped
<1>2. Return(w, <<Update("tt_move", 0, bonus)>>)
  BY DEF MultiCut
<1> HIDE DEF bonus
<1>3. <<Update("tt_move", 0, bonus)>> \in Seq(Updates)
  BY <1>1, TTMoveUpdates
<1>4. QED BY <1>2, <1>3, ReturnKeepsAll

\* A reduced move is searched again.
LEMMA ResearchedKeeps ==
    ASSUME HistInv, NEW w \in Workers, Researched(w)
    PROVE  HistInv'
<1> DEFINE updates == UpdateContinuationHistories(stack[w], Top(w), Here(w).move.piece,
                                                  Here(w).move.to, 1426)
<1>1. Lined(w) /\ Here(w).move \in GoodMoves
  BY LineCells DEF HistInv, Researched
<1>2. updates \in Seq(Updates)
  <2>1. Here(w).move.piece \in RealPieces /\ Here(w).move.to \in 0..(BoardSquares - 1)
    BY <1>1, MoveFields
  <2>2. Top(w) \in StackBase..Len(stack[w]) /\ stack[w] \in Seq(Cells) /\ 1426 \in Int
    BY <1>1, LineCells DEF Lined
  <2>3. QED BY <2>1, <2>2, ContinuationUpdates
<1>3. Stay(w, updates) /\ stack' = stack
  BY DEF Researched
<1> HIDE DEF updates
<1>4. DOMAIN stack' = Workers /\ \A v \in Workers : Lined(v)'
  BY <1>3 DEF HistInv, Lined
<1>5. QED BY <1>2, <1>3, <1>4, ApplyKeeps DEF Stay

\* A node found a best move.
LEMMA BestFoundKeeps ==
    ASSUME HistInv, NEW w \in Workers, NEW best \in Scripts[w].moves, NEW other \in Scripts[w].moves,
           NEW o \in Scripts[w].outcomes, NEW key \in PositionKeys, BestFound(w, best, other, o, key)
    PROVE  HistInv'
<1> DEFINE first == FromBest(w, key, best, other, o)
           quiet == ~IsCapture(best)
           second == Correction(w, key, o, quiet)
<1>1. best \in GoodMoves /\ other \in GoodMoves /\ o \in Outcomes /\ key \in Nat /\ Lined(w)
  BY ScriptsGood, ScriptsAssumption DEF HistInv
<1>2. Return(w, first \o second)
  BY DEF BestFound
<1>3. first \in Seq(Updates)
  BY <1>1, BestUpdates
<1>4. second \in Seq(Updates)
  <2> HIDE DEF quiet
  <2>1. QED BY <1>1, CorrectedUpdates
<1> HIDE DEF first, second
<1>5. first \o second \in Seq(Updates)
  BY <1>3, <1>4
<1>6. QED BY <1>2, <1>5, ReturnKeepsAll

\* A node raised nothing.
LEMMA FailedLowKeeps ==
    ASSUME HistInv, NEW w \in Workers, NEW o \in Scripts[w].outcomes, NEW key \in PositionKeys,
           FailedLow(w, o, key)
    PROVE  HistInv'
<1> DEFINE prev == CellsBefore(w)
           first == IF ~IsOk(prev) THEN <<>>
                    ELSE IF PriorCapture(w) THEN CaptureUpdate(prev.move, 1018)
                    ELSE FromFailLow(w, key, o)
           second == Correction(w, key, o, TRUE)
<1>1. o \in Outcomes /\ key \in Nat /\ Lined(w)
  BY ScriptsGood, ScriptsAssumption DEF HistInv
<1>2. Return(w, first \o second)
  BY DEF FailedLow
<1>3. first \in Seq(Updates)
  <2>1. CASE ~IsOk(prev)
    BY <2>1
  <2>2. CASE IsOk(prev)
    <3>1. prev.move \in GoodMoves
      BY <1>1, <2>2, LineCells
    <3>2. CaptureUpdate(prev.move, 1018) \in Seq(Updates)
      BY <3>1, CaptureUpdates
    <3>3. FromFailLow(w, key, o) \in Seq(Updates)
      BY <1>1, <2>2, FailLowUpdates
    <3>4. QED BY <2>2, <3>2, <3>3
  <2>3. QED BY <2>1, <2>2
<1>4. second \in Seq(Updates)
  BY <1>1, CorrectedUpdates
<1> HIDE DEF first, second
<1>5. first \o second \in Seq(Updates)
  BY <1>3, <1>4
<1>6. QED BY <1>2, <1>5, ReturnKeepsAll

\* A shared entry is loaded: what is loaded is within its bound.
LEMMA LoadSharedKeeps ==
    ASSUME HistInv, NEW w \in Workers, LoadShared(w)
    PROVE  HistInv'
<1> DEFINE u == Head(todo[w])
           v == Read(shared, u.entry)
<1>1. u \in Updates
  <2>1. todo[w] \in Seq(Updates) /\ todo[w] # <<>>
    BY DEF HistInv, LoadShared
  <2>2. QED BY <2>1
<1>2. v \in Int /\ Within(v, D[u.entry[1]])
  <2> HIDE DEF u
  <2>1. EntriesWithin(shared) /\ fill \in {"fresh", "high", "low"} /\ u.entry[1] \in Tables
    BY <1>1, UpdateFields DEF HistInv, EntriesGood
  <2>2. QED BY <2>1, ReadWithin
<1>3. loaded' = [loaded EXCEPT ![w] = <<v>>]
  BY DEF LoadShared
<1> HIDE DEF v
<1>4. DOMAIN loaded' = Workers /\ todo' = todo
  BY <1>3 DEF HistInv, LoadShared
<1>5. ASSUME NEW x \in Workers, loaded'[x] # <<>>
      PROVE  todo[x] # <<>> /\ loaded'[x][1] \in Int /\ Within(loaded'[x][1], D[Head(todo[x]).entry[1]])
  <2>1. CASE x = w
    <3>1. loaded'[x][1] = v
      BY <1>3, <2>1 DEF HistInv
    <3>2. QED BY <1>2, <2>1, <3>1 DEF LoadShared
  <2>2. CASE x # w
    <3>1. loaded'[x] = loaded[x]
      BY <1>3, <2>2 DEF HistInv
    <3>2. QED BY <1>5, <3>1 DEF HistInv
  <2>3. QED BY <2>1, <2>2
<1>6. UNCHANGED <<stack, private, shared, todo, fill, events>>
  BY DEF LoadShared
<1>7. QED BY <1>4, <1>5, <1>6 DEF HistInv, Lined, EntriesGood, EntriesWithin, Within

\* A shared entry is stored, from a value loaded some time ago.
LEMMA StoreSharedKeeps ==
    ASSUME HistInv, NEW w \in Workers, StoreShared(w)
    PROVE  HistInv'
<1> DEFINE u == Head(todo[w])
           v == apply_gravity(loaded[w][1], u.bonus, D[u.entry[1]])
<1>1. /\ todo[w] \in Seq(Updates) /\ todo[w] # <<>>
      /\ loaded[w][1] \in Int /\ Within(loaded[w][1], D[u.entry[1]])
  BY DEF HistInv, StoreShared
<1>2. u \in Updates /\ Tail(todo[w]) \in Seq(Updates)
  BY <1>1
<1>3. v \in Int /\ Within(v, D[u.entry[1]])
  <2> HIDE DEF u
  <2>1. u.entry[1] \in Tables /\ u.bonus \in Int /\ D[u.entry[1]] \in Nat \ {0}
    BY <1>2, UpdateFields, TableBounds
  <2>2. QED BY <1>1, <2>1, GravityBounded
<1>4. shared' = Write(shared, u.entry, v)
  BY DEF StoreShared
<1> HIDE DEF u, v
<1>5. EntriesGood(0, shared')
  BY <1>2, <1>3, <1>4, WriteGood DEF HistInv
<1>6. /\ DOMAIN todo' = Workers /\ \A x \in Workers : todo'[x] \in Seq(Updates)
      /\ DOMAIN loaded' = Workers /\ loaded'[w] = <<>>
      /\ \A x \in Workers \ {w} : todo'[x] = todo[x] /\ loaded'[x] = loaded[x]
  BY <1>2 DEF HistInv, StoreShared
<1>7. ASSUME NEW x \in Workers, loaded'[x] # <<>>
      PROVE  todo'[x] # <<>> /\ loaded'[x][1] \in Int
             /\ Within(loaded'[x][1], D[Head(todo'[x]).entry[1]])
  <2>1. todo'[x] = todo[x] /\ loaded'[x] = loaded[x]
    BY <1>6, <1>7
  <2>2. QED BY <1>7, <2>1 DEF HistInv
<1>8. UNCHANGED <<stack, private, fill, events>>
  BY DEF StoreShared
<1>9. QED BY <1>5, <1>6, <1>7, <1>8 DEF HistInv, Lined, EntriesGood, EntriesWithin, Within

\* Every step of the histories keeps what they are.
LEMMA HistInvNext == HistInv /\ HistNext => HistInv'
<1> SUFFICES ASSUME HistInv, HistNext PROVE HistInv'
  OBVIOUS
<1>1. PICK w \in Workers :
        \/ \E m \in Scripts[w].moves, p \in Scripts[w].profiles : Enter(w, m, p)
        \/ \E p \in Scripts[w].profiles : EnterNull(w, p)
        \/ \E a \in Scripts[w].again : Reenter(w, a)
        \/ \E m \in Scripts[w].moves, o \in Scripts[w].outcomes, key \in PositionKeys : TTCut(w, m, o, key)
        \/ \E sum \in Scripts[w].diffs, key \in PositionKeys : EvalDiff(w, sum, key)
        \/ \E o \in Scripts[w].outcomes : MultiCut(w, o)
        \/ Researched(w)
        \/ \E best, other \in Scripts[w].moves, o \in Scripts[w].outcomes, key \in PositionKeys :
              BestFound(w, best, other, o, key)
        \/ \E o \in Scripts[w].outcomes, key \in PositionKeys : FailedLow(w, o, key)
        \/ LoadShared(w)
        \/ StoreShared(w)
  BY DEF HistNext
<1>2. CASE \E m \in Scripts[w].moves, p \in Scripts[w].profiles : Enter(w, m, p)
  BY <1>2, EnterKeeps
<1>3. CASE \E p \in Scripts[w].profiles : EnterNull(w, p)
  BY <1>3, EnterNullKeeps
<1>3a. CASE \E a \in Scripts[w].again : Reenter(w, a)
  BY <1>3a, ReenterKeeps
<1>4. CASE \E m \in Scripts[w].moves, o \in Scripts[w].outcomes, key \in PositionKeys : TTCut(w, m, o, key)
  BY <1>4, TTCutKeeps
<1>5. CASE \E sum \in Scripts[w].diffs, key \in PositionKeys : EvalDiff(w, sum, key)
  BY <1>5, EvalDiffKeeps
<1>6. CASE \E o \in Scripts[w].outcomes : MultiCut(w, o)
  BY <1>6, MultiCutKeeps
<1>7. CASE Researched(w)
  BY <1>7, ResearchedKeeps
<1>8. CASE \E best, other \in Scripts[w].moves, o \in Scripts[w].outcomes, key \in PositionKeys :
              BestFound(w, best, other, o, key)
  BY <1>8, BestFoundKeeps
<1>9. CASE \E o \in Scripts[w].outcomes, key \in PositionKeys : FailedLow(w, o, key)
  BY <1>9, FailedLowKeeps
<1>10. CASE LoadShared(w)
  BY <1>10, LoadSharedKeeps
<1>11. CASE StoreShared(w)
  BY <1>11, StoreSharedKeeps
<1>12. QED BY <1>1, <1>2, <1>3, <1>3a, <1>4, <1>5, <1>6, <1>7, <1>8, <1>9, <1>10, <1>11

----------------------------------------------------------------------------
(* The invariant is enough.                                                *)

\* (ssq.rs) The weighted sum of six entries moves an evaluation by 480 at most.
LEMMA CorrectionInBounds ==
    ASSUME HistInv, NEW w \in Workers, NEW key \in PositionKeys
    PROVE  AbsOf(Quot(CorrectionValue(w, key), 131072)) <= 480
<1> DEFINE prev == CellsBefore(w)
           channel(n) == Read(shared, <<"correction", CorrIndex(key, Us(Top(w)), n)>>)
           contCorr(back) ==
               Read(private[w], <<"continuation_correction",
                   ContinuationCell(stack[w][Top(w) - back].contCorr, prev.move.piece, prev.move.to)>>)
           cnt == IF IsOk(prev) THEN contCorr(2) + contCorr(4) ELSE 8
<1>1. D["correction"] = 1024 /\ D["continuation_correction"] = 1024
      /\ "correction" \in Tables /\ "continuation_correction" \in Tables
  BY DEF D, Tables
<1>2. /\ fill \in {"fresh", "high", "low"} /\ EntriesWithin(shared) /\ EntriesWithin(private[w])
  BY DEF HistInv, EntriesGood
<1>3. ASSUME NEW n PROVE channel(n) \in Int /\ -1024 <= channel(n) /\ channel(n) <= 1024
  <2> DEFINE e == <<"correction", CorrIndex(key, Us(Top(w)), n)>>
  <2>1. e[1] = "correction"
    OBVIOUS
  <2> HIDE DEF e
  <2>2. Read(shared, e) \in Int /\ Within(Read(shared, e), D[e[1]])
    BY <1>1, <1>2, <2>1, ReadWithin
  <2>3. QED BY <1>1, <2>1, <2>2 DEF e, Within
<1>4. ASSUME NEW back PROVE contCorr(back) \in Int /\ -1024 <= contCorr(back) /\ contCorr(back) <= 1024
  <2> DEFINE e == <<"continuation_correction",
                    ContinuationCell(stack[w][Top(w) - back].contCorr, prev.move.piece, prev.move.to)>>
  <2>1. e[1] = "continuation_correction"
    OBVIOUS
  <2> HIDE DEF e
  <2>2. Read(private[w], e) \in Int /\ Within(Read(private[w], e), D[e[1]])
    BY <1>1, <1>2, <2>1, ReadWithin
  <2>3. QED BY <1>1, <2>1, <2>2 DEF e, Within
<1>5. CorrectionValue(w, key)
        = 12153 * channel(0) + 8620 * channel(1) + 12355 * (channel(2) + channel(3)) + 7982 * cnt
  BY DEF CorrectionValue
<1> HIDE DEF channel, contCorr
<1>6. cnt \in Int /\ -2048 <= cnt /\ cnt <= 2048
  BY <1>4
<1>7. /\ channel(0) \in Int /\ -1024 <= channel(0) /\ channel(0) <= 1024
      /\ channel(1) \in Int /\ -1024 <= channel(1) /\ channel(1) <= 1024
      /\ channel(2) \in Int /\ -1024 <= channel(2) /\ channel(2) <= 1024
      /\ channel(3) \in Int /\ -1024 <= channel(3) /\ channel(3) <= 1024
  BY <1>3
<1> HIDE DEF cnt
<1> DEFINE x == CorrectionValue(w, key)
<1>8. x \in Int /\ -62921728 <= x /\ x <= 62921728
  BY <1>5, <1>6, <1>7
<1> HIDE DEF x
<1>9. AbsOf(Quot(x, 131072)) <= 480
  BY <1>8 DEF AbsOf, Quot
<1>10. QED BY <1>9 DEF x

\* A function that is one to one and onto keeps the number of elements.
LEMMA SameNumber ==
    ASSUME NEW S, IsFiniteSet(S), NEW T, NEW f \in [S -> T],
           \A x, y \in S : f[x] = f[y] => x = y, \A t \in T : \E x \in S : f[x] = t
    PROVE  Cardinality(T) = Cardinality(S)
<1>1. f \in Bijection(S, T)
  BY DEF Bijection, Injection, Surjection, IsInjective
<1>2. QED BY <1>1, FS_Bijection DEF ExistsBijection

\* A piece and its code: the fields of a code are those of the piece.
LEMMA CodesDistinct ==
    ASSUME NEW p \in RealPieces, NEW q \in RealPieces
    PROVE  /\ p = [kind |-> p.kind, promoted |-> p.promoted, white |-> p.white]
           /\ piece_code(p) \in 0..(PieceNb - 1)
           /\ captured_code(p) \in 1..(CapturedNb - 1)
           /\ piece_code(p) = piece_code(q) => p = q
           /\ captured_code(p) = captured_code(q) /\ p.white = q.white => p = q
<1>1. /\ p.kind \in 0..7 /\ p.promoted \in BOOLEAN /\ p.white \in BOOLEAN
      /\ q.kind \in 0..7 /\ q.promoted \in BOOLEAN /\ q.white \in BOOLEAN
      /\ p = [kind |-> p.kind, promoted |-> p.promoted, white |-> p.white]
      /\ q = [kind |-> q.kind, promoted |-> q.promoted, white |-> q.white]
  BY DEF RealPieces, AllPieces
<1>2. piece_code(p) = piece_code(q) => p.kind = q.kind /\ p.promoted = q.promoted /\ p.white = q.white
  BY <1>1 DEF piece_code, One
<1>3. captured_code(p) = captured_code(q) => p.kind = q.kind /\ p.promoted = q.promoted
  BY <1>1 DEF captured_code, One
<1>4. piece_code(p) \in 0..(PieceNb - 1)
  BY <1>1 DEF piece_code, One, PieceNb
<1>5. captured_code(p) \in 1..(CapturedNb - 1)
  <2>1. ~(p.promoted /\ p.kind = 7)
    BY DEF RealPieces
  <2>2. QED BY <1>1, <2>1 DEF captured_code, One, CapturedNb
<1>6. QED BY <1>1, <1>2, <1>3, <1>4, <1>5

\* How many numbers there are up to one.
LEMMA IntervalNumber ==
    ASSUME NEW n \in Nat
    PROVE  IsFiniteSet(0..n) /\ Cardinality(0..n) = n + 1
BY FS_Interval

\* How many elements there are in a pair.
LEMMA PairNumber ==
    ASSUME NEW a, NEW b, a # b
    PROVE  IsFiniteSet({a, b}) /\ Cardinality({a, b}) = 2
<1>1. IsFiniteSet({a}) /\ Cardinality({a}) = 1
  BY FS_Singleton
<1>2. IsFiniteSet({a} \cup {b}) /\ Cardinality({a} \cup {b}) = Cardinality({a}) + 1
  BY <1>1, FS_AddElement
<1>3. {a} \cup {b} = {a, b}
  OBVIOUS
<1>4. QED BY <1>1, <1>2, <1>3

\* There are finitely many pieces.
LEMMA PiecesFinite == IsFiniteSet(RealPieces)
<1> DEFINE f == [p \in RealPieces |-> piece_code(p)]
           codes == 0..(PieceNb - 1)
<1>1. f \in [RealPieces -> codes]
  BY CodesDistinct
<1>2. \A p, q \in RealPieces : f[p] = f[q] => p = q
  BY CodesDistinct
<1>3. f \in Injection(RealPieces, codes)
  <2> HIDE DEF f, codes
  <2>1. QED BY <1>1, <1>2 DEF Injection, IsInjective
<1>4. IsFiniteSet(codes)
  <2>1. codes = 0..31
    BY DEF PieceNb
  <2>2. IsFiniteSet(0..31)
    BY IntervalNumber
  <2>3. QED BY <2>1, <2>2
<1> HIDE DEF f, codes
<1>5. QED BY <1>3, <1>4, FS_Injection

\* (types.rs, history.rs) As many planes as sides in check, captures, pieces and
\* squares together.
LEMMA PlanesDistinct ==
    Cardinality({PlaneIndex(b, c, p, to) : b, c \in BOOLEAN, p \in RealPieces, to \in 0..(BoardSquares - 1)})
        = 4 * BoardSquares * Cardinality(RealPieces)
<1> DEFINE Sq == 0..80
           S == (BOOLEAN \X BOOLEAN) \X (RealPieces \X Sq)
           T == {PlaneIndex(b, c, p, to) : b, c \in BOOLEAN, p \in RealPieces, to \in Sq}
           f == [x \in S |-> PlaneIndex(x[1][1], x[1][2], x[2][1], x[2][2])]
<1>1. IsFiniteSet(BOOLEAN) /\ Cardinality(BOOLEAN) = 2
  <2>1. IsFiniteSet({TRUE, FALSE}) /\ Cardinality({TRUE, FALSE}) = 2
    BY PairNumber, Zenon
  <2>2. BOOLEAN = {TRUE, FALSE}
    OBVIOUS
  <2>3. QED BY <2>1, <2>2, Zenon
<1>2. IsFiniteSet(Sq) /\ Cardinality(Sq) = 81
  <2>1. IsFiniteSet(0..80) /\ Cardinality(0..80) = 80 + 1
    BY IntervalNumber
  <2>2. QED BY <2>1
<1>3. IsFiniteSet(S) /\ Cardinality(S) = 4 * (Cardinality(RealPieces) * 81)
  <2>1. IsFiniteSet(BOOLEAN \X BOOLEAN) /\ Cardinality(BOOLEAN \X BOOLEAN) = 4
    <3>1. IsFiniteSet(BOOLEAN \X BOOLEAN)
          /\ Cardinality(BOOLEAN \X BOOLEAN) = Cardinality(BOOLEAN) * Cardinality(BOOLEAN)
      BY <1>1, FS_Product
    <3>2. QED BY <1>1, <3>1
  <2>2. IsFiniteSet(RealPieces \X Sq) /\ Cardinality(RealPieces \X Sq) = Cardinality(RealPieces) * 81
    <3> HIDE DEF Sq
    <3>1. QED BY <1>2, PiecesFinite, FS_Product
  <2>3. IsFiniteSet(S)
        /\ Cardinality(S) = Cardinality(BOOLEAN \X BOOLEAN) * Cardinality(RealPieces \X Sq)
    BY <2>1, <2>2, FS_Product
  <2> HIDE DEF S
  <2>4. QED BY <2>1, <2>2, <2>3
<1>4. f \in [S -> T]
  OBVIOUS
<1>5. \A x, y \in S : f[x] = f[y] => x = y
  <2>1. ASSUME NEW x \in S
        PROVE  \E b, c \in BOOLEAN, p \in RealPieces, to \in Sq :
                  x = <<<<b, c>>, <<p, to>>>> /\ f[x] = PlaneIndex(b, c, p, to)
    <3>1. PICK bc \in BOOLEAN \X BOOLEAN, pt \in RealPieces \X Sq : x = <<bc, pt>>
      OBVIOUS
    <3>2. PICK b \in BOOLEAN, c \in BOOLEAN : bc = <<b, c>>
      OBVIOUS
    <3>3. PICK p \in RealPieces, to \in Sq : pt = <<p, to>>
      OBVIOUS
    <3>4. x = <<<<b, c>>, <<p, to>>>>
      BY <3>1, <3>2, <3>3
    <3>5. f[x] = PlaneIndex(b, c, p, to)
      BY <3>4
    <3>6. QED BY <3>4, <3>5
  <2>2. ASSUME NEW x \in S, NEW y \in S, f[x] = f[y] PROVE x = y
    <3> HIDE DEF S, f, Sq
    <3>1. PICK b \in BOOLEAN, c \in BOOLEAN, p \in RealPieces, to \in Sq :
                  x = <<<<b, c>>, <<p, to>>>> /\ f[x] = PlaneIndex(b, c, p, to)
      BY <2>1, Zenon
    <3>2. PICK b2 \in BOOLEAN, c2 \in BOOLEAN, p2 \in RealPieces, to2 \in Sq :
                  y = <<<<b2, c2>>, <<p2, to2>>>> /\ f[y] = PlaneIndex(b2, c2, p2, to2)
      BY <2>1, Zenon
    <3>3. PlaneIndex(b, c, p, to) = PlaneIndex(b2, c2, p2, to2)
      BY <2>2, <3>1, <3>2
    <3>4. b = b2 /\ c = c2 /\ p = p2 /\ to = to2
      <4> DEFINE k == piece_code(p)
                 k2 == piece_code(p2)
      <4>1. ((One(b) * 2 + One(c)) * 32 + k) * 81 + to = ((One(b2) * 2 + One(c2)) * 32 + k2) * 81 + to2
        BY <3>3 DEF PlaneIndex, PieceNb, BoardSquares
      <4>2. k \in 0..31 /\ k2 \in 0..31
        BY CodesDistinct DEF PieceNb
      <4> HIDE DEF k, k2
      <4>3. b = b2 /\ c = c2 /\ k = k2 /\ to = to2
        BY <4>1, <4>2 DEF One, Sq
      <4>4. QED BY <4>3, CodesDistinct DEF k, k2
    <3>5. QED BY <3>1, <3>2, <3>4
  <2> HIDE DEF S, f
  <2>3. QED BY <2>2, Zenon
<1>6. \A t \in T : \E x \in S : f[x] = t
  <2>1. ASSUME NEW b \in BOOLEAN, NEW c \in BOOLEAN, NEW p \in RealPieces, NEW to \in Sq
        PROVE  \E x \in S : f[x] = PlaneIndex(b, c, p, to)
    <3>1. <<<<b, c>>, <<p, to>>>> \in S
      OBVIOUS
    <3>2. f[<<<<b, c>>, <<p, to>>>>] = PlaneIndex(b, c, p, to)
      BY <3>1
    <3> HIDE DEF S, f
    <3>3. QED BY <3>1, <3>2
  <2> HIDE DEF S, f
  <2>2. ASSUME NEW t \in T PROVE \E x \in S : f[x] = t
    <3>1. PICK b \in BOOLEAN, c \in BOOLEAN, p \in RealPieces, to \in Sq : t = PlaneIndex(b, c, p, to)
      OBVIOUS
    <3> HIDE DEF Sq, T
    <3>2. PICK x \in S : f[x] = PlaneIndex(b, c, p, to)
      BY <2>1, Zenon
    <3>3. QED BY <3>1, <3>2, Zenon
  <2> HIDE DEF T
  <2>3. QED BY <2>2, Zenon
<1> HIDE DEF S, f, T
<1>7. Cardinality(T) = Cardinality(S)
  BY <1>3, <1>4, <1>5, <1>6, SameNumber
<1>8. Cardinality(RealPieces) \in Nat
  BY PiecesFinite, FS_CardinalityType
<1>9. Cardinality(T) = 4 * 81 * Cardinality(RealPieces)
  BY <1>3, <1>7, <1>8
<1>10. BoardSquares = 81 /\ BoardSquares - 1 = 80
  BY DEF BoardSquares
<1>11. QED BY <1>9, <1>10 DEF T

\* Two keys of a table never share an entry.
LEMMA IndexesAreDistinct == IndexesDistinct
<1>1. Cardinality({piece_code(p) : p \in RealPieces}) = Cardinality(RealPieces)
  <2> DEFINE T == {piece_code(p) : p \in RealPieces}
             f == [p \in RealPieces |-> piece_code(p)]
  <2>1. f \in [RealPieces -> T] /\ \A t \in T : \E x \in RealPieces : f[x] = t
    OBVIOUS
  <2>2. \A p, q \in RealPieces : f[p] = f[q] => p = q
    BY CodesDistinct
  <2> HIDE DEF f, T
  <2>3. Cardinality(T) = Cardinality(RealPieces)
    BY <2>1, <2>2, PiecesFinite, SameNumber
  <2>4. QED BY <2>3 DEF T
<1>2. \A p \in RealPieces : piece_code(p) \in 0..(PieceNb - 1)
  BY CodesDistinct
<1>3. Cardinality({captured_code(p) : p \in Victims} \ {0}) = Cardinality(Victims)
  <2> DEFINE T == {captured_code(p) : p \in Victims}
             f == [p \in Victims |-> captured_code(p)]
  <2>1. f \in [Victims -> T] /\ \A t \in T : \E x \in Victims : f[x] = t
    OBVIOUS
  <2>2. \A p \in Victims : p \in RealPieces /\ p.white = FALSE
    BY DEF Victims, RealPieces, AllPieces
  <2>3. \A p, q \in Victims : f[p] = f[q] => p = q
    BY <2>2, CodesDistinct
  <2>4. T \ {0} = T
    <3>1. \A p \in Victims : captured_code(p) \in 1..(CapturedNb - 1)
      BY <2>2, CodesDistinct
    <3>2. \A p \in Victims : captured_code(p) # 0
      BY <3>1
    <3>3. QED BY <3>2
  <2>5. IsFiniteSet(Victims)
    BY PiecesFinite, FS_Subset DEF Victims
  <2> HIDE DEF f, T
  <2>6. Cardinality(T) = Cardinality(Victims)
    BY <2>1, <2>3, <2>5, SameNumber
  <2>7. QED BY <2>4, <2>6 DEF T
<1>4. \A p \in Victims : captured_code(p) \in 1..(CapturedNb - 1)
  BY CodesDistinct DEF Victims
<1>5. QED BY <1>1, <1>2, <1>3, <1>4, PlanesDistinct DEF IndexesDistinct

\* What the histories always are is enough for what is asked of them.
LEMMA HistInvEnough == HistInv => HistoriesSound
<1> SUFFICES ASSUME HistInv PROVE HistoriesSound
  OBVIOUS
<1>1. ASSUME NEW entries, EntriesGood(0, entries), NEW e \in DOMAIN entries
      PROVE  AbsOf(entries[e]) <= D[e[1]] /\ (e[1] = "continuation" => e[2] >= PlaneLen)
  <2>1. e[1] \in Tables /\ entries[e] \in Int /\ Within(entries[e], D[e[1]])
    BY <1>1 DEF EntriesGood, EntriesWithin
  <2>2. D[e[1]] \in Int
    BY <2>1, TableBounds
  <2>3. QED BY <1>1, <2>1, <2>2 DEF Within, AbsOf, EntriesGood
<1>2. EntriesBounded
  BY <1>1 DEF EntriesBounded, HistInv
<1>3. SentinelKept
  BY <1>1 DEF SentinelKept, HistInv
<1>4. CorrectionSmall
  BY CorrectionInBounds DEF CorrectionSmall
<1>5. QED BY <1>2, <1>3, <1>4, IndexesAreDistinct DEF HistoriesSound

\* The invariant along the behaviours in which the histories run.
LearnInv == part = "histories" => HistInv

\* (history.rs and the updates of the search) For any workers, scripts and keys,
\* and whatever order the shared entries are loaded and stored in, every entry of
\* every history stays within its table's bound, nothing is learnt in the
\* sentinel's plane, a correction is small and no two keys share an entry.
THEOREM LearnsSoundAlways == Spec => []LearnsSound
<1>1. Init => LearnInv
  <2> SUFFICES ASSUME Init, part = "histories" PROVE HistInv
    BY DEF LearnInv
  <2>1. HistInit
    BY DEF Init
  <2>2. QED BY <2>1, HistInvInit
<1>2. LearnInv /\ [Next]_<<part, evalVars, histVars, bookVars, setupVars, outcomeVars, budgetVars, pvVars>>
        => LearnInv'
  <2> SUFFICES ASSUME LearnInv,
                      [Next]_<<part, evalVars, histVars, bookVars, setupVars, outcomeVars, budgetVars, pvVars>>,
                      part' = "histories"
               PROVE  HistInv'
    BY DEF LearnInv
  <2>1. CASE Next
    <3>1. part = "histories" /\ HistNext
      BY <2>1 DEF Next
    <3>2. QED BY <3>1, HistInvNext DEF LearnInv
  <2>2. CASE UNCHANGED <<part, evalVars, histVars, bookVars, setupVars, outcomeVars, budgetVars, pvVars>>
    <3>1. part = "histories" /\ UNCHANGED histVars
      BY <2>2
    <3>2. HistInv
      BY <3>1 DEF LearnInv
    <3>3. QED BY <3>1, <3>2
        DEF histVars, HistInv, Lined, EntriesGood, EntriesWithin, Within
  <2>3. QED BY <2>1, <2>2
<1>3. LearnInv => LearnsSound
  BY HistInvEnough DEF LearnInv, LearnsSound
<1>4. QED BY <1>1, <1>2, <1>3, PTL DEF Spec


----------------------------------------------------------------------------
(* The budget of a go.                                                     *)

USE SecondAssumption

----------------------------------------------------------------------------
(* Whole seconds.                                                          *)

\* A remainder is what is left of a multiple.
LEMMA Remainder ==
    ASSUME NEW a \in Int
    PROVE  a \div Second \in Int /\ a % Second \in 0..(Second - 1)
           /\ a = Second * (a \div Second) + (a % Second)
<1>1. a \div Second \in Int
  OBVIOUS
<1>2. a % Second \in 0..(Second - 1)
  OBVIOUS
<1>3. a = Second * (a \div Second) + (a % Second)
  OBVIOUS
<1>4. QED
  BY <1>1, <1>2, <1>3

\* Whole seconds have no remainder.
LEMMA NoRemainder ==
    ASSUME NEW q \in Int
    PROVE  Second * q \in Int /\ (Second * q) % Second = 0
<1> DEFINE a == Second * q
           p == a \div Second
           s == a % Second
<1>1. a \in Int
  OBVIOUS
<1>2. p \in Int /\ s \in 0..(Second - 1) /\ a = Second * p + s
  BY <1>1, Remainder
<1>3. a = Second * q
  OBVIOUS
<1> HIDE DEF a, p, s
<1> DEFINE x == q - p
<1>4. x \in Int /\ Second * x = s
  <2>1. Second * (q - p) = Second * q - Second * p
    BY <1>2
  <2>2. Second * q \in Int /\ Second * p \in Int
    BY <1>2
  <2>3. QED BY <1>2, <1>3, <2>1, <2>2
<1> HIDE DEF x
<1>5. x < 1
  <2> SUFFICES ASSUME x >= 1 PROVE FALSE
    BY <1>4
  <2>1. Second * x >= Second
    BY <1>4
  <2>2. QED BY <2>1, <1>4, <1>2
<1>6. x > -1
  <2> SUFFICES ASSUME x <= -1 PROVE FALSE
    BY <1>4
  <2>1. Second * x <= -Second
    BY <1>4
  <2>2. QED BY <2>1, <1>4, <1>2
<1>7. x = 0
  BY <1>4, <1>5, <1>6
<1>8. s = 0
  BY <1>4, <1>7
<1>9. QED
  BY <1>1, <1>8 DEF a, s

\* Rounded up to seconds, a time is not before it was, and less than one late.
LEMMA RoundedToSeconds ==
    ASSUME NEW t \in Int
    PROVE  \E q \in Int : /\ ((t + Second - 1) \div Second) * Second = Second * q
                          /\ Second * q \in Int /\ Second * q >= t
<1> DEFINE a == t + Second - 1
           q == a \div Second
<1>1. a \in Int
  OBVIOUS
<1>2. q \in Int /\ a % Second \in 0..(Second - 1) /\ a = Second * q + (a % Second)
  BY <1>1, Remainder
<1>3. q * Second = Second * q /\ Second * q \in Int
  BY <1>2
<1>4. Second * q >= t
  <2>1. t + Second - 1 = a
    OBVIOUS
  <2> HIDE DEF a, q
  <2>2. QED BY <1>2, <1>3, <2>1
<1>5. QED
  BY <1>2, <1>3, <1>4

----------------------------------------------------------------------------
(* One budget and one end time.                                            *)

\* A planned input.
Timed(in) == in.rtime = 0 /\ in.movetime = 0

\* The fields that set_search_end reads are numbers.
BudgetTyped(b) ==
    /\ b.minimum \in Int /\ b.remain \in Int /\ b.minThink \in Int /\ b.delay \in Int
    /\ b.fullSecond \in BOOLEAN

\* Rounding yields a time within what remains: a whole number of seconds or the
\* minimum thinking time less the delay, or what remains. It is not before the
\* time rounded, where the delay is at most a second.
LEMMA RoundUpKeepsRules ==
    ASSUME NEW b, BudgetTyped(b), NEW t \in Int
    PROVE  /\ RoundUp(b, t) \in Int /\ RoundUp(b, t) <= b.remain
           /\ b.fullSecond =>
                 \/ RoundUp(b, t) = b.remain
                 \/ (RoundUp(b, t) + b.delay) % Second = 0
                 \/ (RoundUp(b, t) + b.delay - b.minThink) % Second = 0
           /\ b.fullSecond /\ b.delay <= Second => RoundUp(b, t) >= t \/ RoundUp(b, t) = b.remain
<1> DEFINE c == ((t + Second - 1) \div Second) * Second
<1>1. PICK q \in Int : c = Second * q /\ Second * q \in Int /\ Second * q >= t
  BY RoundedToSeconds
<1>2. /\ b.minimum \in Int /\ b.remain \in Int /\ b.minThink \in Int /\ b.delay \in Int
      /\ b.fullSecond \in BOOLEAN
  BY DEF BudgetTyped
<1> DEFINE whole == AtLeast(c, b.minThink) - b.delay
           late == IF whole < t THEN whole + Second ELSE whole
<1>3. b.fullSecond => RoundUp(b, t) = AtMost(late, b.remain)
  BY DEF RoundUp
<1>4. ~b.fullSecond => RoundUp(b, t) = AtMost(AtLeast(t, b.minThink) - b.delay, b.remain)
  BY DEF RoundUp
<1>5. c \in Int /\ c >= t
  BY <1>1
<1>6. Second * 0 = 0 /\ Second * 1 = Second /\ Second * (q + 1) = Second * q + Second
  BY <1>1
<1>7. c % Second = 0 /\ (c + Second) % Second = 0 /\ 0 % Second = 0 /\ Second % Second = 0
  <2>1. (Second * q) % Second = 0
    BY <1>1, NoRemainder
  <2>2. (Second * (q + 1)) % Second = 0
    <3>1. q + 1 \in Int
      BY <1>1
    <3>2. QED BY <3>1, NoRemainder
  <2>3. (Second * 0) % Second = 0
    BY NoRemainder
  <2>4. (Second * 1) % Second = 0
    BY NoRemainder
  <2>5. c = Second * q /\ c + Second = Second * (q + 1)
    BY <1>1, <1>6
  <2>6. QED BY <2>1, <2>2, <2>3, <2>4, <2>5, <1>6
<1> HIDE DEF c
<1>8. whole \in Int /\ late \in Int /\ late \in {whole, whole + Second}
  BY <1>2, <1>5 DEF AtLeast
<1>9. \/ late + b.delay \in {c, c + Second}
      \/ late + b.delay - b.minThink \in {0, Second}
  BY <1>2, <1>5, <1>8 DEF AtLeast
<1>10. late >= t \/ b.delay > Second
  BY <1>2, <1>5, <1>8 DEF AtLeast
<1> HIDE DEF whole, late
<1>11. RoundUp(b, t) \in Int /\ RoundUp(b, t) <= b.remain
  BY <1>2, <1>3, <1>4, <1>8 DEF AtLeast, AtMost
<1>12. b.fullSecond => RoundUp(b, t) = b.remain \/ RoundUp(b, t) = late
  BY <1>3 DEF AtMost
<1>13. QED
  BY <1>2, <1>7, <1>8, <1>9, <1>10, <1>11, <1>12

\* What a plan starts from is a number, and what may be left of the clock.
LEMMA InputNumbers ==
    ASSUME NEW in \in Inputs
    PROVE  /\ in.time \in Int /\ in.inc \in Int /\ in.byoyomi \in Int /\ in.movetime \in Int
           /\ in.rtime \in Int /\ in.jitter \in Int /\ in.delay \in Int /\ in.delay2 \in Int
           /\ in.minThink \in Int /\ in.slowMover \in Int /\ in.ply \in Int
           /\ in.maxMoves \in Int /\ in.fullSecond \in BOOLEAN
           /\ RemainTime(in) \in Int /\ MinimumTime(in) \in Int
           /\ in.time + in.byoyomi - in.delay2 >= AtLeast(Second \div 10, 1)
                 => RemainTime(in) = in.time + in.byoyomi - in.delay2
<1>1. /\ in.time \in Int /\ in.inc \in Int /\ in.byoyomi \in Int /\ in.movetime \in Int
      /\ in.rtime \in Int /\ in.jitter \in Int /\ in.delay \in Int /\ in.delay2 \in Int
      /\ in.minThink \in Int /\ in.slowMover \in Int /\ in.ply \in Int
      /\ in.maxMoves \in Int /\ in.fullSecond \in BOOLEAN
  BY InputsAssumption
<1>2. RemainTime(in) \in Int /\ MinimumTime(in) \in Int
  BY <1>1 DEF RemainTime, MinimumTime, AtLeast
<1>3. in.time + in.byoyomi - in.delay2 >= AtLeast(Second \div 10, 1)
         => RemainTime(in) = in.time + in.byoyomi - in.delay2
  BY <1>1 DEF RemainTime, AtLeast
<1>4. QED BY <1>1, <1>2, <1>3

\* The last clamps keep all three budgets within what remains.
LEMMA ClampedKeepsRules ==
    ASSUME NEW a, BudgetTyped(a), {"minimum", "optimum", "maximum"} \subseteq DOMAIN a
    PROVE  LET b == Clamped(a)
           IN  /\ BudgetTyped(b) /\ b.remain = a.remain /\ b.mtgError = a.mtgError
               /\ b.minimum <= b.remain /\ b.optimum <= b.remain /\ b.maximum <= b.remain
<1> DEFINE b == Clamped(a)
<1>1. RoundUp(a, a.minimum) \in Int
  BY RoundUpKeepsRules DEF BudgetTyped
<1>2. /\ b.minimum = AtMost(RoundUp(a, a.minimum), a.remain)
      /\ b.optimum = AtMost(a.optimum, a.remain)
      /\ b.maximum = AtMost(RoundUp(a, a.maximum), a.remain)
      /\ b.remain = a.remain /\ b.minThink = a.minThink /\ b.delay = a.delay
      /\ b.fullSecond = a.fullSecond /\ b.mtgError = a.mtgError
  BY DEF Clamped
<1> HIDE DEF b
<1>3. BudgetTyped(b)
  BY <1>1, <1>2 DEF AtMost, BudgetTyped
<1>4. b.minimum <= b.remain /\ b.optimum <= b.remain /\ b.maximum <= b.remain
  BY <1>2 DEF AtMost, BudgetTyped
<1>5. QED
  BY <1>2, <1>3, <1>4 DEF b

\* The plan of a go is typed; where it is one, no budget exceeds what remains.
LEMMA PlanKeepsRules ==
    ASSUME NEW in \in Inputs
    PROVE  LET b == InitBudget(in)
           IN  /\ BudgetTyped(b) /\ b.minimum \in Int
               /\ Timed(in) => b.remain = RemainTime(in)
               /\ Timed(in) /\ ~b.mtgError =>
                     b.minimum <= b.remain /\ b.optimum <= b.remain /\ b.maximum <= b.remain
<1> DEFINE b == InitBudget(in)
           remain == RemainTime(in)
<1>1. MovesToGo(in) \in Int
  <2> DEFINE left == AtMost(in.maxMoves - in.ply + 2,
                            IF in.inc = 0 /\ in.byoyomi = 0
                            THEN MOVE_HORIZON + 40 - AtMost(in.ply, 40)
                            ELSE MOVE_HORIZON + 20 - AtMost(in.ply, 80))
  <2>1. left \in Int
    BY InputNumbers DEF AtMost, MOVE_HORIZON
  <2>2. MovesToGo(in) = IF left >= 0 THEN left \div 2 ELSE -((-left) \div 2)
    BY DEF MovesToGo
  <2> HIDE DEF left
  <2>3. QED BY <2>1, <2>2
<1>2. CASE in.rtime # 0
  <2>1. b = Flat(in, in.rtime + in.jitter, in.rtime + in.jitter)
    BY <1>2 DEF InitBudget
  <2>2. QED BY <1>2, <2>1, InputNumbers DEF Flat, Budget, BudgetTyped, Timed
<1>3. CASE in.rtime = 0 /\ in.movetime # 0
  <2>1. b = Flat(in, in.movetime, in.movetime)
    BY <1>3 DEF InitBudget
  <2>2. QED BY <1>3, <2>1, InputNumbers DEF Flat, Budget, BudgetTyped, Timed
<1>4. CASE Timed(in) /\ MovesToGo(in) <= 0
  <2>1. b = [Flat(in, remain, Second \div 2) EXCEPT !.mtgError = TRUE]
    BY <1>4 DEF InitBudget, Timed
  <2>2. Second \div 2 \in Int
    OBVIOUS
  <2>3. /\ b.minimum = Second \div 2 /\ b.remain = remain /\ b.minThink = in.minThink
        /\ b.delay = in.delay /\ b.fullSecond = in.fullSecond /\ b.mtgError = TRUE
    BY <2>1 DEF Flat, Budget
  <2> HIDE DEF b
  <2>4. QED BY <2>2, <2>3, InputNumbers DEF BudgetTyped, b
<1>5. CASE Timed(in) /\ MovesToGo(in) = 1
  <2>1. b = Flat(in, remain, remain)
    BY <1>5 DEF InitBudget, Timed
  <2>2. /\ b.minimum = remain /\ b.remain = remain /\ b.minThink = in.minThink
        /\ b.delay = in.delay /\ b.fullSecond = in.fullSecond
        /\ b.optimum = remain /\ b.maximum = remain
    BY <2>1 DEF Flat, Budget
  <2> HIDE DEF b
  <2>3. QED BY <2>2, InputNumbers DEF BudgetTyped, b
<1>6. CASE Timed(in) /\ MovesToGo(in) > 1
  <2> DEFINE all == in.byoyomi + in.time
         a == IF FinalPush(in)
              THEN [Flat(in, remain, all) EXCEPT !.finalPush = TRUE]
              ELSE Budget(in, remain, MinimumTime(in), PlannedOptimum(in), PlannedMaximum(in))
  <2>1. b = Clamped(a)
    BY <1>1, <1>6 DEF InitBudget, Timed
  <2>2. /\ a.minimum = IF FinalPush(in) THEN all ELSE MinimumTime(in)
        /\ a.remain = remain /\ a.minThink = in.minThink /\ a.delay = in.delay
        /\ a.fullSecond = in.fullSecond /\ a.mtgError = FALSE
        /\ {"minimum", "optimum", "maximum"} \subseteq DOMAIN a
    BY DEF Flat, Budget
  <2> HIDE DEF a
  <2>3. BudgetTyped(a)
    BY <2>2, InputNumbers DEF BudgetTyped
  <2> HIDE DEF b
  <2>4. /\ BudgetTyped(b) /\ b.remain = remain /\ ~b.mtgError
        /\ b.minimum <= b.remain /\ b.optimum <= b.remain /\ b.maximum <= b.remain
    BY <2>1, <2>2, <2>3, ClampedKeepsRules
  <2>5. QED BY <2>4 DEF BudgetTyped, b
<1>7. QED BY <1>1, <1>2, <1>3, <1>4, <1>5, <1>6, InputNumbers DEF Timed

----------------------------------------------------------------------------
(* The budget of a go, along its behaviours.                               *)

\* The plan is that of the input, and the end time that of the plan.
TimeInv ==
    part = "time" =>
        /\ input \in Inputs /\ budget = InitBudget(input)
        /\ decided # -1 =>
              /\ hitAfter \in Nat /\ decided \in Int
              /\ endTime = SearchEnd(budget, decided, hitAfter)

\* The invariant is enough for the property.
LEMMA TimeInvEnough == TimeInv => TimeRight
<1> SUFFICES ASSUME TimeInv, part = "time" PROVE BudgetRight
  BY DEF TimeRight
<1>1. input \in Inputs /\ budget = InitBudget(input)
  BY DEF TimeInv
<1>2. BudgetTyped(budget) /\ budget.remain \in Int /\ budget.delay \in Int
      /\ budget.minThink \in Int /\ budget.minimum \in Int /\ budget.fullSecond \in BOOLEAN
  BY <1>1, PlanKeepsRules DEF BudgetTyped
<1>3. Planned => Timed(input) /\ ~budget.mtgError /\ budget.remain = RemainTime(input)
  BY <1>1, PlanKeepsRules DEF Planned, Timed
<1>4. BudgetWithinClock
  BY <1>1, <1>3, PlanKeepsRules DEF BudgetWithinClock
<1>5. ASSUME decided # -1
      PROVE  \E t \in Int : /\ t >= decided - hitAfter
                            /\ endTime = RoundUp(budget, t) + hitAfter
                            /\ Spent = RoundUp(budget, t)
                            /\ hitAfter \in Nat /\ decided \in Int
  <2>1. /\ hitAfter \in Nat /\ decided \in Int
        /\ endTime = SearchEnd(budget, decided, hitAfter)
    BY <1>5 DEF TimeInv
  <2> DEFINE floor == IF budget.finalPush THEN budget.minimum ELSE budget.minimum - hitAfter
             t == AtLeast(decided - hitAfter, floor)
  <2>2. t \in Int /\ t >= decided - hitAfter
    BY <1>2, <2>1 DEF AtLeast
  <2>3. endTime = RoundUp(budget, t) + hitAfter
    BY <2>1 DEF SearchEnd
  <2> HIDE DEF t
  <2>4. RoundUp(budget, t) \in Int
    BY <1>2, <2>2, RoundUpKeepsRules
  <2>5. Spent = RoundUp(budget, t)
    BY <2>1, <2>3, <2>4 DEF Spent
  <2>6. QED BY <2>1, <2>2, <2>3, <2>5
<1>6. ASSUME decided # -1
      PROVE  /\ Spent \in Int /\ Spent <= budget.remain
             /\ budget.fullSecond =>
                   \/ Spent = budget.remain
                   \/ (Spent + budget.delay) % Second = 0
                   \/ (Spent + budget.delay - budget.minThink) % Second = 0
             /\ budget.fullSecond /\ budget.delay <= Second =>
                   endTime >= decided \/ Spent = budget.remain
  <2>1. PICK t \in Int : /\ t >= decided - hitAfter
                         /\ endTime = RoundUp(budget, t) + hitAfter
                         /\ Spent = RoundUp(budget, t)
                         /\ hitAfter \in Nat /\ decided \in Int
    BY <1>5, <1>6
  <2>2. /\ Spent \in Int /\ Spent <= budget.remain
        /\ budget.fullSecond =>
              \/ Spent = budget.remain
              \/ (Spent + budget.delay) % Second = 0
              \/ (Spent + budget.delay - budget.minThink) % Second = 0
        /\ budget.fullSecond /\ budget.delay <= Second =>
              Spent >= t \/ Spent = budget.remain
    BY <1>2, <2>1, RoundUpKeepsRules
  <2>3. Spent >= t => endTime >= decided
    BY <2>1, <2>2
  <2>4. QED BY <2>2, <2>3
<1>7. EndLeavesMargin
  <2> SUFFICES ASSUME Planned, decided # -1,
                      input.time + input.byoyomi - input.delay2 >= AtLeast(Second \div 10, 1)
               PROVE  Spent + input.delay2 <= input.time + input.byoyomi
    BY DEF EndLeavesMargin
  <2>1. budget.remain = input.time + input.byoyomi - input.delay2
    BY <1>1, <1>3, InputNumbers
  <2>2. input.time \in Int /\ input.byoyomi \in Int /\ input.delay2 \in Int
    BY <1>1, InputNumbers
  <2>3. Spent \in Int /\ Spent <= budget.remain
    BY <1>6
  <2>4. QED BY <2>1, <2>2, <2>3
<1>8. WholeSeconds
  BY <1>6 DEF WholeSeconds
<1>9. EndNotPassed
  BY <1>6 DEF EndNotPassed
<1>10. QED BY <1>4, <1>7, <1>8, <1>9 DEF BudgetRight

\* One plan, one end time: the rest of a go changes nothing of them.
LEMMA TimeInvKept == TimeInv /\ [Next]_<<part, evalVars, histVars, bookVars, setupVars,
                                         outcomeVars, budgetVars, pvVars>> => TimeInv'
<1> SUFFICES ASSUME TimeInv, part' = "time",
                    Next \/ UNCHANGED <<part, budgetVars>>
             PROVE  TimeInv'
  BY DEF TimeInv
<1>1. CASE UNCHANGED <<part, budgetVars>>
  BY <1>1 DEF TimeInv, budgetVars
<1>2. CASE Next
  <2>1. part = "time" /\ Decide
    BY <1>2 DEF Next
  <2>2. input' \in Inputs /\ budget' = InitBudget(input')
    BY <2>1 DEF TimeInv, Decide
  <2>3. hitAfter' \in Nat /\ decided' \in Int /\ endTime' = SearchEnd(budget', decided', hitAfter')
    <3>1. PICK d \in Elapsed : decided' = d + hitAfter'
      BY <2>1 DEF Decide
    <3>2. hitAfter' \in Nat /\ d \in Int
      BY <2>1, ClocksAssumption DEF Decide
    <3>3. QED BY <2>1, <3>1, <3>2 DEF Decide
  <2>4. QED BY <2>2, <2>3 DEF TimeInv
<1>3. QED BY <1>1, <1>2

\* For every clock, every setting of the options, every moment of the ponderhit:
\* TimeManagement::init plans within the clock, and set_search_end fixes an end
\* time that leaves the network margin, wastes no part of a second and does not ask
\* for time gone by.
THEOREM TimeRightAlways == Spec => []TimeRight
<1>1. Init => TimeInv
  BY DEF Init, BudgetInit, TimeInv
<1>2. Spec => []TimeInv
  BY <1>1, TimeInvKept, PTL DEF Spec
<1>3. QED BY <1>2, TimeInvEnough, PTL

----------------------------------------------------------------------------
(* The vote: reports of any number of workers.                              *)

Reported == go.reports \in [1..WorkerCount -> Votes]
VotedMoves == {r.pv0 : r \in Range(go.reports)}

\* What is folded, and what holds after the first n workers: the votes for a move
\* come from workers that finished an iteration, and the best so far is.
CountVote(votes, i) == AddVote(go.reports, votes, i)
Counted(n, votes) ==
    /\ votes \in [VotedMoves -> Nat]
    /\ \A j \in 1..n : votes[go.reports[j].pv0] >= VotingValue(go.reports, j)
    /\ \A mv \in VotedMoves :
          votes[mv] > 0 => \E j \in 1..n : go.reports[j].pv0 = mv /\ go.reports[j].depth > 0

Score(i) == go.reports[i].score
OpenScore(v) == ~IsWin(v) /\ ~IsLoss(v)
VoteRank(i) == <<VotesFor(go.reports, go.reports[i].pv0), Weight(go.reports, i)>>
Preferred(best, i) == BetterOf(go.reports, best, i)
BestOf(n, best) ==
    /\ best \in 1..WorkerCount
    /\ (\A i \in 1..WorkerCount : ~ProvenLoss(Score(i))) =>
          \A i \in 1..n : IF IsWin(Score(best)) THEN Score(i) <= Score(best) ELSE ~IsWin(Score(i))
    /\ (\A i \in 1..WorkerCount : ~IsWin(Score(i))) =>
          \A i \in 1..n : ProvenLoss(Score(i)) => ProvenLoss(Score(best)) /\ Score(best) <= Score(i)
    /\ (\A i \in 1..WorkerCount : Score(i) = -Infinite \/ OpenScore(Score(i))) =>
          \A i \in 1..n : OpenScore(Score(i)) => Lexical(VoteRank(i), VoteRank(best))

Ballot == INSTANCE FoldProofs WITH Op <- CountVote, Holds <- Counted
Choice == INSTANCE FoldProofs WITH Op <- Preferred, Holds <- BestOf

\* The fields of a report.
LEMMA ReportFields ==
    ASSUME Reported, NEW i \in 1..WorkerCount
    PROVE  /\ go.reports[i].score \in Int /\ go.reports[i].score >= -Infinite
           /\ go.reports[i].pvLen \in Nat /\ go.reports[i].depth \in Nat
           /\ go.reports[i].score = -Infinite => go.reports[i].depth = 0
           /\ go.reports[i].pv0 \in VotedMoves
<1>1. go.reports[i] \in Votes /\ go.reports[i] \in Range(go.reports)
  BY DEF Reported, Range
<1>2. QED BY <1>1, VotesAssumption DEF Infinite, VotedMoves

\* The lowest score is one of the scores.
LEMMA LowestScore ==
    ASSUME Reported
    PROVE  LET low == Min({r.score : r \in Range(go.reports)})
           IN  low \in Int /\ \A i \in 1..WorkerCount : low <= go.reports[i].score
<1> DEFINE S == {r.score : r \in Range(go.reports)}
           T == {go.reports[i].score + Infinite : i \in 1..WorkerCount}
<1>1. S = {go.reports[i].score : i \in 1..WorkerCount}
  BY DEF Reported, Range
<1>2. T \subseteq Nat
  BY ReportFields DEF Infinite
<1>3. T # {}
  <2>1. 1 \in 1..WorkerCount
    BY VotesAssumption
  <2>2. QED BY <2>1
<1> HIDE DEF T
<1>4. PICK n \in T : \A m \in T : n <= m
  BY <1>2, <1>3, Malus!LeastNatural
<1> USE DEF T
<1>5. PICK k \in 1..WorkerCount : n = go.reports[k].score + Infinite
  BY <1>4
<1>6. \A i \in 1..WorkerCount : go.reports[k].score <= go.reports[i].score
  <2> SUFFICES ASSUME NEW i \in 1..WorkerCount PROVE go.reports[k].score <= go.reports[i].score
    OBVIOUS
  <2>1. n <= go.reports[i].score + Infinite
    BY <1>4
  <2>2. QED BY <1>5, <2>1, ReportFields DEF Infinite
<1> DEFINE lowest == go.reports[k].score
<1>7. \E x \in S : \A y \in S : x <= y
  <2>1. lowest \in S
    BY <1>1
  <2>2. \A y \in S : lowest <= y
    BY <1>1, <1>6
  <2> HIDE DEF lowest, S
  <2>3. QED BY <2>1, <2>2
<1>8. Min(S) \in S /\ \A y \in S : Min(S) <= y
  BY <1>7 DEF Min
<1>9. QED BY <1>1, <1>8, ReportFields

\* A worker's voting value is a natural, and positive when it finished an iteration.
LEMMA VotingValues ==
    ASSUME Reported, NEW i \in 1..WorkerCount
    PROVE  /\ VotingValue(go.reports, i) \in Nat
           /\ VotingValue(go.reports, i) > 0 <=> go.reports[i].depth > 0
           /\ Weight(go.reports, i) \in Nat
<1> DEFINE low == Min({r.score : r \in Range(go.reports)})
           a == go.reports[i].score - low + 14
<1>1. low \in Int /\ low <= go.reports[i].score
  BY LowestScore
<1> HIDE DEF low
<1>2. a \in Nat /\ a > 0 /\ go.reports[i].depth \in Nat
  BY <1>1, ReportFields
<1>3. VotingValue(go.reports, i) = a * go.reports[i].depth
  BY DEF VotingValue, low
<1> HIDE DEF a
<1>4. a * go.reports[i].depth \in Nat
  BY <1>2
<1>5. go.reports[i].depth > 0 => a * go.reports[i].depth > 0
  BY <1>2, Z3
<1>6. go.reports[i].depth = 0 => a * go.reports[i].depth = 0
  BY <1>2
<1>7. QED BY <1>2, <1>3, <1>4, <1>5, <1>6 DEF Weight

\* The votes are counted right.
LEMMA TallyCounted ==
    ASSUME Reported
    PROVE  Counted(WorkerCount, Tally(go.reports))
<1> DEFINE base == [mv \in VotedMoves |-> 0]
           seq == [i \in DOMAIN go.reports |-> i]
<1>1. WorkerCount \in Nat /\ DOMAIN seq = 1..WorkerCount /\ \A k \in 1..WorkerCount : seq[k] = k
  BY VotesAssumption DEF Reported
<1>2. Counted(0, base)
  BY DEF Counted
<1> HIDE DEF base, seq
<1>3. ASSUME NEW k \in 1..WorkerCount, NEW v, Counted(k - 1, v)
      PROVE  Counted(k, CountVote(v, seq[k]))
  <2> DEFINE mk == go.reports[k].pv0
             w == VotingValue(go.reports, k)
             new == CountVote(v, k)
  <2>1. v \in [VotedMoves -> Nat] /\ mk \in VotedMoves /\ w \in Nat /\ (w > 0 <=> go.reports[k].depth > 0)
    BY <1>3, ReportFields, VotingValues DEF Counted
  <2>2. new = [v EXCEPT ![mk] = @ + w]
    BY DEF CountVote, AddVote
  <2> HIDE DEF new, w
  <2>3. /\ new \in [VotedMoves -> Nat] /\ new[mk] = v[mk] + w
        /\ \A mv \in VotedMoves : mv # mk => new[mv] = v[mv]
    BY <2>1, <2>2
  <2>4. \A mv \in VotedMoves : new[mv] >= v[mv]
    BY <2>1, <2>3
  <2>5. ASSUME NEW j \in 1..k PROVE new[go.reports[j].pv0] >= VotingValue(go.reports, j)
    <3>1. j \in 1..WorkerCount
      BY VotesAssumption
    <3>2. VotingValue(go.reports, j) \in Nat /\ go.reports[j].pv0 \in VotedMoves
      BY <3>1, ReportFields, VotingValues
    <3>3. CASE j = k
      BY <2>1, <2>3, <3>3 DEF w
    <3>4. CASE j # k
      <4>1. j \in 1..(k - 1)
        BY <3>4
      <4>2. v[go.reports[j].pv0] >= VotingValue(go.reports, j)
        BY <1>3, <4>1 DEF Counted
      <4>3. QED BY <2>1, <2>3, <2>4, <3>2, <4>2
    <3>5. QED BY <3>3, <3>4
  <2>6. ASSUME NEW mv \in VotedMoves, new[mv] > 0
        PROVE  \E j \in 1..k : go.reports[j].pv0 = mv /\ go.reports[j].depth > 0
    <3>1. k \in 1..k /\ \A j \in 1..(k - 1) : j \in 1..k
      OBVIOUS
    <3>2. CASE v[mv] > 0
      <4>1. \E j \in 1..(k - 1) : go.reports[j].pv0 = mv /\ go.reports[j].depth > 0
        BY <1>3, <3>2 DEF Counted
      <4>2. QED BY <3>1, <4>1
    <3>3. CASE ~(v[mv] > 0)
      <4>1. mv = mk /\ w > 0
        BY <2>1, <2>3, <2>6, <3>3
      <4>2. QED BY <2>1, <3>1, <4>1
    <3>4. QED BY <3>2, <3>3
  <2>7. Counted(k, new)
    BY <2>3, <2>5, <2>6 DEF Counted
  <2>8. QED BY <1>1, <2>7 DEF new
<1>4. Counted(WorkerCount, Ballot!FoldLeft(CountVote, base, seq))
  BY <1>1, <1>2, <1>3, Ballot!FoldLeftHolds
<1>5. Ballot!FoldLeft(CountVote, base, seq) = FoldLeft(CountVote, base, seq)
  BY DEF FoldLeft, Ballot!FoldLeft, MapThenFoldSet, Ballot!MapThenFoldSet, Max, Ballot!Max
<1>6. Tally(go.reports) = FoldLeft(CountVote, base, seq)
  BY DEF Tally, CountVote, base, seq, VotedMoves
<1>7. QED BY <1>4, <1>5, <1>6

\* RankTyped are pairs of naturals.
LEMMA RankTyped ==
    ASSUME Reported, NEW i \in 1..WorkerCount
    PROVE  /\ VoteRank(i)[1] \in Nat /\ VoteRank(i)[2] \in Nat
           /\ VoteRank(i)[1] = VotesFor(go.reports, go.reports[i].pv0)
           /\ VoteRank(i)[2] = Weight(go.reports, i)
<1>1. Tally(go.reports)[go.reports[i].pv0] \in Nat
  BY TallyCounted, ReportFields DEF Counted
<1>2. QED BY <1>1, VotingValues DEF VoteRank, VotesFor

\* The better of two is the best of one more.
LEMMA PreferredIsBest ==
    ASSUME Reported, NEW k \in 1..WorkerCount, NEW best, BestOf(k - 1, best)
    PROVE  BestOf(k, Preferred(best, k))
<1> DEFINE new == Preferred(best, k)
<1>1. best \in 1..WorkerCount /\ new \in {best, k}
  BY DEF BestOf, Preferred, BetterOf
<1>2. /\ Score(best) \in Int /\ Score(k) \in Int /\ \A i \in 1..k : Score(i) \in Int
  <2>1. \A i \in 1..k : i \in 1..WorkerCount
    BY VotesAssumption
  <2>2. QED BY <1>1, <2>1, ReportFields DEF Score
<1>3. \A i \in 1..k : i \in 1..(k - 1) \/ i = k
  OBVIOUS
<1>4. ASSUME \A i \in 1..WorkerCount : ~ProvenLoss(Score(i)), NEW i \in 1..k
      PROVE  IF IsWin(Score(new)) THEN Score(i) <= Score(new) ELSE ~IsWin(Score(i))
  <2>1. i \in 1..(k - 1) =>
            IF IsWin(Score(best)) THEN Score(i) <= Score(best) ELSE ~IsWin(Score(i))
    BY <1>4 DEF BestOf
  <2>2. ~ProvenLoss(Score(best))
    BY <1>1, <1>4
  <2>3. IF IsWin(Score(best)) THEN new = IF Score(k) > Score(best) THEN k ELSE best
        ELSE IsWin(Score(k)) => new = k
    BY <2>2 DEF Preferred, BetterOf, Score, OutVoted
  <2> HIDE DEF new
  <2>4. QED BY <1>1, <1>2, <1>3, <2>1, <2>3 DEF IsWin, MateInMaxPly
<1>5. ASSUME \A i \in 1..WorkerCount : ~IsWin(Score(i)), NEW i \in 1..k, ProvenLoss(Score(i))
      PROVE  ProvenLoss(Score(new)) /\ Score(new) <= Score(i)
  <2>1. i \in 1..(k - 1) => ProvenLoss(Score(best)) /\ Score(best) <= Score(i)
    BY <1>5 DEF BestOf
  <2>2. ~IsWin(Score(best))
    BY <1>1, <1>5
  <2>3. IF ProvenLoss(Score(best))
        THEN new = IF ProvenLoss(Score(k)) /\ Score(k) < Score(best) THEN k ELSE best
        ELSE ProvenLoss(Score(k)) => new = k
    BY <2>2 DEF Preferred, BetterOf, Score, OutVoted
  <2> HIDE DEF new
  <2>4. QED BY <1>1, <1>2, <1>3, <1>5, <2>1, <2>3
<1>6. ASSUME \A i \in 1..WorkerCount : Score(i) = -Infinite \/ OpenScore(Score(i)),
             NEW i \in 1..k, OpenScore(Score(i))
      PROVE  Lexical(VoteRank(i), VoteRank(new))
  <2>1. i \in 1..(k - 1) => Lexical(VoteRank(i), VoteRank(best))
    BY <1>6 DEF BestOf
  <2>2. ~IsWin(Score(best)) /\ ~ProvenLoss(Score(best)) /\ ~IsWin(Score(k)) /\ ~ProvenLoss(Score(k))
    <3>1. \A v : v = -Infinite \/ OpenScore(v) => ~IsWin(v) /\ ~ProvenLoss(v)
      BY DEF OpenScore, IsWin, ProvenLoss, Infinite, MateInMaxPly
    <3>2. QED BY <1>1, <1>6, <3>1
  <2>3. /\ VoteRank(best)[1] \in Nat /\ VoteRank(best)[2] \in Nat
        /\ VoteRank(k)[1] \in Nat /\ VoteRank(k)[2] \in Nat
        /\ VoteRank(i)[1] \in Nat /\ VoteRank(i)[2] \in Nat
    <3>1. i \in 1..WorkerCount
      BY VotesAssumption
    <3>2. QED BY <1>1, <3>1, RankTyped
  <2>4. new = IF /\ ~IsLoss(Score(k))
                 /\ \/ VoteRank(k)[1] > VoteRank(best)[1]
                    \/ VoteRank(k)[1] = VoteRank(best)[1] /\ VoteRank(k)[2] > VoteRank(best)[2]
              THEN k ELSE best
    <3>1. OutVoted(go.reports, best, k) <=>
            /\ ~IsLoss(Score(k))
            /\ \/ VoteRank(k)[1] > VoteRank(best)[1]
               \/ VoteRank(k)[1] = VoteRank(best)[1] /\ VoteRank(k)[2] > VoteRank(best)[2]
      BY <1>1, <2>2, RankTyped DEF OutVoted, Score
    <3>2. QED BY <2>2, <3>1 DEF Preferred, BetterOf, Score
  <2> HIDE DEF new
  <2>5. i = k => ~IsLoss(Score(k))
    BY <1>6 DEF OpenScore
  <2>6. QED BY <1>3, <2>1, <2>3, <2>4, <2>5 DEF Lexical
<1>7. new \in 1..WorkerCount
  BY <1>1
<1> HIDE DEF new
<1>8. QED BY <1>4, <1>5, <1>6, <1>7 DEF BestOf, new

\* The one chosen is the best of all.
LEMMA ChosenIsBest ==
    ASSUME Reported
    PROVE  BestOf(WorkerCount, SelectBestWorker(go.reports))
<1> DEFINE seq == [i \in DOMAIN go.reports |-> i]
<1>1. WorkerCount \in Nat /\ DOMAIN seq = 1..WorkerCount /\ \A k \in 1..WorkerCount : seq[k] = k
  BY VotesAssumption DEF Reported
<1>2. BestOf(0, 1)
  BY VotesAssumption DEF BestOf
<1> HIDE DEF seq
<1>3. \A k \in 1..WorkerCount : \A v : BestOf(k - 1, v) => BestOf(k, Preferred(v, seq[k]))
  BY <1>1, PreferredIsBest
<1>4. BestOf(WorkerCount, Choice!FoldLeft(Preferred, 1, seq))
  BY <1>1, <1>2, <1>3, Choice!FoldLeftHolds
<1>5. Choice!FoldLeft(Preferred, 1, seq) = FoldLeft(Preferred, 1, seq)
  BY DEF FoldLeft, Choice!FoldLeft, MapThenFoldSet, Choice!MapThenFoldSet, Max, Choice!Max
<1>6. SelectBestWorker(go.reports) = FoldLeft(Preferred, 1, seq)
  BY DEF SelectBestWorker, Preferred, seq
<1>7. QED BY <1>4, <1>5, <1>6

\* What is best by every comparison is what the vote should choose.
LEMMA BestIsRight ==
    ASSUME Reported, NEW c, BestOf(WorkerCount, c)
    PROVE  VoteRight(go.reports, c)
<1> DEFINE Voters == 1..WorkerCount
           S == Scores(go.reports)
<1>1. c \in Voters /\ DOMAIN go.reports = Voters /\ WorkerCount \in Nat
  BY VotesAssumption DEF BestOf, Reported
<1>2. S = {Score(i) : i \in Voters} /\ \A i \in Voters : Score(i) \in Int
  <2>1. S = {Score(i) : i \in Voters}
    BY <1>1 DEF Scores, Range, Score
  <2>2. QED BY <2>1, ReportFields DEF Score
<1>3. ASSUME \E v \in S : IsWin(v), \A v \in S : ~ProvenLoss(v)
      PROVE  Score(c) = Max(S)
  <2>1. \A i \in Voters : ~ProvenLoss(Score(i))
    BY <1>2, <1>3
  <2>2. \A i \in Voters : IF IsWin(Score(c)) THEN Score(i) <= Score(c) ELSE ~IsWin(Score(i))
    BY <2>1 DEF BestOf
  <2>3. \A i \in Voters : Score(i) <= Score(c)
    BY <1>2, <1>3, <2>2
  <2> HIDE DEF S, Voters
  <2>4. Score(c) \in S /\ S \subseteq Int /\ \A v \in S : Score(c) >= v
    BY <1>1, <1>2, <2>3
  <2>5. Max(S) \in S /\ \A v \in S : Max(S) >= v
    BY <2>4 DEF Max
  <2>6. Score(c) >= Max(S) /\ Max(S) >= Score(c) /\ Score(c) \in Int /\ Max(S) \in Int
    BY <2>4, <2>5
  <2> DEFINE top == Max(S)
  <2> HIDE DEF top
  <2>7. top = Score(c)
    BY <2>6 DEF top
  <2>8. QED BY <2>7 DEF top
<1>4. ASSUME \E v \in S : ProvenLoss(v), \A v \in S : ~IsWin(v)
      PROVE  Score(c) = Min({v \in S : ProvenLoss(v)})
  <2> DEFINE L == {v \in S : ProvenLoss(v)}
  <2>1. \A i \in Voters : ~IsWin(Score(i))
    BY <1>2, <1>4
  <2>2. \A i \in Voters : ProvenLoss(Score(i)) => ProvenLoss(Score(c)) /\ Score(c) <= Score(i)
    BY <2>1 DEF BestOf
  <2> HIDE DEF S, Voters
  <2>3. Score(c) \in L /\ L \subseteq Int /\ \A v \in L : Score(c) <= v
    BY <1>1, <1>2, <1>4, <2>2
  <2> HIDE DEF L
  <2>4. Min(L) \in L /\ \A v \in L : Min(L) <= v
    BY <2>3 DEF Min
  <2>5. QED BY <2>3, <2>4 DEF L
<1>5. ASSUME \A v \in S : v = -Infinite \/ (~IsWin(v) /\ ~IsLoss(v))
      PROVE  /\ \A i \in Voters : OpenScore(Score(i)) => Lexical(VoteRank(i), VoteRank(c))
             /\ Score(c) = -Infinite /\ (\E j \in Voters : OpenScore(Score(j)) /\ go.reports[j].depth > 0)
                  => \E j \in Voters : /\ OpenScore(Score(j)) /\ go.reports[j].depth > 0
                                  /\ go.reports[j].pv0 = go.reports[c].pv0
  <2>1. \A i \in Voters : Score(i) = -Infinite \/ OpenScore(Score(i))
    BY <1>2, <1>5 DEF OpenScore
  <2>2. \A i \in Voters : OpenScore(Score(i)) => Lexical(VoteRank(i), VoteRank(c))
    BY <2>1 DEF BestOf
  <2>3. ASSUME NEW j \in Voters, OpenScore(Score(j)), go.reports[j].depth > 0
        PROVE  \E k \in Voters : /\ OpenScore(Score(k)) /\ go.reports[k].depth > 0
                            /\ go.reports[k].pv0 = go.reports[c].pv0
    <3>1. Counted(WorkerCount, Tally(go.reports))
      BY TallyCounted
    <3>2. /\ VotesFor(go.reports, go.reports[j].pv0) >= VotingValue(go.reports, j)
          /\ VotingValue(go.reports, j) \in Nat /\ VotingValue(go.reports, j) > 0
      BY <2>3, <3>1, VotingValues DEF Counted, VotesFor
    <3>3. VotesFor(go.reports, go.reports[c].pv0) >= VotesFor(go.reports, go.reports[j].pv0)
      <4>1. Lexical(VoteRank(j), VoteRank(c))
        BY <2>2, <2>3
      <4>2. /\ VoteRank(j)[1] = VotesFor(go.reports, go.reports[j].pv0) /\ VoteRank(j)[1] \in Nat
            /\ VoteRank(c)[1] = VotesFor(go.reports, go.reports[c].pv0) /\ VoteRank(c)[1] \in Nat
        BY <1>1, RankTyped
      <4>3. QED BY <4>1, <4>2 DEF Lexical
    <3>4. Tally(go.reports)[go.reports[c].pv0] > 0
      <4>1. VotesFor(go.reports, go.reports[j].pv0) \in Nat /\ VotesFor(go.reports, go.reports[c].pv0) \in Nat
        BY <1>1, RankTyped
      <4>2. QED BY <3>2, <3>3, <4>1 DEF VotesFor
    <3>5. PICK k \in Voters : go.reports[k].pv0 = go.reports[c].pv0 /\ go.reports[k].depth > 0
      <4>1. go.reports[c].pv0 \in VotedMoves
        BY <1>1, ReportFields
      <4>2. QED BY <3>1, <3>4, <4>1 DEF Counted
    <3>6. Score(k) # -Infinite
      BY <3>5, ReportFields DEF Score
    <3>7. QED BY <2>1, <3>5, <3>6
  <2>4. QED BY <2>2, <2>3
<1> HIDE DEF Voters
<1>6. \A i : Score(i) = go.reports[i].score
  BY DEF Score
<1>7. (\E v \in S : IsWin(v)) /\ (\A v \in S : ~ProvenLoss(v)) => go.reports[c].score = Max(S)
  BY <1>3, <1>6
<1>8. (\E v \in S : ProvenLoss(v)) /\ (\A v \in S : ~IsWin(v))
          => go.reports[c].score = Min({v \in S : ProvenLoss(v)})
  BY <1>4, <1>6
<1> HIDE DEF S
<1>9. QED BY <1>1, <1>5, <1>7, <1>8 DEF VoteRight, S, OpenScore, Score, VoteRank

----------------------------------------------------------------------------
(* The score carried over.                                                 *)

\* Whose turn it is at even plies, as a number: the same all through a game.
Phase(ply, c) == IF c = Black THEN ply % 2 ELSE (ply + 1) % 2
PhaseOf(p) == Phase(p.ply, p.stm)
Sided(p) == {"ply", "stm"} \subseteq DOMAIN p /\ p.ply \in Nat /\ p.stm \in Colors

GoFields == {"root", "ekr", "seed", "reports", "chosen", "node", "ended"}

GameInv ==
    /\ Current \in Range(game)
    /\ \A p \in Range(game) : Sided(p) /\ PhaseOf(p) = PhaseOf(Current)
CarryInv ==
    \/ carry.score = Infinite
    \/ carry.ply \in Nat /\ carry.pov \in Colors /\ Phase(carry.ply, carry.pov) = PhaseOf(Current)
GoInv ==
    go # <<>> =>
        /\ DOMAIN go = GoFields
        /\ Sided(go.root) /\ PhaseOf(go.root) = PhaseOf(Current)
        /\ go.seed.score = Infinite \/ go.seed.pov = go.root.stm
        /\ go.chosen # 0 => Reported /\ go.chosen = SelectBestWorker(go.reports)
OutcomeInv == GameInv /\ CarryInv /\ GoInv

\* The positions of a game of one and of two positions.
LEMMA GameOf ==
    ASSUME NEW p, NEW q
    PROVE  /\ game = <<p>> => Range(game) = {p} /\ Current = p
           /\ game = <<q, p>> => Range(game) = {q, p} /\ Current = p
           /\ game' = <<p>> => Range(game') = {p} /\ Current' = p
           /\ game' = <<q, p>> => Range(game') = {q, p} /\ Current' = p
<1>1. Range(<<p>>) = {p} /\ <<p>>[Len(<<p>>)] = p
  BY DEF Range
<1>2. Range(<<q, p>>) = {q, p} /\ <<q, p>>[Len(<<q, p>>)] = p
  <2>1. DOMAIN <<q, p>> = {1, 2} /\ <<q, p>>[1] = q /\ <<q, p>>[2] = p /\ Len(<<q, p>>) = 2
    OBVIOUS
  <2>2. QED BY <2>1 DEF Range
<1>3. QED BY <1>1, <1>2 DEF Current

\* One ply on the other side moves, so the phase is the same.
LEMMA PhaseKept ==
    ASSUME NEW p, Sided(p), NEW m
    PROVE  LET new == [After(p, m) EXCEPT !.ply = @ + 1]
           IN  Sided(new) /\ PhaseOf(new) = PhaseOf(p)
<1> DEFINE next == After(p, m)
           new == [next EXCEPT !.ply = @ + 1]
<1>1. DOMAIN next = DOMAIN p /\ next.ply = p.ply /\ next.stm = Flip(p.stm)
  BY DEF After, Sided
<1> HIDE DEF next
<1>2. DOMAIN new = DOMAIN p /\ new.ply = p.ply + 1 /\ new.stm = Flip(p.stm)
  BY <1>1 DEF Sided
<1> HIDE DEF new
<1>3. Sided(new)
  BY <1>2 DEF Sided, Flip, Colors, Black, White
<1>4. PhaseOf(new) = PhaseOf(p)
  BY <1>2 DEF PhaseOf, Phase, Sided, Flip, Colors, Black, White
<1>5. QED BY <1>3, <1>4 DEF new, next

\* Of two sides in one phase, the parity of the plies tells whether they differ.
LEMMA SeedSided ==
    ASSUME NEW c, c.ply \in Nat, c.pov \in Colors, NEW root, Sided(root),
           Phase(c.ply, c.pov) = PhaseOf(root)
    PROVE  SeedScore(c, root).pov = root.stm
BY DEF SeedScore, Sided, PhaseOf, Phase, Flip, Colors, Black, White

\* A first go finds the carried score as it should be.
LEMMA OutcomeInvInit == OutcomeInit => OutcomeInv
<1> SUFFICES ASSUME OutcomeInit PROVE OutcomeInv
  OBVIOUS
<1>1. PICK p \in Games : game = <<p>>
  BY DEF OutcomeInit
<1>2. Range(game) = {p} /\ Current = p /\ Sided(p)
  BY <1>1, GameOf, GamesAssumption DEF Sided
<1>3. GameInv
  BY <1>2 DEF GameInv
<1>4. CarryInv /\ GoInv
  BY DEF OutcomeInit, CarryInv, GoInv, NewGameCarry
<1>5. QED BY <1>3, <1>4 DEF OutcomeInv

\* What a carried score needs of the next one.
LEMMA CarriedInPhase ==
    ASSUME OutcomeInv
    PROVE  \/ Carried.score = Infinite
           \/ /\ Carried.ply \in Nat /\ Carried.pov \in Colors
              /\ Phase(Carried.ply, Carried.pov) = PhaseOf(Current)
<1>1. CASE go = <<>>
  BY <1>1 DEF Carried, OutcomeInv, CarryInv
<1>2. CASE go # <<>>
  <2>1. Sided(go.root) /\ PhaseOf(go.root) = PhaseOf(Current)
    BY <1>2 DEF OutcomeInv, GoInv
  <2>2. Carried.ply = go.root.ply /\ Carried.pov = go.root.stm
    BY <1>2 DEF Carried
  <2> HIDE DEF Carried
  <2>3. QED BY <2>1, <2>2 DEF Sided, PhaseOf
<1>3. QED BY <1>1, <1>2

\* Every go, and every change of the game, keeps it so.
LEMMA OutcomeInvNext == OutcomeInv /\ OutcomeNext => OutcomeInv'
<1> SUFFICES ASSUME OutcomeInv, OutcomeNext PROVE OutcomeInv'
  OBVIOUS
<1>0. Current \in Range(game) /\ \A p \in Range(game) : Sided(p) /\ PhaseOf(p) = PhaseOf(Current)
  BY DEF OutcomeInv, GameInv
<1>1. CASE PlayMove
  <2>1. PICK m : game' = <<Current, [After(Current, m) EXCEPT !.ply = @ + 1]>>
    BY <1>1 DEF PlayMove
  <2> DEFINE new == [After(Current, m) EXCEPT !.ply = @ + 1]
  <2>2. Sided(new) /\ PhaseOf(new) = PhaseOf(Current)
    BY <1>0, PhaseKept
  <2> HIDE DEF new
  <2>3. Range(game') = {Current, new} /\ Current' = new
    BY <2>1, GameOf DEF new
  <2>4. GameInv'
    BY <1>0, <2>2, <2>3 DEF GameInv
  <2>5. carry' = carry /\ go' = go /\ PhaseOf(Current') = PhaseOf(Current)
    BY <1>1, <2>2, <2>3 DEF PlayMove
  <2>6. CarryInv' /\ GoInv'
    BY <2>5 DEF OutcomeInv, CarryInv, GoInv, Reported
  <2>7. QED BY <2>4, <2>6 DEF OutcomeInv
<1>2. CASE StartGo
  <2>1. carry' = Carried /\ game' = game /\ Current' = Current
    BY <1>2 DEF StartGo, Current
  <2>2. PICK root \in Range(game), rule \in Rules :
            go' = [root |-> root, ekr |-> EnteringKingConfig(rule, root),
                   seed |-> SeedScore(carry', root), reports |-> <<>>, chosen |-> 0, node |-> root,
                   ended |-> LegalMoves(root) = {} \/ Declares(root, EnteringKingConfig(rule, root))]
    BY <1>2 DEF StartGo
  <2>3. /\ DOMAIN go' = GoFields /\ go'.root = root /\ go'.chosen = 0
        /\ go'.seed = SeedScore(carry', root)
    BY <2>2 DEF GoFields
  <2>4. CarryInv'
    BY <2>1, CarriedInPhase DEF CarryInv
  <2>5. go'.seed.score = Infinite \/ go'.seed.pov = root.stm
    <3>1. CASE Carried.score = Infinite
      BY <2>1, <2>3, <3>1 DEF SeedScore
    <3>2. CASE Carried.score # Infinite
      <4>1. /\ Carried.ply \in Nat /\ Carried.pov \in Colors
            /\ Phase(Carried.ply, Carried.pov) = PhaseOf(root) /\ Sided(root)
        BY <1>0, <3>2, CarriedInPhase
      <4>2. QED BY <2>1, <2>3, <4>1, SeedSided
    <3>3. QED BY <3>1, <3>2
  <2>6. GoInv'
    BY <1>0, <2>1, <2>3, <2>5 DEF GoInv
  <2>7. GameInv'
    BY <2>1 DEF OutcomeInv, GameInv
  <2>8. QED BY <2>4, <2>6, <2>7 DEF OutcomeInv
<1>3. CASE BookReply \/ Visit \/ Conclude
  <2>1. go # <<>> /\ game' = game /\ carry' = carry /\ Current' = Current
    BY <1>3 DEF BookReply, Visit, Conclude, Searching, Done, Current
  <2>2. GameInv' /\ CarryInv'
    BY <2>1 DEF OutcomeInv, GameInv, CarryInv
  <2>3. DOMAIN go = GoFields
    BY <2>1 DEF OutcomeInv, GoInv
  <2>4. DOMAIN go' = GoFields /\ go'.root = go.root /\ go'.seed = go.seed
    BY <1>3, <2>3 DEF BookReply, Visit, Conclude, GoFields
  <2>5. go'.chosen # 0 => Reported' /\ go'.chosen = SelectBestWorker(go'.reports)
    <3>1. CASE BookReply \/ Visit
      <4>1. go'.chosen = go.chosen /\ go'.reports = go.reports
        BY <2>3, <3>1 DEF BookReply, Visit, GoFields
      <4>2. QED BY <2>1, <4>1 DEF OutcomeInv, GoInv, Reported
    <3>2. CASE Conclude
      <4>1. PICK reports \in [1..WorkerCount -> Votes] :
                go' = [go EXCEPT !.reports = reports, !.chosen = SelectBestWorker(reports), !.ended = TRUE]
        BY <3>2 DEF Conclude
      <4>2. go'.reports = reports /\ go'.chosen = SelectBestWorker(reports)
        BY <2>3, <4>1 DEF GoFields
      <4>3. QED BY <4>2 DEF Reported
    <3>3. QED BY <1>3, <3>1, <3>2
  <2>6. GoInv'
    BY <2>1, <2>4, <2>5 DEF OutcomeInv, GoInv
  <2>7. QED BY <2>2, <2>6 DEF OutcomeInv
<1>4. CASE NewGame
  <2>1. PICK p \in Games : game' = <<p>>
    BY <1>4 DEF NewGame
  <2>2. Range(game') = {p} /\ Current' = p /\ Sided(p)
    BY <2>1, GameOf, GamesAssumption DEF Sided
  <2>3. carry' = NewGameCarry /\ go' = <<>>
    BY <1>4 DEF NewGame
  <2>4. GameInv'
    BY <2>2 DEF GameInv
  <2>5. CarryInv' /\ GoInv'
    BY <2>3 DEF CarryInv, GoInv, NewGameCarry
  <2>6. QED BY <2>4, <2>5 DEF OutcomeInv
<1>5. QED BY <1>1, <1>2, <1>3, <1>4 DEF OutcomeNext

\* So the vote and the carried score are right.
LEMMA OutcomeInvEnough == OutcomeInv => VoteAndCarryRight
<1> SUFFICES ASSUME OutcomeInv, go # <<>>
             PROVE  /\ go.chosen # 0 => VoteRight(go.reports, go.chosen)
                    /\ go.seed.score \notin {-Infinite, Infinite} => go.seed.pov = go.root.stm
  BY DEF VoteAndCarryRight
<1>1. go.chosen # 0 => Reported /\ go.chosen = SelectBestWorker(go.reports)
  BY DEF OutcomeInv, GoInv
<1>2. go.seed.score = Infinite \/ go.seed.pov = go.root.stm
  BY DEF OutcomeInv, GoInv
<1>3. go.chosen # 0 => VoteRight(go.reports, go.chosen)
  BY <1>1, ChosenIsBest, BestIsRight
<1>4. QED BY <1>2, <1>3

\* The invariant along the behaviours in which gos are played.
PlayInv == IF part = "outcome" THEN OutcomeInv ELSE go = <<>>

\* (root.rs select_best_worker, search.rs the score of the last go) For any number
\* of workers, any reports and any game, workers that prove the same thing agree
\* on the shortest way, otherwise the move with most votes is played, and the
\* score handed from one go to the next is seen from the side that go thinks for,
\* whichever position of the game it searches and however many moves lie between.
THEOREM VoteAndCarryAlways == Spec => []VoteAndCarryRight
<1>1. Init => PlayInv
  BY OutcomeInvInit DEF Init, PlayInv, OutcomeIdle
<1>2. PlayInv /\ [Next]_<<part, evalVars, histVars, bookVars, setupVars, outcomeVars, budgetVars, pvVars>>
        => PlayInv'
  <2> SUFFICES ASSUME PlayInv,
                      [Next]_<<part, evalVars, histVars, bookVars, setupVars, outcomeVars, budgetVars, pvVars>>
               PROVE  PlayInv'
    OBVIOUS
  <2>1. part' = part /\ (UNCHANGED outcomeVars \/ (part = "outcome" /\ OutcomeNext))
    BY DEF Next
  <2>2. CASE UNCHANGED outcomeVars
    <3>1. go' = go /\ game' = game /\ carry' = carry /\ Current' = Current
      BY <2>2 DEF outcomeVars, Current
    <3>2. OutcomeInv => OutcomeInv'
      BY <3>1 DEF OutcomeInv, GameInv, CarryInv, GoInv, Reported
    <3>3. QED BY <2>1, <3>1, <3>2 DEF PlayInv
  <2>3. CASE part = "outcome" /\ OutcomeNext
    BY <2>1, <2>3, OutcomeInvNext DEF PlayInv
  <2>4. QED BY <2>1, <2>2, <2>3
<1>3. PlayInv => VoteAndCarryRight
  BY OutcomeInvEnough DEF PlayInv, VoteAndCarryRight
<1>4. QED BY <1>1, <1>2, <1>3, PTL DEF Spec

----------------------------------------------------------------------------
(* The clock of a search that ponders (PonderTime).                        *)

USE MaxTimeAssumption, BudgetsAssumption, MovetimesAssumption

\* The stamp precedes the cleared flag, and is what the worker takes over.
SignalInv ==
    /\ ponderGo /\ ~active => hitAt # -1
    /\ synced => ponderGo /\ ~active /\ hitTime = hitAt
    /\ ~synced => hitTime = 0

\* The budget block is entered with no end decided, and a copied "no longer
\* pondering" stays true.
BlockInv ==
    /\ wpc \in {"sync", "read", "budget"} => searchEnd = 0
    /\ wpc = "budget" /\ ~pondering => ~active
    /\ wpc = "search" => depth < MaxDepth

ClockInv == TypeOK /\ SignalInv /\ BlockInv /\ DeadlineWithinClock

----------------------------------------------------------------------------
\* Rounding never goes past what is left on the clock.
LEMMA RoundUpBounded ==
    ASSUME NEW b \in Budgets, NEW t \in Int
    PROVE  RoundUp(b, t) \in Int /\ RoundUp(b, t) <= b.remain
<1> DEFINE q == (t + Second - 1) \div Second
<1>1. q \in Int
  OBVIOUS
<1>2. q * Second \in Int
  BY <1>1
<1> HIDE DEF q
<1> QED
  BY <1>1, <1>2 DEF RoundUp, AtLeast, AtMost, q

\* Nor does the end time, counted from when our own clock began to run.
LEMMA SearchEndBounded ==
    ASSUME NEW b \in Budgets, NEW t \in Nat, NEW h \in Nat
    PROVE  SearchEnd(b, t, h) \in Int /\ SearchEnd(b, t, h) <= b.remain + h
<1> DEFINE floor == IF b.finalPush THEN b.minimum ELSE b.minimum - h
           used == AtLeast(t - h, floor)
<1>1. used \in Int
  BY DEF AtLeast
<1>2. RoundUp(b, used) \in Int /\ RoundUp(b, used) <= b.remain /\ b.remain \in Nat
  BY <1>1, RoundUpBounded
<1> QED
  BY <1>2 DEF SearchEnd

\* A search starts with the clock's invariant.
LEMMA ClockInvInit == ClockInit => ClockInv
<1> SUFFICES ASSUME ClockInit PROVE ClockInv
  OBVIOUS
<1>1. MaxTime \in Nat /\ MaxHit \in Nat /\ MaxDepth \in Nat \ {0}
  OBVIOUS
<1>2. now \in 0..MaxTime /\ hitAt \in -1..MaxHit /\ depth \in 0..MaxDepth /\ hitTime \in 0..MaxHit
  BY <1>1 DEF ClockInit
<1>3. /\ ponderGo \in BOOLEAN /\ active \in BOOLEAN /\ stop \in BOOLEAN /\ guiStop \in BOOLEAN
      /\ stopped \in BOOLEAN /\ synced \in BOOLEAN /\ stopOnHit \in BOOLEAN
      /\ pondering \in BOOLEAN
  BY Zenon DEF ClockInit
<1>4. TypeOK
  BY <1>2, <1>3 DEF ClockInit, TypeOK
<1>5. SignalInv /\ BlockInv /\ DeadlineWithinClock
  BY <1>1 DEF ClockInit, SignalInv, BlockInv, DeadlineWithinClock
<1> QED
  BY <1>4, <1>5 DEF ClockInv

\* One step per action.
LEMMA ClockInvNext == ClockInv /\ [ClockNext]_clockVars => ClockInv'
<1> SUFFICES ASSUME ClockInv, [ClockNext]_clockVars PROVE ClockInv'
  OBVIOUS
<1> USE DEF ClockInv, TypeOK, SignalInv, BlockInv, DeadlineWithinClock, OwnStart,
            goVars, signalVars, workerVars
<1>1. CASE Tick
  BY <1>1 DEF Tick
<1>2. CASE Stamp
  BY <1>2 DEF Stamp
<1>3. CASE Clear
  BY <1>3 DEF Clear
<1>4. CASE Stop
  BY <1>4 DEF Stop
<1>5. CASE CheckStopFlag
  BY <1>5 DEF CheckStopFlag
<1>6. CASE CheckAbort
  BY <1>6 DEF CheckAbort, Checking, Sync
<1>7. CASE CheckFix
  <2>1. tm \in Budgets /\ now \in Nat /\ hitTime' \in Nat
    BY <1>7 DEF CheckFix, Checking, Sync, FixDue
  <2>2. SearchEnd(tm, now, hitTime') \in Int /\ SearchEnd(tm, now, hitTime') <= tm.remain + hitTime'
    BY <2>1, SearchEndBounded
  <2> QED
    BY <1>7, <2>1, <2>2 DEF CheckFix, Checking, Sync, FixDue
<1>8. CASE CheckNothing
  BY <1>8 DEF CheckNothing, Checking, Sync
<1>9. CASE FailLow
  BY <1>9 DEF FailLow
<1>10. CASE Iterate
  BY <1>10 DEF Iterate, Continue
<1>11. CASE MateFound
  BY <1>11 DEF MateFound
<1>12. CASE BudgetSync
  BY <1>12 DEF BudgetSync, Sync
<1>13. CASE BudgetRead
  BY <1>13 DEF BudgetRead
<1>14. CASE BudgetOver
  <2>1. tm \in Budgets /\ now \in Nat /\ hitTime \in Nat
    BY <1>14 DEF BudgetOver, Continue
  <2>2. SearchEnd(tm, now, hitTime) \in Int /\ SearchEnd(tm, now, hitTime) <= tm.remain + hitTime
    BY <2>1, SearchEndBounded
  <2>3. TypeOK' /\ SignalInv'
    BY <1>14, <2>2 DEF BudgetOver, Continue
  <2>4. BlockInv'
    BY <1>14 DEF BudgetOver, Continue
  <2>5. DeadlineWithinClock'
    BY <1>14, <2>1, <2>2 DEF BudgetOver
  <2> QED
    BY <2>3, <2>4, <2>5
<1>15. CASE BudgetLeft
  BY <1>15 DEF BudgetLeft, Continue
<1>16. CASE UNCHANGED clockVars
  BY <1>16 DEF clockVars
<1> QED
  BY <1>1, <1>2, <1>3, <1>4, <1>5, <1>6, <1>7, <1>8, <1>9, <1>10, <1>11, <1>12, <1>13, <1>14, <1>15, <1>16 DEF ClockNext, Worker

\* The clock keeps its invariant in every behaviour.
THEOREM ClockInvAlways == ClockSpec => []ClockInv
  BY ClockInvInit, ClockInvNext, PTL DEF ClockSpec

----------------------------------------------------------------------------
\* Every variable keeps its type; the iterations never exceed limit_depth.
THEOREM TypeCorrect == ClockSpec => []TypeOK
<1>1. ClockInv => TypeOK
  BY DEF ClockInv
<1> QED
  BY <1>1, ClockInvAlways, PTL

\* Whatever the budget and whenever the ponderhit, the end time is within our
\* own clock.
THEOREM DeadlineIsWithinClock == ClockSpec => []DeadlineWithinClock
<1>1. ClockInv => DeadlineWithinClock
  BY DEF ClockInv
<1> QED
  BY <1>1, ClockInvAlways, PTL

\* No step but a checkpoint and the budget block touches the end time.
LEMMA WhoFixes ==
    ASSUME [ClockNext]_clockVars, searchEnd' # searchEnd
    PROVE  CheckFix \/ BudgetOver
BY DEF clockVars, goVars, signalVars, workerVars, ClockNext, Worker, Tick, Stamp, Clear, Stop,
   CheckStopFlag, CheckAbort, CheckNothing, FailLow, Iterate, MateFound,
   BudgetSync, BudgetRead, BudgetLeft

\* An end time once fixed is final.
THEOREM EndIsFixedOnce == ClockSpec => EndFixedOnce
<1>1. ClockInv /\ [ClockNext]_clockVars => [searchEnd # 0 => searchEnd' = searchEnd]_clockVars
  BY WhoFixes DEF ClockInv, BlockInv, CheckFix, FixDue, BudgetOver
<1> QED
  BY <1>1, ClockInvAlways, PTL DEF ClockSpec, EndFixedOnce

\* The stale copy of the ponder flag is stale in the harmless direction only.
THEOREM NoEndIsFixedWhilePondering == ClockSpec => NoEndWhilePondering
<1>1. ClockInv /\ [ClockNext]_clockVars => [searchEnd' # searchEnd => ~active]_clockVars
  BY WhoFixes DEF ClockInv, BlockInv, CheckFix, Checking, BudgetOver
<1> QED
  BY <1>1, ClockInvAlways, PTL DEF ClockSpec, NoEndWhilePondering

\* A checkpoint that sees the flag clear has the stamp.
THEOREM CheckpointsCountFromHit == ClockSpec => CheckpointCountsFromHit
<1>1. ClockInv /\ [ClockNext]_clockVars =>
        [wpc = "search" /\ searchEnd' # searchEnd /\ ponderGo => hitTime' = hitAt]_clockVars
  BY WhoFixes DEF ClockInv, SignalInv, CheckFix, Checking, Sync, BudgetOver
<1> QED
  BY <1>1, ClockInvAlways, PTL DEF ClockSpec, CheckpointCountsFromHit

\* The end time is fixed once, after pondering, from the ponderhit.
THEOREM EndTimeKeepsItsRules == ClockSpec => EndTimeRules
  BY EndIsFixedOnce, NoEndIsFixedWhilePondering, CheckpointsCountFromHit DEF EndTimeRules

=============================================================================
