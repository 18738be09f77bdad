---------------------------- MODULE EngineProofs ----------------------------
(***************************************************************************)
(* Theorems about the engine around a search.                              *)
(*                                                                         *)
(* The last lines of a go: whatever the shared table answers, the lines    *)
(* shown and the reply are legal play, come to no board again and tell the *)
(* same story (LastLinesRight).                                            *)
(*                                                                         *)
(* The set-up: whatever options are set, overridden and refused, layout,   *)
(* bound threads, shared tables and networks are those the current options *)
(* ask for (SetupRight). It rests on what the algorithms give for every    *)
(* machine: a text's layout, and the one detected, have nodes, none empty  *)
(* and none sharing a CPU (CustomLayout, DetectedLayout), the greedy       *)
(* distribution fills the nodes evenly by their sizes (DistributedEvenly), *)
(* a shared table has room for its workers (PowerReaches, SharedBuilt),    *)
(* and every worker finds its network (NetworksResolved).                  *)
(***************************************************************************)
EXTENDS MCServices, SequenceTheorems, FiniteSetTheorems, TLAPS

----------------------------------------------------------------------------
(* The last lines: sequences.                                              *)

\* A sequence over a set is one of its own elements.
LEMMA ListIf ==
    ASSUME NEW S, NEW s \in Seq(S)
    PROVE  IsList(s) /\ Len(s) \in Nat /\ DOMAIN s = 1..Len(s)
<1>1. /\ Len(s) \in Nat /\ DOMAIN s = 1..Len(s) /\ s = [i \in 1..Len(s) |-> s[i]]
  OBVIOUS
<1>2. \A i \in 1..Len(s) : s[i] \in ToSet(s)
  BY <1>1 DEF ToSet
<1>3. s \in [1..Len(s) -> ToSet(s)]
  BY <1>1, <1>2
<1>4. s \in Seq(ToSet(s))
  BY <1>1, <1>3
<1>5. QED BY <1>1, <1>4 DEF IsList

\* What a list is.
LEMMA ListIs ==
    ASSUME NEW s, IsList(s)
    PROVE  /\ Len(s) \in Nat /\ DOMAIN s = 1..Len(s)
           /\ (s # <<>>) <=> (Len(s) # 0)
           /\ \A x : x \in ToSet(s) <=> \E i \in 1..Len(s) : x = s[i]
<1>1. s \in Seq(ToSet(s))
  BY DEF IsList
<1>2. Len(s) \in Nat /\ DOMAIN s = 1..Len(s)
  BY <1>1, ListIf
<1>3. (s # <<>>) <=> (Len(s) # 0)
  BY <1>1, EmptySeq
<1>4. \A x : x \in ToSet(s) <=> \E i \in 1..Len(s) : x = s[i]
  BY <1>2 DEF ToSet
<1>5. QED BY <1>2, <1>3, <1>4

\* The empty list.
LEMMA NoElements == IsList(<<>>) /\ Len(<<>>) = 0
<1>1. <<>> \in Seq({})
  OBVIOUS
<1>2. QED BY <1>1, ListIf

\* One element more.
LEMMA ListAppend ==
    ASSUME NEW s, IsList(s), NEW x
    PROVE  /\ IsList(Append(s, x)) /\ Len(Append(s, x)) = Len(s) + 1
           /\ Append(s, x)[Len(s) + 1] = x /\ Append(s, x) # <<>>
           /\ \A i \in 1..Len(s) : Append(s, x)[i] = s[i]
<1> DEFINE S == ToSet(s) \cup {x}
           t == Append(s, x)
<1>1. s \in Seq(S) /\ x \in S
  <2>1. s \in Seq(ToSet(s)) /\ ToSet(s) \subseteq S
    BY DEF IsList
  <2> HIDE DEF S
  <2>2. s \in Seq(S)
    BY <2>1
  <2>3. QED BY <2>2 DEF S
<1> HIDE DEF S
<1>2. /\ t \in Seq(S) /\ Len(t) = Len(s) + 1 /\ t[Len(s) + 1] = x
      /\ \A i \in 1..Len(s) : t[i] = s[i]
  BY <1>1, AppendProperties
<1>3. IsList(t)
  BY <1>2, ListIf
<1>4. Len(s) \in Nat
  BY ListIs
<1> HIDE DEF t
<1>5. t # <<>>
  BY <1>2, <1>3, <1>4, NoElements
<1>6. QED BY <1>2, <1>3, <1>5 DEF t

\* The beginning of a list.
LEMMA ListBegins ==
    ASSUME NEW s, IsList(s), NEW n \in 0..Len(s)
    PROVE  /\ IsList(SubSeq(s, 1, n)) /\ Len(SubSeq(s, 1, n)) = n
           /\ \A i \in 1..n : SubSeq(s, 1, n)[i] = s[i]
<1>1. s \in Seq(ToSet(s))
  BY DEF IsList
<1>2. /\ SubSeq(s, 1, n) \in Seq(ToSet(s)) /\ Len(SubSeq(s, 1, n)) = n
      /\ \A i \in 1..n : SubSeq(s, 1, n)[i] = s[i]
  <2>1. \A i \in 1..n : s[i] \in ToSet(s)
    BY ListIs
  <2>2. n \in Nat
    BY ListIs
  <2>3. QED BY <1>1, <2>1, <2>2, SubSeqProperties
<1>3. QED BY <1>2, ListIf

\* Lists with the same elements are the same.
LEMMA ListsEqual ==
    ASSUME NEW s, IsList(s), NEW t, IsList(t), Len(s) = Len(t),
           \A i \in 1..Len(s) : s[i] = t[i]
    PROVE  s = t
<1> DEFINE S == ToSet(s) \cup ToSet(t)
<1>1. s \in Seq(S) /\ t \in Seq(S)
  <2>1. s \in Seq(ToSet(s)) /\ ToSet(s) \subseteq S /\ t \in Seq(ToSet(t)) /\ ToSet(t) \subseteq S
    BY DEF IsList
  <2> HIDE DEF S
  <2>2. QED BY <2>1
<1> HIDE DEF S
<1>2. QED BY <1>1, SeqEqual

\* Of two lists one begins the other when they agree wherever both go.
Kin(a, b) == PrefixOf(a, b) \/ PrefixOf(b, a)

\* The list that is not longer and agrees is the beginning of the other.
LEMMA BeginsIf ==
    ASSUME NEW a, IsList(a), NEW b, IsList(b)
    PROVE  /\ PrefixOf(a, b) => Len(a) <= Len(b) /\ \A i \in 1..Len(a) : a[i] = b[i]
           /\ (Len(a) <= Len(b) /\ \A i \in 1..Len(a) : a[i] = b[i]) => PrefixOf(a, b)
<1>1. Len(a) \in Nat /\ Len(b) \in Nat
  BY ListIs
<1>2. CASE Len(a) <= Len(b)
  <2> DEFINE c == SubSeq(b, 1, Len(a))
  <2>1. IsList(c) /\ Len(c) = Len(a) /\ \A i \in 1..Len(a) : c[i] = b[i]
    <3>1. Len(a) \in 0..Len(b)
      BY <1>1, <1>2
    <3>2. QED BY <3>1, ListBegins
  <2>2. PrefixOf(a, b) <=> c = a
    BY <1>2 DEF PrefixOf
  <2> HIDE DEF c
  <2>3. (\A i \in 1..Len(a) : a[i] = b[i]) => c = a
    BY <2>1, ListsEqual
  <2>4. QED BY <1>2, <2>1, <2>2, <2>3
<1>3. CASE ~(Len(a) <= Len(b))
  BY <1>3 DEF PrefixOf
<1>4. QED BY <1>2, <1>3

\* Two lists that agree wherever both go tell the same story.
LEMMA KinIs ==
    ASSUME NEW a, IsList(a), NEW b, IsList(b)
    PROVE  Kin(a, b) <=> \A i \in 1..Len(a) : i <= Len(b) => a[i] = b[i]
<1>1. Len(a) \in Nat /\ Len(b) \in Nat
  BY ListIs
<1>2. ASSUME Kin(a, b) PROVE \A i \in 1..Len(a) : i <= Len(b) => a[i] = b[i]
  <2>1. CASE PrefixOf(a, b)
    BY <2>1, BeginsIf
  <2>2. CASE PrefixOf(b, a)
    <3>1. \A i \in 1..Len(b) : b[i] = a[i]
      BY <2>2, BeginsIf
    <3>2. QED BY <1>1, <3>1
  <2>3. QED BY <1>2, <2>1, <2>2 DEF Kin
<1>3. ASSUME \A i \in 1..Len(a) : i <= Len(b) => a[i] = b[i] PROVE Kin(a, b)
  <2>1. CASE Len(a) <= Len(b)
    <3>1. \A i \in 1..Len(a) : a[i] = b[i]
      BY <1>1, <1>3, <2>1
    <3>2. QED BY <2>1, <3>1, BeginsIf DEF Kin
  <2>2. CASE Len(b) <= Len(a)
    <3>1. \A i \in 1..Len(b) : b[i] = a[i]
      BY <1>1, <1>3, <2>2
    <3>2. QED BY <2>2, <3>1, BeginsIf DEF Kin
  <2>3. QED BY <1>1, <2>1, <2>2
<1>4. QED BY <1>2, <1>3

----------------------------------------------------------------------------
(* The boards of a line.                                                   *)

AnyValue(k, v) == TRUE
Growing == INSTANCE FoldProofs WITH Op <- Grown, Holds <- AnyValue

\* A line has a board before its first move and one after each.
LEMMA BoardsAre ==
    ASSUME NEW moves, IsList(moves), NEW start
    PROVE  LET ps == Boards(start, moves)
           IN  /\ IsList(ps) /\ Len(ps) = Len(moves) + 1 /\ ps[1] = start
               /\ \A k \in 1..Len(moves) : ps[k + 1] = After(ps[k], moves[k])
<1> DEFINE n == Len(moves)
           base == <<start>>
           v == Growing!Values(base, moves, n)
<1>1. n \in Nat /\ DOMAIN moves = 1..n
  BY ListIs
<1>2. IsList(base) /\ Len(base) = 1 /\ base[1] = start
  <2>1. base \in Seq({start}) /\ Len(base) = 1 /\ base[1] = start
    OBVIOUS
  <2> HIDE DEF base
  <2>2. QED BY <2>1, ListIf
<1> HIDE DEF n, base
<1>3. /\ v[0] = base /\ v[n] = Growing!FoldOf(base, moves)
      /\ \A k \in 1..n : v[k] = Grown(v[k - 1], moves[k])
  BY <1>1, Growing!FoldSteps
<1>4. Growing!FoldOf(base, moves) = Boards(start, moves)
  BY DEF Growing!FoldOf, Boards, base, FoldLeft, Growing!FoldLeft, MapThenFoldSet,
         Growing!MapThenFoldSet, Max, Growing!Max
<1> HIDE DEF v
<1> DEFINE P(k) == /\ IsList(v[k]) /\ Len(v[k]) = k + 1 /\ v[k][1] = start
                   /\ \A j \in 1..k : v[k][j + 1] = After(v[k][j], moves[j])
           S == {k \in Nat : k <= n => P(k)}
<1>5. 0 \in S
  BY <1>2, <1>3
<1>6. ASSUME NEW k \in Nat, k \in S PROVE k + 1 \in S
  <2> SUFFICES ASSUME k + 1 <= n PROVE P(k + 1)
    OBVIOUS
  <2>1. k + 1 \in 1..n /\ (k + 1) - 1 = k /\ P(k)
    BY <1>1, <1>6
  <2> DEFINE a == After(v[k][k + 1], moves[k + 1])
             t == Append(v[k], a)
  <2>2. v[k + 1] = t
    BY <1>3, <2>1 DEF Grown
  <2>3. /\ IsList(t) /\ Len(t) = k + 2 /\ t[k + 2] = a
        /\ \A i \in 1..(k + 1) : t[i] = v[k][i]
    <3>1. IsList(v[k]) /\ Len(v[k]) = k + 1
      BY <2>1
    <3> HIDE DEF a
    <3>2. /\ IsList(t) /\ Len(t) = (k + 1) + 1 /\ t[(k + 1) + 1] = a
          /\ \A i \in 1..(k + 1) : t[i] = v[k][i]
      BY <3>1, ListAppend
    <3>3. (k + 1) + 1 = k + 2
      OBVIOUS
    <3> HIDE DEF t
    <3>4. QED BY <3>2, <3>3
  <2> HIDE DEF t, a
  <2>4. t[1] = start
    BY <2>1, <2>3
  <2>5. \A j \in 1..(k + 1) : t[j + 1] = After(t[j], moves[j])
    <3> SUFFICES ASSUME NEW j \in 1..(k + 1) PROVE t[j + 1] = After(t[j], moves[j])
      OBVIOUS
    <3>1. CASE j = k + 1
      <4>1. t[j] = v[k][k + 1] /\ j + 1 = k + 2
        BY <2>3, <3>1
      <4>2. QED BY <2>3, <3>1, <4>1 DEF a
    <3>2. CASE j \in 1..k
      <4>1. t[j] = v[k][j] /\ t[j + 1] = v[k][j + 1]
        <5>1. j \in 1..(k + 1) /\ j + 1 \in 1..(k + 1)
          BY <3>2
        <5>2. QED BY <2>3, <5>1
      <4>2. v[k][j + 1] = After(v[k][j], moves[j])
        BY <2>1, <3>2
      <4>3. QED BY <4>1, <4>2
    <3>3. QED BY <3>1, <3>2
  <2>6. QED BY <2>2, <2>3, <2>4, <2>5
<1>7. Nat \subseteq S
  <2> HIDE DEF S
  <2>1. QED BY <1>5, <1>6, Growing!SetInduction
<1>8. P(n)
  BY <1>1, <1>7
<1>9. QED BY <1>3, <1>4, <1>8 DEF n

\* Lines that begin alike have the same boards.
LEMMA BoardsAgree ==
    ASSUME NEW start, NEW a, IsList(a), NEW b, IsList(b), NEW n \in Nat,
           n <= Len(a), n <= Len(b), \A i \in 1..n : a[i] = b[i]
    PROVE  \A i \in 1..(n + 1) : Boards(start, a)[i] = Boards(start, b)[i]
<1> DEFINE x == Boards(start, a)
           y == Boards(start, b)
           S == {k \in Nat : k <= n => x[k + 1] = y[k + 1]}
<1>1. /\ x[1] = start /\ \A k \in 1..Len(a) : x[k + 1] = After(x[k], a[k])
      /\ y[1] = start /\ \A k \in 1..Len(b) : y[k + 1] = After(y[k], b[k])
  BY BoardsAre
<1>2. Len(a) \in Nat /\ Len(b) \in Nat
  BY ListIs
<1> HIDE DEF x, y
<1>3. 0 \in S
  BY <1>1
<1>4. ASSUME NEW k \in Nat, k \in S PROVE k + 1 \in S
  <2> SUFFICES ASSUME k + 1 <= n PROVE x[(k + 1) + 1] = y[(k + 1) + 1]
    OBVIOUS
  <2>1. k + 1 \in 1..n /\ k + 1 \in 1..Len(a) /\ k + 1 \in 1..Len(b) /\ x[k + 1] = y[k + 1]
    BY <1>2, <1>4
  <2>2. QED BY <1>1, <2>1
<1>5. Nat \subseteq S
  <2> HIDE DEF S
  <2>1. QED BY <1>3, <1>4, Growing!SetInduction
<1>6. ASSUME NEW i \in 1..(n + 1) PROVE x[i] = y[i]
  <2>1. i - 1 \in Nat /\ i - 1 <= n /\ (i - 1) + 1 = i
    OBVIOUS
  <2>2. QED BY <1>5, <2>1
<1>7. QED BY <1>6 DEF x, y

\* The beginning of a legal line is one, and so is a legal line played on.
LEMMA BeginningLegal ==
    ASSUME NEW start, NEW a, IsList(a), NEW b, IsList(b), LegalLine(start, b),
           Len(a) <= Len(b), \A i \in 1..Len(a) : a[i] = b[i]
    PROVE  LegalLine(start, a)
<1>1. Len(a) \in Nat /\ Len(b) \in Nat /\ DOMAIN a = 1..Len(a) /\ DOMAIN b = 1..Len(b)
  BY ListIs
<1>2. \A i \in 1..(Len(a) + 1) : Boards(start, a)[i] = Boards(start, b)[i]
  BY <1>1, BoardsAgree
<1>3. \A i \in 1..Len(a) : i \in 1..(Len(a) + 1) /\ i \in 1..Len(b)
  BY <1>1
<1>4. QED BY <1>1, <1>2, <1>3 DEF LegalLine

\* A legal line and a legal move at its end are a legal line.
LEMMA PlayedOn ==
    ASSUME NEW start, NEW a, IsList(a), LegalLine(start, a), NEW m,
           LegalMove(Boards(start, a)[Len(a) + 1], m)
    PROVE  LET b == Append(a, m)
           IN  /\ IsList(b) /\ b # <<>> /\ LegalLine(start, b)
               /\ \A i \in 1..(Len(a) + 1) : Boards(start, b)[i] = Boards(start, a)[i]
               /\ Boards(start, b)[Len(a) + 2] = After(Boards(start, a)[Len(a) + 1], m)
<1> DEFINE b == Append(a, m)
           n == Len(a)
<1>1. /\ IsList(b) /\ b # <<>> /\ Len(b) = n + 1 /\ b[n + 1] = m
      /\ \A i \in 1..n : b[i] = a[i]
  BY ListAppend
<1>2. n \in Nat /\ DOMAIN a = 1..n /\ DOMAIN b = 1..(n + 1)
  <2> HIDE DEF b
  <2>1. QED BY <1>1, ListIs DEF n
<1> HIDE DEF b
<1>3. \A i \in 1..(n + 1) : Boards(start, b)[i] = Boards(start, a)[i]
  <2>1. n <= Len(a) /\ n <= Len(b) /\ \A i \in 1..n : b[i] = a[i]
    BY <1>1, <1>2 DEF n
  <2>2. QED BY <1>1, <1>2, <2>1, BoardsAgree
<1>4. \A k \in 1..(n + 1) : Boards(start, b)[k + 1] = After(Boards(start, b)[k], b[k])
  BY <1>1, BoardsAre
<1>5. Boards(start, b)[n + 2] = After(Boards(start, a)[n + 1], m)
  <2>1. n + 1 \in 1..(n + 1) /\ (n + 1) + 1 = n + 2
    BY <1>2
  <2>2. QED BY <1>1, <1>3, <1>4, <2>1
<1>6. LegalLine(start, b)
  <2> SUFFICES ASSUME NEW i \in 1..(n + 1) PROVE LegalMove(Boards(start, b)[i], b[i])
    BY <1>2 DEF LegalLine
  <2>1. CASE i = n + 1
    BY <1>1, <1>3, <2>1 DEF n
  <2>2. CASE i \in 1..n
    BY <1>1, <1>2, <1>3, <2>2 DEF LegalLine
  <2>3. QED BY <1>2, <2>1, <2>2
<1>7. QED BY <1>1, <1>3, <1>5, <1>6 DEF b, n

----------------------------------------------------------------------------
(* A legal move.                                                           *)

\* A square set: the board's squares are a function, whatever the piece sets.
LEMMA SquareSet ==
    ASSUME NEW b, "squares" \in DOMAIN b, NEW sq, NEW piece
    PROVE  /\ "squares" \in DOMAIN SetSquare(b, sq, piece)
           /\ SetSquare(b, sq, piece).squares = [b.squares EXCEPT ![sq] = piece]
<1>1. ASSUME NEW d, "squares" \in DOMAIN d, NEW x, NEW y
      PROVE  LET e == ToggleSets(d, x, y) IN "squares" \in DOMAIN e /\ e.squares = d.squares
  BY <1>1 DEF ToggleSets
<1> DEFINE old == b.squares[sq]
           cleared == IF old = NoPiece THEN b ELSE ToggleSets(b, old, sq)
           put == [cleared EXCEPT !.squares[sq] = piece]
<1>2. "squares" \in DOMAIN cleared /\ cleared.squares = b.squares
  BY <1>1
<1> HIDE DEF cleared
<1>3. "squares" \in DOMAIN put /\ put.squares = [b.squares EXCEPT ![sq] = piece]
  BY <1>2
<1>4. SetSquare(b, sq, piece) = IF piece = NoPiece THEN put ELSE ToggleSets(put, piece, sq)
  BY DEF SetSquare, cleared
<1> HIDE DEF put
<1>5. QED BY <1>1, <1>3, <1>4

\* What a legal move does to the squares: a drop fills an empty one, another move
\* takes an own piece away from its square to one that has none.
DropDone(p, m, after) ==
    /\ m.to \in Squares /\ Get(p.board, m.to) = NoPiece
    /\ after = [p.board.squares EXCEPT ![m.to] = m.piece]
MoveDone(p, m, after) ==
    /\ m.from \in Squares /\ m.to # m.from /\ Get(p.board, m.from).color = p.stm
    /\ after = [[p.board.squares EXCEPT ![m.to] = m.piece] EXCEPT ![m.from] = NoPiece]

\* A legal move puts its piece on another square and leaves its own empty.
LEMMA MoveMade ==
    ASSUME NEW p, IsPosition(p), NEW m, LegalMove(p, m)
    PROVE  LET q == After(p, m)
           IN  /\ IsPosition(q) /\ q.stm = Flip(p.stm)
               /\ m.piece.color = p.stm /\ "color" \in DOMAIN m.piece
               /\ \/ DropDone(p, m, q.board.squares) \/ MoveDone(p, m, q.board.squares)
<1> DEFINE q == After(p, m)
           f == p.board.squares
<1>1. /\ "board" \in DOMAIN p /\ "hands" \in DOMAIN p /\ "stm" \in DOMAIN p
      /\ "squares" \in DOMAIN p.board /\ DOMAIN f = Squares /\ p.stm \in Colors
      /\ \A sq \in Squares : "color" \in DOMAIN f[sq]
  BY DEF IsPosition, Get
<1>2. /\ "board" \in DOMAIN q /\ "hands" \in DOMAIN q /\ "stm" \in DOMAIN q
      /\ q.board = ApplyToBoard(p.board, m) /\ q.stm = Flip(p.stm) /\ q.stm \in Colors
  BY <1>1 DEF After, Flip, Colors, Black, White
<1> HIDE DEF q
<1>3. "color" \in DOMAIN NoPiece
  BY DEF NoPiece
<1>3a. ASSUME NEW sq, NEW piece
       PROVE  /\ "squares" \in DOMAIN SetSquare(p.board, sq, piece)
              /\ SetSquare(p.board, sq, piece).squares = [p.board.squares EXCEPT ![sq] = piece]
  <2> DEFINE b == p.board
  <2>1. "squares" \in DOMAIN b
    BY <1>1
  <2> HIDE DEF b
  <2>2. /\ "squares" \in DOMAIN SetSquare(b, sq, piece)
        /\ SetSquare(b, sq, piece).squares = [b.squares EXCEPT ![sq] = piece]
    BY <2>1, SquareSet
  <2>3. QED BY <2>2 DEF b
<1>4. CASE m.drop
  <2>1. m \in DropsOf(p, m.piece.kind)
    BY <1>4 DEF LegalMove
  <2>2. PICK to \in Squares : Get(p.board, to) = NoPiece /\ m = MvDrop(m.piece.kind, p.stm, to)
    BY <2>1 DEF DropsOf
  <2>3. m.to = to /\ m.piece.color = p.stm /\ "color" \in DOMAIN m.piece
    BY <2>2 DEF MvDrop, Piece
  <2>4. ApplyToBoard(p.board, m) = SetSquare(p.board, m.to, m.piece)
    BY <1>4 DEF ApplyToBoard
  <2>5. "squares" \in DOMAIN q.board /\ q.board.squares = [f EXCEPT ![m.to] = m.piece]
    <3>1. q.board = SetSquare(p.board, m.to, m.piece)
      BY <1>2, <2>4
    <3>2. QED BY <1>3a, <3>1
  <2>6. DropDone(p, m, q.board.squares)
    BY <2>2, <2>3, <2>5 DEF DropDone
  <2>7. DOMAIN q.board.squares = Squares /\ \A sq \in Squares : "color" \in DOMAIN q.board.squares[sq]
    BY <1>1, <2>3, <2>5
  <2>8. IsPosition(q)
    BY <1>2, <2>5, <2>7 DEF IsPosition, Get
  <2>9. QED BY <1>2, <2>3, <2>6, <2>8 DEF q
<1>5. CASE ~m.drop
  <2>1. m.from \in PiecesScan(p.board, p.stm) /\ m \in BoardMovesOf(p, m.from)
    BY <1>5 DEF LegalMove
  <2> DEFINE pc == Get(p.board, m.from)
  <2>2. m.from \in Squares /\ pc # NoPiece /\ pc.color = p.stm /\ "color" \in DOMAIN pc
    BY <1>1, <2>1 DEF PiecesScan, Get
  <2>3. PICK to \in ReachableScan(p.board, m.from, pc) :
            m = Mv(m.from, to, pc) \/ m = MvPromote(m.from, to, pc)
    BY <2>1 DEF BoardMovesOf
  <2>4. m.to = to /\ (m.piece = pc \/ m.piece = Promoted(pc))
    BY <2>3 DEF Mv, MvPromote
  <2>5. m.piece.color = p.stm /\ "color" \in DOMAIN m.piece
    BY <2>2, <2>4 DEF Promoted
  <2>6. m.to # m.from
    BY <2>2, <2>3, <2>4 DEF ReachableScan
  <2>7. ApplyToBoard(p.board, m) = SetSquare(SetSquare(p.board, m.to, m.piece), m.from, NoPiece)
    BY <1>5 DEF ApplyToBoard
  <2>8. /\ "squares" \in DOMAIN q.board
        /\ q.board.squares = [[f EXCEPT ![m.to] = m.piece] EXCEPT ![m.from] = NoPiece]
    <3> DEFINE b == SetSquare(p.board, m.to, m.piece)
    <3>1. "squares" \in DOMAIN b /\ b.squares = [f EXCEPT ![m.to] = m.piece]
      BY <1>3a
    <3> HIDE DEF b
    <3>1a. "squares" \in DOMAIN b
      BY <3>1
    <3>2. ASSUME NEW sq, NEW piece
          PROVE  /\ "squares" \in DOMAIN SetSquare(b, sq, piece)
                 /\ SetSquare(b, sq, piece).squares = [b.squares EXCEPT ![sq] = piece]
      BY <3>1a, SquareSet
    <3>3. q.board = SetSquare(b, m.from, NoPiece)
      BY <1>2, <2>7 DEF b
    <3>4. /\ "squares" \in DOMAIN SetSquare(b, m.from, NoPiece)
          /\ SetSquare(b, m.from, NoPiece).squares = [b.squares EXCEPT ![m.from] = NoPiece]
      BY <3>2
    <3>5. QED BY <3>1, <3>3, <3>4
  <2>9. MoveDone(p, m, q.board.squares)
    BY <2>2, <2>6, <2>8 DEF MoveDone
  <2>10. DOMAIN q.board.squares = Squares /\ \A sq \in Squares : "color" \in DOMAIN q.board.squares[sq]
    BY <1>1, <1>3, <2>5, <2>8
  <2>11. IsPosition(q)
    BY <1>2, <2>8, <2>10 DEF IsPosition, Get
  <2>12. QED BY <1>2, <2>5, <2>9, <2>11 DEF q
<1>6. QED BY <1>4, <1>5

\* Two moves never lead back: where the first came from, or what it dropped on, the
\* other side leaves an empty square or a piece of its own.
LEMMA TwoMovesDiffer ==
    ASSUME NEW p, IsPosition(p), NEW m, LegalMove(p, m),
           NEW n, LegalMove(After(p, m), n)
    PROVE  After(After(p, m), n).board.squares # p.board.squares
<1> DEFINE q == After(p, m)
           r == After(q, n)
           f == p.board.squares
           g == q.board.squares
           h == r.board.squares
<1> SUFFICES h # f
  OBVIOUS
<1>1. /\ IsPosition(q) /\ q.stm = Flip(p.stm) /\ m.piece.color = p.stm
      /\ DropDone(p, m, g) \/ MoveDone(p, m, g)
  BY MoveMade
<1>2. n.piece.color = q.stm /\ (DropDone(q, n, h) \/ MoveDone(q, n, h))
  BY <1>1, MoveMade
<1> HIDE DEF q, r
<1>3. /\ p.stm \in Colors /\ q.stm \in Colors /\ q.stm # p.stm
      /\ NoPiece.color # p.stm /\ NoPiece.color # q.stm
  <2>1. p.stm \in Colors
    BY DEF IsPosition
  <2>2. QED BY <1>1, <2>1 DEF Flip, Colors, Black, White, NoPiece
<1>4. DOMAIN f = Squares /\ DOMAIN g = Squares
  BY <1>1 DEF IsPosition
<1>5. CASE DropDone(p, m, g)
  <2> DEFINE x == m.to
  <2>1. x \in Squares /\ f[x] = NoPiece /\ g[x] = m.piece /\ g[x].color = p.stm
    BY <1>1, <1>4, <1>5 DEF DropDone, Get
  <2> HIDE DEF x
  <2>2. h[x] = n.piece \/ h[x] = g[x]
    <3>1. CASE DropDone(q, n, h)
      BY <1>4, <2>1, <3>1 DEF DropDone
    <3>2. CASE MoveDone(q, n, h)
      <4>1. g[n.from].color = q.stm
        BY <3>2 DEF MoveDone, Get
      <4>2. n.from # x
        BY <1>3, <2>1, <4>1
      <4>3. h = [[g EXCEPT ![n.to] = n.piece] EXCEPT ![n.from] = NoPiece]
        BY <3>2 DEF MoveDone
      <4>4. QED BY <1>4, <2>1, <4>2, <4>3
    <3>3. QED BY <1>2, <3>1, <3>2
  <2>3. QED BY <1>2, <1>3, <2>1, <2>2
<1>6. CASE MoveDone(p, m, g)
  <2> DEFINE x == m.from
  <2>1. x \in Squares /\ f[x].color = p.stm /\ g[x] = NoPiece
    BY <1>4, <1>6 DEF MoveDone, Get
  <2> HIDE DEF x
  <2>2. h[x] \in {n.piece, g[x], NoPiece}
    <3>1. CASE DropDone(q, n, h)
      BY <1>4, <2>1, <3>1 DEF DropDone
    <3>2. CASE MoveDone(q, n, h)
      <4>1. h = [[g EXCEPT ![n.to] = n.piece] EXCEPT ![n.from] = NoPiece]
        BY <3>2 DEF MoveDone
      <4>2. QED BY <1>4, <2>1, <4>1
    <3>3. QED BY <1>2, <3>1, <3>2
  <2>3. QED BY <1>2, <1>3, <2>1, <2>2
<1>7. QED BY <1>1, <1>5, <1>6

\* Along a legal line stand positions, the sides taking turns.
LEMMA SidesTakeTurns ==
    ASSUME NEW start, IsPosition(start), NEW moves, IsList(moves), LegalLine(start, moves)
    PROVE  LET ps == Boards(start, moves)
           IN  \A i \in 1..(Len(moves) + 1) :
                   /\ IsPosition(ps[i])
                   /\ ps[i].stm = IF i % 2 = 1 THEN start.stm ELSE Flip(start.stm)
<1> DEFINE ps == Boards(start, moves)
           n == Len(moves)
           P(k) == /\ IsPosition(ps[k + 1])
                   /\ ps[k + 1].stm = IF (k + 1) % 2 = 1 THEN start.stm ELSE Flip(start.stm)
           S == {k \in Nat : k <= n => P(k)}
<1>1. ps[1] = start /\ \A k \in 1..n : ps[k + 1] = After(ps[k], moves[k])
  BY BoardsAre
<1>2. n \in Nat /\ \A k \in 1..n : LegalMove(ps[k], moves[k])
  BY ListIs DEF LegalLine
<1> HIDE DEF ps, n
<1>3. 0 \in S
  BY <1>1
<1>4. ASSUME NEW k \in Nat, k \in S PROVE k + 1 \in S
  <2> SUFFICES ASSUME k + 1 <= n PROVE P(k + 1)
    OBVIOUS
  <2>1. k + 1 \in 1..n /\ P(k)
    BY <1>2, <1>4
  <2>2. ps[(k + 1) + 1] = After(ps[k + 1], moves[k + 1]) /\ LegalMove(ps[k + 1], moves[k + 1])
    BY <1>1, <1>2, <2>1
  <2>3. IsPosition(ps[(k + 1) + 1]) /\ ps[(k + 1) + 1].stm = Flip(ps[k + 1].stm)
    BY <2>1, <2>2, MoveMade
  <2>4. Flip(Flip(start.stm)) = start.stm
    BY DEF IsPosition, Flip, Colors, Black, White
  <2>5. ((k + 1) + 1) % 2 = 1 <=> ~((k + 1) % 2 = 1)
    OBVIOUS
  <2>6. QED BY <2>1, <2>3, <2>4, <2>5
<1>5. Nat \subseteq S
  <2> HIDE DEF S
  <2>1. QED BY <1>3, <1>4, Growing!SetInduction
<1>6. ASSUME NEW i \in 1..(n + 1)
      PROVE  IsPosition(ps[i]) /\ ps[i].stm = IF i % 2 = 1 THEN start.stm ELSE Flip(start.stm)
  <2>1. i - 1 \in Nat /\ i - 1 <= n /\ (i - 1) + 1 = i
    BY <1>2
  <2>2. P(i - 1)
    BY <1>5, <2>1
  <2>3. QED BY <2>1, <2>2
<1>7. QED BY <1>6 DEF ps, n

----------------------------------------------------------------------------
(* A walk.                                                                 *)

\* A walk stands on the last board of its moves, a legal line, with the states of
\* the boards after the first behind it, and has come to no board again.
Records(st, p, i) ==
    st.key = p.board.squares /\ st.hands = p.hands /\ st.pliesFromNull = i
RootOf(start) == RootState(start.board.squares, start.hands, start.stm)
Walked(start, w) ==
    LET ps == Boards(start, w.moves)
        k  == Len(w.moves)
    IN  /\ DOMAIN w = {"index", "at", "moves"} /\ DOMAIN w.at = {"pos", "chain", "root"}
        /\ IsList(w.moves) /\ LegalLine(start, w.moves)
        /\ w.at.pos = ps[k + 1] /\ w.at.root = RootOf(start)
        /\ IsList(w.at.chain) /\ Len(w.at.chain) = k
        /\ \A i \in 1..k : Records(w.at.chain[i], ps[i + 1], i)
        /\ NeverRound(start, w.moves)

\* It begins with no move.
WalkFrom(start, n) ==
    [index |-> n, at |-> [pos |-> start, chain |-> <<>>, root |-> RootOf(start)], moves |-> <<>>]

\* Before its first move a walk is at the root, and legal.
LEMMA NothingWalked ==
    ASSUME NEW start, NEW n
    PROVE  /\ LegalLine(start, <<>>)
           /\ Walked(start, WalkFrom(start, n))
<1>1. IsList(<<>>) /\ Len(<<>>) = 0 /\ DOMAIN <<>> = {}
  BY NoElements
<1>2. Boards(start, <<>>)[1] = start
  BY <1>1, BoardsAre
<1>3. LegalLine(start, <<>>) /\ NeverRound(start, <<>>)
  BY <1>1 DEF LegalLine, NeverRound
<1> DEFINE w == WalkFrom(start, n)
<1>4. /\ DOMAIN w = {"index", "at", "moves"} /\ DOMAIN w.at = {"pos", "chain", "root"}
      /\ w.moves = <<>> /\ w.at.pos = start /\ w.at.chain = <<>> /\ w.at.root = RootOf(start)
  BY DEF WalkFrom
<1> HIDE DEF w
<1>5. Walked(start, w)
  BY <1>1, <1>2, <1>3, <1>4 DEF Walked
<1>6. QED BY <1>3, <1>5 DEF w

\* Nothing repeated: the walk back stopped nowhere.
LEMMA StoppedNowhere ==
    ASSUME NEW h, NEW r, h # <<>>, QuickRepetition(h, r) = "None"
    PROVE  Stops(h, r) = {}
<1>1. \A cur, prev, i : Verdict(cur, prev, i) # "None"
  BY DEF Verdict
<1>2. QED BY <1>1 DEF QuickRepetition

\* A board repeated within the window, two plies apart or more, would have stopped it.
LEMMA NotStoppedAt ==
    ASSUME NEW start, NEW w, Walked(start, w), Stops(w.at.chain, w.at.root) = {},
           NEW d \in 4..MaxRepetitionPly, d <= Len(w.moves), d % 2 = 0
    PROVE  LET ps == Boards(start, w.moves)
               k  == Len(w.moves)
           IN  Diagram(ps[k + 1 - d]) # Diagram(ps[k + 1])
<1> DEFINE ps == Boards(start, w.moves)
           k == Len(w.moves)
           h == w.at.chain
           cur == h[Len(h)]
           prev == StateBack(h, w.at.root, d)
<1>1. /\ k \in Nat /\ Len(h) = k /\ w.at.root = RootOf(start) /\ ps[1] = start
      /\ \A i \in 1..k : Records(h[i], ps[i + 1], i)
  BY ListIs, BoardsAre DEF Walked
<1>2. MaxRepetitionPly \in Nat
  BY WindowAssumption
<1> HIDE DEF ps, k, h
<1>3. d \in 4..k /\ k \in 1..k /\ k + 1 - d \in 1..k
  BY <1>1, <1>2 DEF k
<1>4. cur.key = ps[k + 1].board.squares /\ cur.hands = ps[k + 1].hands /\ cur.pliesFromNull = k
  BY <1>1, <1>3 DEF Records
<1>5. prev.key = ps[k + 1 - d].board.squares /\ prev.hands = ps[k + 1 - d].hands
  <2>1. CASE d = k
    <3>1. k + 1 - d = 1 /\ prev = RootOf(start)
      BY <1>1, <1>3, <2>1 DEF StateBack
    <3>2. QED BY <1>1, <3>1 DEF RootOf, RootState
  <2>2. CASE d # k
    <3>1. k - d \in 1..k /\ (k - d) + 1 = k + 1 - d /\ prev = h[k - d]
      BY <1>1, <1>3, <2>2 DEF StateBack
    <3>2. QED BY <1>1, <3>1 DEF Records
  <2>3. QED BY <2>1, <2>2
<1> HIDE DEF cur, prev
<1>6. ~Matches(cur, prev)
  <2>1. d \in 4..LookBack(cur) /\ HasStateBack(h, d)
    BY <1>1, <1>2, <1>3, <1>4 DEF LookBack, HasStateBack
  <2>2. Stops(h, w.at.root) = {}
    BY DEF h
  <2>3. QED BY <2>1, <2>2 DEF Stops, cur, prev
<1>7. ~(prev.key = cur.key /\ prev.hands = cur.hands)
  BY <1>6 DEF Matches
<1>8. QED BY <1>4, <1>5, <1>7 DEF Diagram, ps, k

\* So a walk that repeats nothing goes on to new boards.
LEMMA WalkStays ==
    ASSUME NEW start, IsPosition(start), NEW w, Walked(start, w),
           w.moves # <<>> => QuickRepetition(w.at.chain, w.at.root) = "None",
           NEW m, LegalMove(w.at.pos, m)
    PROVE  Walked(start, [w EXCEPT !.at = Played(@, m), !.moves = Append(@, m)])
<1> DEFINE k == Len(w.moves)
           a == w.moves
           b == Append(a, m)
           ps == Boards(start, a)
           qs == Boards(start, b)
           at == w.at
           p == After(at.pos, m)
           last == IF at.chain = <<>> THEN at.root ELSE at.chain[Len(at.chain)]
           st == StateAfterMove(last, p.board.squares, p.hands, at.pos.stm, InCheckScan(p.board, p.stm))
           new == Played(at, m)
           v == [w EXCEPT !.at = Played(@, m), !.moves = Append(@, m)]
<1>1. /\ DOMAIN w = {"index", "at", "moves"} /\ DOMAIN at = {"pos", "chain", "root"}
      /\ IsList(a) /\ LegalLine(start, a) /\ at.pos = ps[k + 1] /\ at.root = RootOf(start)
      /\ IsList(at.chain) /\ Len(at.chain) = k
      /\ \A i \in 1..k : Records(at.chain[i], ps[i + 1], i)
      /\ NeverRound(start, a)
  BY DEF Walked
<1>2. k \in Nat /\ DOMAIN a = 1..k /\ (a # <<>> <=> k # 0) /\ (at.chain # <<>> <=> k # 0)
  BY <1>1, ListIs
<1>3. /\ DOMAIN v = {"index", "at", "moves"} /\ v.moves = b /\ v.at = new
      /\ DOMAIN new = {"pos", "chain", "root"}
      /\ new.pos = p /\ new.root = at.root /\ new.chain = Append(at.chain, st)
  <2>1. DOMAIN v = {"index", "at", "moves"} /\ v.moves = b /\ v.at = new
    <3> HIDE DEF at, new, b
    <3>1. QED BY <1>1 DEF at, new, b, a
  <2>2. /\ DOMAIN new = {"pos", "chain", "root"}
        /\ new.pos = p /\ new.root = at.root /\ new.chain = Append(at.chain, st)
    <3> HIDE DEF at, p, st
    <3>1. Played(at, m) = [at EXCEPT !.pos = p, !.chain = Append(@, st)]
      BY DEF Played, st, p, last
    <3>2. QED BY <1>1, <3>1
  <2>3. QED BY <2>1, <2>2
<1>4. /\ IsList(b) /\ LegalLine(start, b)
      /\ \A i \in 1..(k + 1) : qs[i] = ps[i]
      /\ qs[k + 2] = p
  BY <1>1, PlayedOn
<1>5. Len(b) = k + 1 /\ DOMAIN b = 1..(k + 1)
  <2>1. Len(b) = k + 1 /\ IsList(b)
    BY <1>1, ListAppend
  <2> HIDE DEF b
  <2>2. QED BY <2>1, ListIs
<1>6. Records(st, p, k + 1)
  <2>1. last.pliesFromNull = k
    <3>1. CASE k = 0
      BY <1>1, <1>2, <3>1 DEF RootOf, RootState
    <3>2. CASE k # 0
      <4>1. k \in 1..k /\ last = at.chain[k]
        BY <1>1, <1>2, <3>2
      <4>2. QED BY <1>1, <4>1 DEF Records
    <3>3. QED BY <3>1, <3>2
  <2> HIDE DEF last, p
  <2>2. QED BY <2>1 DEF StateAfterMove, Records
<1>7. /\ IsList(new.chain) /\ Len(new.chain) = k + 1
      /\ \A i \in 1..(k + 1) : Records(new.chain[i], qs[i + 1], i)
  <2> HIDE DEF st, at, p, qs, ps, new
  <2>1. /\ IsList(new.chain) /\ Len(new.chain) = k + 1 /\ new.chain[k + 1] = st
        /\ \A i \in 1..k : new.chain[i] = at.chain[i]
    BY <1>1, <1>3, ListAppend
  <2>2. ASSUME NEW i \in 1..(k + 1) PROVE Records(new.chain[i], qs[i + 1], i)
    <3>1. CASE i = k + 1
      <4>1. i + 1 = k + 2
        BY <1>2, <3>1
      <4>2. QED BY <1>4, <1>6, <2>1, <3>1, <4>1
    <3>2. CASE i \in 1..k
      <4>1. i + 1 \in 1..(k + 1)
        BY <1>2, <3>2
      <4>2. QED BY <1>1, <1>4, <2>1, <3>2, <4>1
    <3>3. QED BY <1>2, <3>1, <3>2
  <2>3. QED BY <2>1, <2>2
<1>8. ASSUME NEW i \in 1..k, k + 1 - i <= MaxRepetitionPly
      PROVE  Diagram(ps[i]) # Diagram(ps[k + 1])
  <2> DEFINE d == k + 1 - i
  <2> HIDE DEF ps, k
  <2>0. k # 0 /\ i \in 1..(k + 1) /\ k + 1 \in 1..(k + 1) /\ i = k + 1 - d
    BY <1>2
  <2>1. /\ ps[i].stm = IF i % 2 = 1 THEN start.stm ELSE Flip(start.stm)
        /\ ps[k + 1].stm = IF (k + 1) % 2 = 1 THEN start.stm ELSE Flip(start.stm)
        /\ IsPosition(ps[i]) /\ start.stm # Flip(start.stm)
    <3>1. start.stm # Flip(start.stm)
      BY DEF IsPosition, Flip, Colors, Black, White
    <3>2. QED BY <1>1, <2>0, <3>1, SidesTakeTurns DEF ps, k
  <2>2. CASE d % 2 = 1
    <3>1. (i % 2 = 1) <=> ~((k + 1) % 2 = 1)
      BY <1>2, <2>2, SMTT(30)
    <3>2. QED BY <2>1, <3>1 DEF Diagram
  <2>3. CASE d = 2
    <3>1. i = k - 1 /\ k - 1 \in 1..k /\ k \in 1..k /\ (k - 1) + 1 = k
      BY <1>2, <2>3
    <3>2. /\ ps[k] = After(ps[i], a[i]) /\ ps[k + 1] = After(ps[k], a[k])
          /\ LegalMove(ps[i], a[i]) /\ LegalMove(ps[k], a[k])
      <4>1. \A j \in 1..k : ps[j + 1] = After(ps[j], a[j])
        BY <1>1, BoardsAre DEF ps, k
      <4>2. \A j \in 1..k : LegalMove(ps[j], a[j])
        BY <1>1, <1>2 DEF LegalLine, ps
      <4>3. QED BY <3>1, <4>1, <4>2
    <3>3. ps[k + 1].board.squares # ps[i].board.squares
      <4>1. IsPosition(ps[i]) /\ LegalMove(ps[i], a[i]) /\ LegalMove(After(ps[i], a[i]), a[k])
        BY <2>1, <3>2
      <4>2. ps[k + 1] = After(After(ps[i], a[i]), a[k])
        BY <3>2
      <4> HIDE DEF a
      <4>3. After(After(ps[i], a[i]), a[k]).board.squares # ps[i].board.squares
        BY <4>1, TwoMovesDiffer
      <4>4. QED BY <4>2, <4>3
    <3>4. QED BY <3>3 DEF Diagram
  <2>4. CASE d % 2 = 0 /\ d # 2
    <3>1. d \in 4..MaxRepetitionPly /\ d <= k /\ d % 2 = 0
      BY <1>2, <1>8, <2>4, WindowAssumption
    <3>2. Stops(w.at.chain, w.at.root) = {}
      BY <1>2, <2>0, StoppedNowhere
    <3>3. Diagram(ps[k + 1 - d]) # Diagram(ps[k + 1])
      <4> HIDE DEF d
      <4>1. QED BY <3>1, <3>2, NotStoppedAt DEF ps, k
    <3>4. QED BY <2>0, <3>3
  <2>5. QED BY <1>2, <2>2, <2>3, <2>4
<1>9. NeverRound(start, b)
  <2> SUFFICES ASSUME NEW i \in 1..(k + 1), NEW j \in 1..(k + 1), i < j, j - i <= MaxRepetitionPly
               PROVE  Diagram(qs[i]) # Diagram(qs[j])
    BY <1>5 DEF NeverRound
  <2>1. qs[i] = ps[i] /\ qs[j] = ps[j]
    BY <1>4
  <2>2. CASE j = k + 1
    <3>1. i \in 1..k /\ k + 1 - i <= MaxRepetitionPly
      BY <1>2, <2>2
    <3> HIDE DEF ps, qs
    <3>2. QED BY <1>8, <2>1, <2>2, <3>1
  <2>3. CASE j # k + 1
    <3>1. i \in 1..k /\ j \in 1..k
      BY <1>2, <2>3
    <3>2. Diagram(ps[i]) # Diagram(ps[j])
      BY <1>1, <1>2, <3>1 DEF NeverRound
    <3> HIDE DEF ps, qs
    <3>3. QED BY <2>1, <3>2
  <2>4. QED BY <2>2, <2>3
<1>10. Walked(start, v)
  <2> HIDE DEF v, new, p, st, at, b, a
  <2>1. v.moves = b /\ v.at = new /\ Len(b) = k + 1 /\ (k + 1) + 1 = k + 2
    BY <1>2, <1>3, <1>5
  <2>2. QED BY <1>1, <1>3, <1>4, <1>7, <1>9, <2>1 DEF Walked
<1>11. QED BY <1>10

----------------------------------------------------------------------------
(* The inductive invariant of the last lines.                              *)

\* The score a line is shown with.
ScoreOf(l) ==
    LET v == IF l.score # Unset THEN l.uci ELSE l.previous
    IN  IF v = Unset THEN DrawScore ELSE v

\* Once a line is chosen, the lines are searched ones, the first the chosen one when
\* the search is over; the walk goes along the line it shows, and the first line
\* shown began as the first line does and bears its score.
FinalOk(r, f, w, s) ==
    /\ IsList(f.lines) /\ f.lines # <<>>
    /\ \A i \in 1..Len(f.lines) : IsSearched(r.root, f.lines[i])
    /\ IsSearched(r.root, f.best)
    /\ r.pvIdx > Len(r.lines) => f.lines[1] = f.best
    /\ f.sent => r.isMain /\ f.best = r.best
    /\ Walked(r.root, w) /\ w.index \in Nat \ {0}
    /\ w.index <= Len(f.lines) => Kin(w.moves, f.lines[w.index].pv)
    /\ w.index > 1 => s # <<>>
    /\ s # <<>> => Kin(s[1].pv, f.lines[1].pv) /\ s[1].score = ScoreOf(f.lines[1])

ShownOk(r, info) ==
    /\ IsList(info.pv) /\ LegalLine(r.root, info.pv)
    /\ r.consider => NeverRound(r.root, info.pv)
    /\ info.score # Unset

ReplyOk(r, s, y) ==
    /\ LegalLine(r.root, y.moves)
    /\ IF y.resign THEN s # <<>> /\ ToCp(s[1].score) <= -r.resignAt
       ELSE IF s = <<>> THEN r.isMain /\ PrefixOf(y.moves, r.best.pv)
       ELSE Kin(y.moves, s[1].pv)

PvInv ==
    /\ report \in Reports /\ report.pvIdx \in Int
    /\ IF final = <<>> THEN /\ ~Midway /\ shown = <<>> /\ reply = <<>>
                            /\ walk = WalkFrom(report.root, 1)
       ELSE FinalOk(report, final, walk, shown)
    /\ IsList(shown) /\ \A i \in 1..Len(shown) : ShownOk(report, shown[i])
    /\ reply # <<>> => ReplyOk(report, shown, reply)

\* What a report holds, and the walk a line starts with.
LEMMA ReportIs ==
    ASSUME NEW r \in Reports
    PROVE  /\ IsPosition(r.root) /\ IsSearched(r.root, r.best)
           /\ IsList(r.lines) /\ r.lines # <<>> /\ Len(r.lines) \in Nat \ {0} /\ 1 \in DOMAIN r.lines
           /\ \A i \in 1..Len(r.lines) : IsSearched(r.root, r.lines[i])
           /\ DOMAIN r.lines = 1..Len(r.lines) /\ r.pvIdx \in Int
<1>1. /\ IsPosition(r.root) /\ IsSearched(r.root, r.best) /\ r.pvIdx \in Int
      /\ IsList(r.lines) /\ r.lines # <<>> /\ \A l \in ToSet(r.lines) : IsSearched(r.root, l)
  BY ReportsAssumption
<1>2. /\ Len(r.lines) \in Nat /\ DOMAIN r.lines = 1..Len(r.lines) /\ Len(r.lines) # 0
      /\ \A i \in 1..Len(r.lines) : r.lines[i] \in ToSet(r.lines)
  BY <1>1, ListIs
<1>3. QED BY <1>1, <1>2

\* A walk over a line begins with no move, and keeps to the line.
LEMMA FreshWalk ==
    ASSUME NEW start, NEW n, NEW a, IsList(a)
    PROVE  Walked(start, WalkFrom(start, n)) /\ WalkFrom(start, n).index = n /\ Kin(WalkFrom(start, n).moves, a)
<1>1. Walked(start, WalkFrom(start, n))
  BY NothingWalked DEF WalkFrom
<1>2. WalkFrom(start, n).index = n /\ WalkFrom(start, n).moves = <<>>
  BY DEF WalkFrom
<1>3. Kin(<<>>, a)
  BY NoElements, KinIs
<1>4. QED BY <1>1, <1>2, <1>3

\* A line chosen is no empty record.
LEMMA ChosenIsSome == \A b, l, s : [best |-> b, lines |-> l, sent |-> s] # <<>>
<1> SUFFICES ASSUME NEW b, NEW l, NEW s PROVE [best |-> b, lines |-> l, sent |-> s] # <<>>
  OBVIOUS
<1>1. "best" \in DOMAIN [best |-> b, lines |-> l, sent |-> s]
  OBVIOUS
<1>2. DOMAIN <<>> = {}
  <2>1. DOMAIN <<>> = 1..0
    BY NoElements, ListIs
  <2>2. QED BY <2>1
<1>3. QED BY <1>1, <1>2

\* The invariant holds at first.
LEMMA PvInvInit == PvInit => PvInv
<1> SUFFICES ASSUME PvInit PROVE PvInv
  OBVIOUS
<1>1. report \in Reports /\ shown = <<>> /\ reply = <<>> /\ walk = WalkFrom(report.root, 1)
  BY DEF PvInit, Start, WalkFrom, RootOf
<1>2. IsList(shown) /\ Len(shown) = 0
  BY <1>1, NoElements
<1>3. CASE Midway
  <2>1. final = [best |-> report.best, lines |-> report.lines, sent |-> FALSE]
    BY <1>3 DEF PvInit
  <2>2. final # <<>>
    BY <2>1, ChosenIsSome
  <2>3. FinalOk(report, final, walk, shown)
    <3>1. IsSearched(report.root, report.lines[1]) /\ 1 <= Len(report.lines)
      BY <1>1, ReportIs
    <3>2. IsList(report.lines[1].pv)
      BY <3>1 DEF IsSearched
    <3>3. Walked(report.root, walk) /\ walk.index = 1 /\ Kin(walk.moves, report.lines[1].pv)
      BY <1>1, <3>2, FreshWalk
    <3>4. ~(report.pvIdx > Len(report.lines))
      BY <1>1, <1>3, ReportIs DEF Midway
    <3>5. final.best = report.best /\ final.lines = report.lines /\ ~final.sent
      BY <2>1
    <3>6. QED BY <1>1, <3>3, <3>4, <3>5, ReportIs DEF FinalOk
  <2>4. QED BY <1>1, <1>2, <2>2, <2>3, ReportIs DEF PvInv
<1>4. CASE ~Midway
  <2>1. final = <<>>
    BY <1>4 DEF PvInit
  <2>2. QED BY <1>1, <1>2, <1>4, <2>1, ReportIs DEF PvInv
<1>5. QED BY <1>3, <1>4

\* A line chosen, searched and from the report's root.
LEMMA ChosenKeeps ==
    ASSUME PvInv, final = <<>>, NEW best, IsSearched(report.root, best), Chosen(best)
    PROVE  PvInv'
<1>1. /\ report' = report /\ walk' = walk /\ shown' = shown /\ reply' = reply
      /\ final' = [best |-> best, lines |-> [report.lines EXCEPT ![1] = best],
                   sent |-> report.sent /\ report.isMain /\ best = report.best]
  BY DEF Chosen
<1>2. /\ report \in Reports /\ report.pvIdx \in Int /\ ~Midway /\ shown = <<>> /\ reply = <<>>
      /\ walk = WalkFrom(report.root, 1) /\ IsList(shown) /\ Len(shown) = 0
  BY NoElements DEF PvInv
<1> DEFINE ls == [report.lines EXCEPT ![1] = best]
<1>3. /\ IsList(ls) /\ ls # <<>> /\ Len(ls) = Len(report.lines) /\ Len(ls) \in Nat /\ ls[1] = best
      /\ \A i \in 1..Len(ls) : IsSearched(report.root, ls[i])
  <2> DEFINE S == ToSet(report.lines) \cup {best}
             n == Len(report.lines)
  <2>1. report.lines \in Seq(S) /\ n \in Nat \ {0} /\ DOMAIN report.lines = 1..n
    <3>1. report.lines \in Seq(ToSet(report.lines)) /\ ToSet(report.lines) \subseteq S
      BY <1>2, ReportIs DEF IsList
    <3> HIDE DEF S
    <3>2. QED BY <1>2, <3>1, ReportIs
  <2>2. best \in S
    OBVIOUS
  <2> HIDE DEF S
  <2>3. /\ ls \in Seq(S) /\ Len(ls) = n /\ ls[1] = best
        /\ \A i \in 1..n : i # 1 => ls[i] = report.lines[i]
    BY <2>1, <2>2
  <2> HIDE DEF ls
  <2>4. \A i \in 1..n : IsSearched(report.root, report.lines[i])
    BY <1>2, ReportIs
  <2>5. IsList(ls) /\ ls # <<>>
    BY <2>1, <2>3, ListIf, NoElements
  <2>6. QED BY <2>1, <2>3, <2>4, <2>5
<1> HIDE DEF ls
<1>4. final' # <<>> /\ final'.best = best /\ final'.lines = ls
      /\ (final'.sent => report.isMain /\ best = report.best)
  BY <1>1, ChosenIsSome DEF ls
<1>5. Walked(report.root, walk) /\ walk.index = 1 /\ Kin(walk.moves, ls[1].pv)
  BY <1>2, <1>3, FreshWalk DEF IsSearched
<1>6. FinalOk(report, final', walk, shown)
  BY <1>2, <1>3, <1>4, <1>5 DEF FinalOk
<1>7. QED BY <1>1, <1>2, <1>4, <1>6 DEF PvInv

\* The ponder move found is legal after the best move.
LEMMA PonderKeeps ==
    ASSUME PvInv, ExtractPonder
    PROVE  PvInv'
<1>1. report \in Reports /\ final = <<>> /\ IsSearched(report.root, report.best)
  BY ReportIs DEF PvInv, ExtractPonder
<1>2. CASE Chosen(report.best)
  BY <1>1, <1>2, ChosenKeeps
<1>3. CASE Len(report.best.pv) = 1 /\ ~Chosen(report.best)
  <2> DEFINE pv == report.best.pv
             child == After(report.root, pv[1])
  <2>1. PICK probe \in Probes : \E m \in PonderMoves(child, probe) :
            Chosen([report.best EXCEPT !.pv = Append(@, m)])
    BY <1>3 DEF ExtractPonder
  <2>2. PICK m \in PonderMoves(child, probe) : Chosen([report.best EXCEPT !.pv = Append(@, m)])
    BY <2>1
  <2>3. LegalMove(child, m)
    BY <2>2 DEF PonderMoves, Playable
  <2>4. IsList(pv) /\ LegalLine(report.root, pv) /\ Len(pv) = 1
    BY <1>1, <1>3 DEF IsSearched
  <2>5. Boards(report.root, pv)[2] = child
    <3>1. /\ Boards(report.root, pv)[1] = report.root
          /\ \A k \in 1..1 : Boards(report.root, pv)[k + 1] = After(Boards(report.root, pv)[k], pv[k])
      BY <2>4, BoardsAre
    <3>2. 1 \in 1..1 /\ 1 + 1 = 2
      OBVIOUS
    <3> HIDE DEF pv
    <3>3. QED BY <3>1, <3>2
  <2> DEFINE longer == Append(pv, m)
             best == [report.best EXCEPT !.pv = longer]
  <2>6. IsList(longer) /\ longer # <<>> /\ LegalLine(report.root, longer)
    <3>1. LegalMove(Boards(report.root, pv)[Len(pv) + 1], m)
      <4> HIDE DEF child
      <4>1. Len(pv) + 1 = 2
        BY <2>4
      <4>2. QED BY <2>3, <2>5, <4>1
    <3>2. IsList(pv) /\ LegalLine(report.root, pv)
      BY <2>4
    <3> HIDE DEF pv
    <3>3. QED BY <3>1, <3>2, PlayedOn
  <2>7. IsSearched(report.root, best)
    <3> HIDE DEF longer
    <3>1. QED BY <1>1, <2>6 DEF IsSearched
  <2>8. best = [report.best EXCEPT !.pv = Append(@, m)]
    OBVIOUS
  <2>9. QED BY <1>1, <2>2, <2>7, <2>8, ChosenKeeps
<1>4. QED BY <1>2, <1>3 DEF ExtractPonder

\* A line shown, or passed over once another was, and the next one begun.
LEMMA NextKeeps ==
    ASSUME PvInv, final # <<>>, reply = <<>>, walk.index <= Len(final.lines),
           NEW infos, NextLine(infos),
           \/ infos = <<>> /\ walk.index > 1
           \/ /\ infos = <<Info(infos[1].pv)>> /\ ShownOk(report, infos[1])
              /\ Kin(infos[1].pv, CurrentLine.pv)
    PROVE  PvInv'
<1> DEFINE n == walk.index
           new == WalkFrom(report.root, n + 1)
           s == shown \o infos
<1>1. /\ report' = report /\ final' = final /\ reply' = reply /\ shown' = s /\ walk' = new
  BY DEF NextLine, Start, WalkFrom, RootOf
<1>2. /\ report \in Reports /\ report.pvIdx \in Int /\ IsList(shown)
      /\ \A i \in 1..Len(shown) : ShownOk(report, shown[i])
      /\ FinalOk(report, final, walk, shown)
  BY DEF PvInv
<1>3. /\ n \in Nat \ {0} /\ IsList(final.lines) /\ Len(final.lines) \in Nat
      /\ \A i \in 1..Len(final.lines) : IsSearched(report.root, final.lines[i])
      /\ n > 1 => shown # <<>>
      /\ shown # <<>> => /\ Kin(shown[1].pv, final.lines[1].pv)
                         /\ shown[1].score = ScoreOf(final.lines[1])
  BY <1>2, ListIs DEF FinalOk
<1>4. /\ IsList(s) /\ s # <<>> /\ \A i \in 1..Len(s) : ShownOk(report, s[i])
      /\ Kin(s[1].pv, final.lines[1].pv) /\ s[1].score = ScoreOf(final.lines[1])
  <2>1. CASE infos = <<>> /\ n > 1
    <3>1. s = shown
      <4>1. shown \in Seq(ToSet(shown))
        BY <1>2 DEF IsList
      <4>2. QED BY <2>1, <4>1
    <3> HIDE DEF s
    <3>2. QED BY <1>2, <1>3, <2>1, <3>1
  <2>2. CASE infos = <<Info(infos[1].pv)>> /\ ShownOk(report, infos[1])
             /\ Kin(infos[1].pv, CurrentLine.pv)
    <3> DEFINE info == Info(infos[1].pv)
    <3>1. infos = <<info>> /\ ShownOk(report, info) /\ Kin(info.pv, CurrentLine.pv)
      <4>1. infos[1] = info
        <5> HIDE DEF info
        <5>1. infos = <<info>>
          BY <2>2 DEF info
        <5>2. QED BY <5>1
      <4> HIDE DEF info
      <4>2. QED BY <2>2, <4>1 DEF info
    <3>2. n = 1 => info.score = ScoreOf(final.lines[1])
      BY DEF Info, ScoreOf, Updated, CurrentLine
    <3> HIDE DEF info
    <3>3. s = Append(shown, info)
      <4>1. shown \in Seq(ToSet(shown) \cup {info})
        <5>1. shown \in Seq(ToSet(shown)) /\ ToSet(shown) \subseteq ToSet(shown) \cup {info}
          BY <1>2 DEF IsList
        <5>2. QED BY <5>1
      <4>2. info \in ToSet(shown) \cup {info}
        OBVIOUS
      <4>3. QED BY <3>1, <4>1, <4>2, AppendIsConcat
    <3>4. /\ IsList(s) /\ Len(s) = Len(shown) + 1 /\ s[Len(shown) + 1] = info /\ s # <<>>
          /\ \A i \in 1..Len(shown) : s[i] = shown[i]
      BY <1>2, <3>3, ListAppend
    <3> HIDE DEF s
    <3>5. Len(shown) \in Nat /\ (shown # <<>> <=> Len(shown) # 0)
      BY <1>2, ListIs
    <3>6. \A i \in 1..Len(s) : ShownOk(report, s[i])
      <4> SUFFICES ASSUME NEW i \in 1..Len(s) PROVE ShownOk(report, s[i])
        OBVIOUS
      <4>1. CASE i = Len(shown) + 1
        BY <3>1, <3>4, <4>1
      <4>2. CASE i # Len(shown) + 1
        <5>1. i \in 1..Len(shown)
          BY <3>4, <3>5, <4>2
        <5>2. QED BY <1>2, <3>4, <5>1
      <4>3. QED BY <4>1, <4>2
    <3>7. CASE shown # <<>>
      <4>1. s[1] = shown[1]
        BY <3>4, <3>5, <3>7
      <4>2. QED BY <1>3, <3>4, <3>6, <3>7, <4>1
    <3>8. CASE shown = <<>>
      <4>1. n = 1 /\ s[1] = info /\ CurrentLine = final.lines[1]
        BY <1>3, <3>4, <3>5, <3>8 DEF CurrentLine
      <4>2. QED BY <3>1, <3>2, <3>4, <3>6, <4>1
    <3>9. QED BY <3>7, <3>8
  <2>3. QED BY <2>1, <2>2
<1> HIDE DEF s
<1>5. /\ Walked(report.root, new) /\ new.index = n + 1
      /\ n + 1 <= Len(final.lines) => Kin(new.moves, final.lines[n + 1].pv)
  <2>1. Walked(report.root, new) /\ new.index = n + 1
    BY NoElements, FreshWalk
  <2>2. ASSUME n + 1 <= Len(final.lines) PROVE Kin(new.moves, final.lines[n + 1].pv)
    <3>1. IsList(final.lines[n + 1].pv)
      BY <1>3, <2>2 DEF IsSearched
    <3>2. QED BY <3>1, FreshWalk
  <2>3. QED BY <2>1, <2>2
<1> HIDE DEF new
<1>6. FinalOk(report, final, new, s)
  BY <1>2, <1>3, <1>4, <1>5 DEF FinalOk
<1> HIDE DEF n
<1>7. QED BY <1>1, <1>2, <1>4, <1>6 DEF PvInv

\* What is shown of a legal list of moves.
LEMMA InfoShown ==
    ASSUME NEW moves, IsList(moves), LegalLine(report.root, moves),
           report.consider => NeverRound(report.root, moves)
    PROVE  Info(moves).pv = moves /\ ShownOk(report, Info(moves))
<1>1. Info(moves).pv = moves /\ Info(moves).score # Unset
  BY DEF Info, DrawScore, Unset
<1>2. QED BY <1>1 DEF ShownOk

\* Showing a line keeps the invariant.
LEMMA ShowKeeps ==
    ASSUME PvInv, ShowLine
    PROVE  PvInv'
<1>1. /\ final # <<>> /\ reply = <<>> /\ walk.index <= Len(final.lines)
  BY DEF ShowLine, Showing
<1>2. FinalOk(report, final, walk, shown) /\ report \in Reports
  BY <1>1 DEF PvInv
<1>3. CASE Unsearched /\ NextLine(<<>>)
  <2>1. walk.index > 1
    BY <1>3 DEF Unsearched
  <2>2. QED BY <1>1, <1>3, <2>1, NextKeeps
<1>4. CASE ~report.consider /\ NextLine(<<Info(CurrentLine.pv)>>)
  <2> DEFINE moves == CurrentLine.pv
             info == Info(moves)
             infos == <<info>>
  <2>1. IsSearched(report.root, CurrentLine)
    <3>1. walk.index \in 1..Len(final.lines)
      BY <1>1, <1>2, ListIs DEF FinalOk
    <3>2. QED BY <1>2, <3>1 DEF FinalOk, CurrentLine
  <2>2. IsList(moves) /\ LegalLine(report.root, moves)
    BY <2>1 DEF IsSearched
  <2>3. info.pv = moves /\ ShownOk(report, info)
    BY <1>4, <2>2, InfoShown
  <2>4. Kin(moves, CurrentLine.pv)
    BY <2>2, KinIs
  <2>5. infos[1] = info
    <3> HIDE DEF info
    <3>1. QED OBVIOUS
  <2>6. NextLine(infos) /\ infos = <<Info(infos[1].pv)>> /\ Kin(infos[1].pv, CurrentLine.pv)
    <3> HIDE DEF moves
    <3>1. infos[1].pv = moves
      BY <2>3, <2>5
    <3> HIDE DEF infos
    <3>2. QED BY <1>4, <2>4, <3>1 DEF infos, moves
  <2> HIDE DEF infos, info, moves
  <2>7. QED BY <1>1, <2>3, <2>5, <2>6, NextKeeps
<1>5. QED BY <1>3, <1>4 DEF ShowLine

\* So does the end of a walk.
LEMMA EndKeeps ==
    ASSUME PvInv, WalkEnds
    PROVE  PvInv'
<1>1. /\ final # <<>> /\ reply = <<>> /\ walk.index <= Len(final.lines)
      /\ NextLine(<<Info(walk.moves)>>)
  BY DEF WalkEnds, Walking, Showing
<1>2. FinalOk(report, final, walk, shown) /\ report \in Reports
  BY <1>1 DEF PvInv
<1> DEFINE moves == walk.moves
           info == Info(moves)
           infos == <<info>>
<1>3. /\ IsList(moves) /\ LegalLine(report.root, moves) /\ NeverRound(report.root, moves)
      /\ Kin(moves, CurrentLine.pv)
  BY <1>1, <1>2 DEF FinalOk, Walked, CurrentLine
<1>4. info.pv = moves /\ ShownOk(report, info)
  BY <1>3, InfoShown
<1>5. infos[1] = info
  <2> HIDE DEF info
  <2>1. QED OBVIOUS
<1>6. NextLine(infos) /\ infos = <<Info(infos[1].pv)>> /\ Kin(infos[1].pv, CurrentLine.pv)
  <2> HIDE DEF moves
  <2>1. infos[1].pv = moves
    BY <1>4, <1>5
  <2> HIDE DEF infos
  <2>2. QED BY <1>1, <1>3, <2>1 DEF infos, moves
<1> HIDE DEF infos, info, moves
<1>7. QED BY <1>1, <1>4, <1>5, <1>6, NextKeeps

\* A walk goes on along its line, and beyond it with what the table has.
LEMMA WalkOnKeeps ==
    ASSUME PvInv, WalkOn
    PROVE  PvInv'
<1> DEFINE k == Len(walk.moves)
<1>1. /\ final # <<>> /\ reply = <<>> /\ walk.index <= Len(final.lines) /\ ~Repeats
      /\ report' = report /\ final' = final /\ shown' = shown /\ reply' = reply
  BY DEF WalkOn, Walking, Showing, Goes
<1>2. FinalOk(report, final, walk, shown) /\ report \in Reports
  BY <1>1 DEF PvInv
<1>3. PICK probe \in Probes : \E m \in Onward(probe) :
          walk' = [walk EXCEPT !.at = Played(@, m), !.moves = Append(@, m)]
  BY DEF WalkOn
<1>4. PICK m \in Onward(probe) :
          walk' = [walk EXCEPT !.at = Played(@, m), !.moves = Append(@, m)]
  BY <1>3
<1> DEFINE pv == CurrentLine.pv
           b == Append(walk.moves, m)
<1>5. /\ Walked(report.root, walk) /\ IsList(walk.moves) /\ LegalLine(report.root, walk.moves)
      /\ walk.at.pos = Boards(report.root, walk.moves)[k + 1] /\ k \in Nat
      /\ DOMAIN walk = {"index", "at", "moves"}
      /\ walk.index \in Nat \ {0} /\ Kin(walk.moves, pv)
  <2>1. Walked(report.root, walk) /\ Kin(walk.moves, pv) /\ walk.index \in Nat \ {0}
    BY <1>1, <1>2 DEF FinalOk, CurrentLine
  <2>2. QED BY <2>1, ListIs DEF Walked
<1>6. IsList(pv) /\ LegalLine(report.root, pv)
  <2>1. walk.index \in 1..Len(final.lines)
    BY <1>1, <1>2, <1>5, ListIs DEF FinalOk
  <2>2. QED BY <1>2, <2>1 DEF FinalOk, CurrentLine, IsSearched
<1> HIDE DEF pv
<1>7. \A i \in 1..k : i <= Len(pv) => walk.moves[i] = pv[i]
  BY <1>5, <1>6, KinIs
<1>8. LegalMove(walk.at.pos, m) /\ (k < Len(pv) => m = pv[k + 1])
  <2>1. CASE k < Len(pv)
    <3>1. m = pv[k + 1]
      BY <1>4, <2>1 DEF Onward, pv
    <3>2. k + 1 \in 1..Len(pv) /\ Len(pv) \in Nat /\ DOMAIN pv = 1..Len(pv)
      BY <1>5, <1>6, <2>1, ListIs
    <3>3. Boards(report.root, walk.moves)[k + 1] = Boards(report.root, pv)[k + 1]
      <4>1. \A i \in 1..k : walk.moves[i] = pv[i]
        BY <1>5, <1>7, <3>2
      <4>2. k <= Len(walk.moves) /\ k <= Len(pv) /\ k + 1 \in 1..(k + 1)
        BY <1>5, <2>1, <3>2
      <4> HIDE DEF k
      <4>3. QED BY <1>5, <1>6, <4>1, <4>2, BoardsAgree
    <3>4. LegalMove(Boards(report.root, pv)[k + 1], pv[k + 1])
      BY <1>6, <3>2 DEF LegalLine
    <3>5. QED BY <1>5, <3>1, <3>3, <3>4
  <2>2. CASE ~(k < Len(pv))
    BY <1>4, <2>2 DEF Onward, Playable, pv
  <2>3. QED BY <2>1, <2>2
<1>9. IsPosition(report.root)
  BY <1>2, ReportIs
<1>10. Walked(report.root, walk')
  <2>1. walk.moves # <<>> => QuickRepetition(walk.at.chain, walk.at.root) = "None"
    BY <1>1 DEF Repeats
  <2>2. QED BY <1>4, <1>5, <1>8, <1>9, <2>1, WalkStays
<1>11. walk'.index = walk.index /\ walk'.moves = b
  BY <1>4, <1>5
<1>12. Kin(b, pv)
  <2>1. /\ IsList(b) /\ Len(b) = k + 1 /\ b[k + 1] = m
        /\ \A i \in 1..k : b[i] = walk.moves[i]
    BY <1>5, ListAppend
  <2> HIDE DEF b
  <2>2. ASSUME NEW i \in 1..(k + 1), i <= Len(pv) PROVE b[i] = pv[i]
    <3>1. Len(pv) \in Nat
      BY <1>6, ListIs
    <3>2. CASE i = k + 1
      BY <1>5, <1>8, <2>1, <2>2, <3>1, <3>2
    <3>3. CASE i # k + 1
      <4>1. i \in 1..k
        BY <1>5, <3>3
      <4>2. QED BY <1>7, <2>1, <2>2, <4>1
    <3>4. QED BY <3>2, <3>3
  <2>3. QED BY <1>6, <2>1, <2>2, KinIs
<1> HIDE DEF b
<1>13. FinalOk(report, final, walk', shown)
  BY <1>2, <1>10, <1>11, <1>12 DEF FinalOk, pv, CurrentLine
<1>14. QED BY <1>1, <1>13 DEF PvInv

\* The reply is the beginning of the line shown first, or of the line sent before.
LEMMA SendKeeps ==
    ASSUME PvInv, SendReply
    PROVE  PvInv'
<1>1. /\ ~Midway /\ final # <<>> /\ reply = <<>> /\ ~Showing
      /\ report' = report /\ final' = final /\ shown' = shown /\ walk' = walk
  BY DEF SendReply
<1>2. FinalOk(report, final, walk, shown) /\ report \in Reports /\ report.pvIdx \in Int
  BY <1>1 DEF PvInv
<1> DEFINE best == final.best
           n == IF Len(best.pv) > 1 THEN 2 ELSE 1
           moves == SubSeq(best.pv, 1, n)
<1>3. /\ IsList(best.pv) /\ best.pv # <<>> /\ LegalLine(report.root, best.pv)
      /\ final.lines[1] = best /\ Len(final.lines) \in Nat \ {0}
  <2>1. report.pvIdx > Len(report.lines)
    BY <1>1, <1>2, ReportIs DEF Midway
  <2>2. Len(final.lines) \in Nat \ {0}
    BY <1>2, ListIs DEF FinalOk
  <2>3. QED BY <1>2, <2>1, <2>2 DEF FinalOk, IsSearched
<1>4. Len(best.pv) \in Nat \ {0} /\ n \in 1..Len(best.pv)
  <2>1. Len(best.pv) \in Nat \ {0}
    BY <1>3, ListIs
  <2>2. QED BY <2>1
<1> HIDE DEF n
<1>5. /\ IsList(moves) /\ Len(moves) = n /\ \A i \in 1..n : moves[i] = best.pv[i]
  <2> DEFINE begun == best.pv
  <2>1. IsList(begun) /\ n \in 0..Len(begun)
    BY <1>3, <1>4
  <2> HIDE DEF begun
  <2>2. /\ IsList(SubSeq(begun, 1, n)) /\ Len(SubSeq(begun, 1, n)) = n
        /\ \A i \in 1..n : SubSeq(begun, 1, n)[i] = begun[i]
    BY <2>1, ListBegins
  <2>3. QED BY <2>2 DEF begun
<1> HIDE DEF moves
<1>6. LegalLine(report.root, moves) /\ PrefixOf(moves, best.pv)
  BY <1>3, <1>4, <1>5, BeginningLegal, BeginsIf
<1>7. walk.index > Len(final.lines) => shown # <<>>
  BY <1>2, <1>3 DEF FinalOk
<1>8. CASE ResignByValue
  <2>1. shown # <<>>
    BY <1>1, <1>2, <1>3, <1>7, <1>8 DEF Showing, FinalOk
  <2>2. shown[1].score = ScoreOf(best)
    BY <1>2, <1>3, <2>1 DEF FinalOk
  <2>3. ToCp(ScoreOf(best)) <= -report.resignAt
    BY <1>8 DEF ResignByValue, ScoreOf, DrawScore
  <2>4. reply' = [resign |-> TRUE, moves |-> <<>>]
    BY <1>8 DEF SendReply
  <2>5. reply'.resign = TRUE /\ reply'.moves = <<>>
    BY <2>4
  <2>6. ReplyOk(report, shown, reply')
    BY <2>1, <2>2, <2>3, <2>5, NothingWalked DEF ReplyOk
  <2>7. QED BY <1>1, <2>6 DEF PvInv
<1>9. CASE ~ResignByValue
  <2>1. reply' = [resign |-> FALSE, moves |-> moves]
    BY <1>9 DEF SendReply, moves, n
  <2>2. reply'.resign = FALSE /\ reply'.moves = moves
    BY <2>1
  <2>3. CASE shown = <<>>
    <3>1. final.sent
      BY <1>1, <1>2, <1>3, <1>7, <2>3 DEF Showing, FinalOk
    <3>2. report.isMain /\ best = report.best
      BY <1>2, <3>1 DEF FinalOk
    <3>3. ReplyOk(report, shown, reply')
      BY <1>6, <2>2, <2>3, <3>2 DEF ReplyOk
    <3>4. QED BY <1>1, <3>3 DEF PvInv
  <2>4. CASE shown # <<>>
    <3>1. IsList(shown[1].pv) /\ Kin(shown[1].pv, best.pv)
      <4>1. IsList(shown) /\ \A i \in 1..Len(shown) : ShownOk(report, shown[i])
        BY DEF PvInv
      <4>2. 1 \in 1..Len(shown)
        BY <2>4, <4>1, ListIs
      <4>3. QED BY <1>2, <1>3, <2>4, <4>1, <4>2 DEF ShownOk, FinalOk
    <3>2. Kin(moves, shown[1].pv)
      <4>1. \A i \in 1..Len(shown[1].pv) : i <= Len(best.pv) => shown[1].pv[i] = best.pv[i]
        BY <1>3, <3>1, KinIs
      <4>2. \A i \in 1..n : i <= Len(shown[1].pv) => moves[i] = shown[1].pv[i]
        <5> SUFFICES ASSUME NEW i \in 1..n, i <= Len(shown[1].pv) PROVE moves[i] = shown[1].pv[i]
          OBVIOUS
        <5>1. Len(shown[1].pv) \in Nat
          BY <3>1, ListIs
        <5>2. i \in 1..Len(shown[1].pv) /\ i <= Len(best.pv)
          BY <1>4, <5>1
        <5>3. QED BY <1>5, <4>1, <5>2
      <4>3. QED BY <1>5, <3>1, <4>2, KinIs
    <3>3. ReplyOk(report, shown, reply')
      BY <1>6, <2>2, <2>4, <3>2 DEF ReplyOk
    <3>4. QED BY <1>1, <3>3 DEF PvInv
  <2>5. QED BY <2>3, <2>4
<1>10. QED BY <1>8, <1>9

\* Every step keeps it.
LEMMA PvInvNext == PvInv /\ [PvNext]_pvVars => PvInv'
<1>1. ASSUME PvInv, PvNext PROVE PvInv'
  BY <1>1, PonderKeeps, ShowKeeps, WalkOnKeeps, EndKeeps, SendKeeps DEF PvNext
<1>2. ASSUME PvInv, UNCHANGED pvVars PROVE PvInv'
  BY <1>2 DEF PvInv, pvVars, Midway
<1>3. QED BY <1>1, <1>2

\* The invariant is what the property needs of the end.
LEMMA PvInvEnough == PvInv => EndRight
<1> SUFFICES ASSUME PvInv PROVE EndRight
  OBVIOUS
<1>1. IsList(shown) /\ \A i \in 1..Len(shown) : ShownOk(report, shown[i])
  BY DEF PvInv
<1>2. \A i \in DOMAIN shown :
          /\ LegalLine(report.root, shown[i].pv)
          /\ report.consider => NeverRound(report.root, shown[i].pv)
          /\ shown[i].score # Unset
  BY <1>1, ListIs DEF ShownOk
<1>3. reply # <<>> => ReplyOk(report, shown, reply)
  BY DEF PvInv
<1>4. QED BY <1>2, <1>3 DEF EndRight, ReplyOk, Kin

\* The invariant along the behaviours that show last lines.
LinesInv == part = "pv" => PvInv

\* (infos.rs build_pv_infos and consideration_pv, root.rs extract_ponder) Whatever
\* lines the workers hold and whatever every probe of the shared table answers, each
\* line shown and the reply are legal moves from the position of the go; a walked
\* line meets no position twice within the window of the repetition query before its
\* last; and reply and first line tell the same story, of a resignation its score.
THEOREM LastLinesAlways == Spec => []LastLinesRight
<1>1. Init => LinesInv
  BY PvInvInit DEF Init, LinesInv
<1>2. LinesInv /\ [Next]_<<part, evalVars, histVars, bookVars, setupVars, outcomeVars, budgetVars, pvVars>>
        => LinesInv'
  <2> SUFFICES ASSUME LinesInv,
                      [Next]_<<part, evalVars, histVars, bookVars, setupVars, outcomeVars, budgetVars, pvVars>>
               PROVE  LinesInv'
    OBVIOUS
  <2>1. part' = part /\ (UNCHANGED pvVars \/ (part = "pv" /\ PvNext))
    BY DEF Next
  <2>2. QED BY <2>1, PvInvNext DEF LinesInv
<1>3. LinesInv => LastLinesRight
  BY PvInvEnough DEF LinesInv, LastLinesRight
<1>4. QED BY <1>1, <1>2, <1>3, PTL DEF Spec

----------------------------------------------------------------------------
(* The set-up: layouts.                                                    *)

\* Nodes: sets of CPUs, none empty and none sharing a CPU, that make up all of X.
Nodes(out) ==
    /\ out \in Seq(SUBSET Nat)
    /\ \A i \in 1..Len(out) : out[i] # {} /\ IsFiniteSet(out[i])
    /\ \A i, j \in 1..Len(out) : i # j => out[i] \cap out[j] = {}
Cover(out, X) == \A c : c \in X <=> \E i \in 1..Len(out) : c \in out[i]

\* No nodes cover nothing, and some nodes something.
LEMMA NoNodes == Nodes(<<>>) /\ \A X : Cover(<<>>, X) => X = {}
<1>1. <<>> \in Seq(SUBSET Nat) /\ Len(<<>>) = 0 /\ 1..0 = {}
  OBVIOUS
<1>2. QED BY <1>1 DEF Nodes, Cover

\* What covers something has nodes.
LEMMA CoverNodes ==
    ASSUME NEW out, Nodes(out), NEW X, Cover(out, X)
    PROVE  (out = <<>> <=> X = {}) /\ (out # <<>> <=> Len(out) # 0)
<1>1. out # <<>> <=> Len(out) # 0
  <2>1. out \in Seq(SUBSET Nat)
    BY DEF Nodes
  <2>2. QED BY <2>1, EmptySeq
<1>2. ASSUME out = <<>> PROVE X = {}
  BY <1>2, NoNodes
<1>3. ASSUME out # <<>> PROVE X # {}
  <2>1. Len(out) \in Nat /\ Len(out) # 0
    BY <1>1, <1>3 DEF Nodes
  <2>2. 1 \in 1..Len(out) /\ out[1] # {}
    BY <2>1 DEF Nodes
  <2>3. QED BY <2>2 DEF Cover
<1>4. QED BY <1>1, <1>2, <1>3

\* One node more.
LEMMA OneNodeMore ==
    ASSUME NEW out, Nodes(out), NEW X, Cover(out, X), NEW cpus \in SUBSET Nat, cpus # {},
           IsFiniteSet(cpus), cpus \cap X = {}
    PROVE  LET more == Append(out, cpus)
           IN  /\ Nodes(more) /\ Cover(more, X \cup cpus) /\ more # <<>>
               /\ \A i \in 1..Len(more) : more[i] = cpus \/ \E j \in 1..Len(out) : more[i] = out[j]
<1> DEFINE more == Append(out, cpus)
           m == Len(out)
<1>1. out \in Seq(SUBSET Nat) /\ m \in Nat
  BY DEF Nodes
<1>2. /\ more \in Seq(SUBSET Nat) /\ Len(more) = m + 1 /\ more[m + 1] = cpus
      /\ \A i \in 1..m : more[i] = out[i]
  BY <1>1
<1>2a. more # <<>>
  BY <1>1, <1>2, EmptySeq
<1> HIDE DEF more
<1>3. \A i \in 1..(m + 1) : i \in 1..m \/ i = m + 1
  BY <1>1
<1>4. \A i \in 1..m : i \in 1..(m + 1)
  BY <1>1
<1>4a. m + 1 \in 1..(m + 1)
  BY <1>1
<1>5. /\ \A i \in 1..m : out[i] # {} /\ IsFiniteSet(out[i])
      /\ \A i, j \in 1..m : i # j => out[i] \cap out[j] = {}
      /\ \A i \in 1..m : out[i] \cap cpus = {}
      /\ \A c : c \in X <=> \E i \in 1..m : c \in out[i]
  BY DEF Nodes, Cover
<1> HIDE DEF m
<1>6. \A i \in 1..(m + 1) : more[i] # {} /\ IsFiniteSet(more[i])
  BY <1>2, <1>3, <1>5
<1>7. ASSUME NEW i \in 1..(m + 1), NEW j \in 1..(m + 1), i # j
      PROVE  more[i] \cap more[j] = {}
  <2>1. CASE i \in 1..m /\ j \in 1..m
    BY <1>2, <1>5, <1>7, <2>1
  <2>2. CASE i \in 1..m /\ j = m + 1
    BY <1>2, <1>5, <2>2
  <2>3. CASE i = m + 1 /\ j \in 1..m
    BY <1>2, <1>5, <2>3
  <2>4. QED BY <1>3, <1>7, <2>1, <2>2, <2>3
<1>8. \A c : c \in X \cup cpus <=> \E i \in 1..(m + 1) : c \in more[i]
  BY <1>2, <1>3, <1>4, <1>4a, <1>5
<1>9. Nodes(more) /\ Cover(more, X \cup cpus)
  BY <1>2, <1>6, <1>7, <1>8 DEF Nodes, Cover
<1>10. \A i \in 1..Len(more) : more[i] = cpus \/ \E j \in 1..m : more[i] = out[j]
  BY <1>2, <1>3
<1>11. QED BY <1>2a, <1>9, <1>10 DEF more, m

\* What the first of some sets make up.
Upto(sets, k) == UNION {sets[i] : i \in 1..k}

\* It grows by one set after another.
LEMMA UptoGrows ==
    ASSUME NEW sets
    PROVE  /\ Upto(sets, 0) = {}
           /\ \A k \in Nat : Upto(sets, k + 1) = Upto(sets, k) \cup sets[k + 1]
<1>1. Upto(sets, 0) = {}
  <2>1. 1..0 = {}
    OBVIOUS
  <2>2. QED BY <2>1 DEF Upto
<1>2. ASSUME NEW k \in Nat PROVE Upto(sets, k + 1) = Upto(sets, k) \cup sets[k + 1]
  <2>1. \A i : i \in 1..(k + 1) <=> i \in 1..k \/ i = k + 1
    OBVIOUS
  <2>2. QED BY <2>1 DEF Upto
<1>3. QED BY <1>1, <1>2

\* The first n sets share nothing.
Apart(sets, n) == \A i, j \in 1..n : i # j => sets[i] \cap sets[j] = {}

\* A set shares nothing with the ones before it.
LEMMA ApartFromBefore ==
    ASSUME NEW n \in Nat, NEW sets, Apart(sets, n), NEW k \in Nat, k + 1 <= n
    PROVE  sets[k + 1] \cap Upto(sets, k) = {}
<1> SUFFICES ASSUME NEW c \in sets[k + 1], c \in Upto(sets, k) PROVE FALSE
  OBVIOUS
<1>1. PICK i \in 1..k : c \in sets[i]
  BY DEF Upto
<1>2. i \in 1..n /\ k + 1 \in 1..n /\ i # k + 1
  OBVIOUS
<1>3. QED BY <1>1, <1>2 DEF Apart

Retaining == INSTANCE FoldProofs WITH Op <- Retain, Holds <- AnyValue

\* What is retained of sets of CPUs, none sharing any, are some of them, and nodes
\* that lose no CPU.
LEMMA RetainedAreNodes ==
    ASSUME NEW n \in Nat, NEW sets, DOMAIN sets = 1..n,
           \A i \in 1..n : sets[i] \in SUBSET Nat /\ IsFiniteSet(sets[i]), Apart(sets, n)
    PROVE  LET out == RemoveEmptyNodes(sets)
           IN  /\ Nodes(out) /\ Cover(out, Upto(sets, n))
               /\ \A i \in 1..Len(out) : \E j \in 1..n : out[i] = sets[j]
<1> DEFINE v == Retaining!Values(<<>>, sets, n)
           Among(k) == \A i \in 1..Len(v[k]) : \E j \in 1..n : v[k][i] = sets[j]
<1>1. /\ v[0] = <<>> /\ v[n] = RemoveEmptyNodes(sets)
      /\ \A k \in 1..n : v[k] = Retain(v[k - 1], sets[k])
  <2>1. /\ v[0] = <<>> /\ v[n] = Retaining!FoldOf(<<>>, sets)
        /\ \A k \in 1..n : v[k] = Retain(v[k - 1], sets[k])
    BY Retaining!FoldSteps
  <2>2. Retaining!FoldOf(<<>>, sets) = RemoveEmptyNodes(sets)
    BY DEF Retaining!FoldOf, RemoveEmptyNodes, FoldLeft, Retaining!FoldLeft, MapThenFoldSet,
           Retaining!MapThenFoldSet, Max, Retaining!Max
  <2>3. QED BY <2>1, <2>2
<1> HIDE DEF v
<1> DEFINE S == {k \in Nat : k <= n => Nodes(v[k]) /\ Cover(v[k], Upto(sets, k)) /\ Among(k)}
<1>2. 0 \in S
  <2>1. Len(<<>>) = 0 /\ 1..0 = {}
    OBVIOUS
  <2>2. Nodes(<<>>) /\ Cover(<<>>, Upto(sets, 0))
    BY <2>1, NoNodes, UptoGrows DEF Cover
  <2>3. QED BY <1>1, <2>1, <2>2
<1>3. ASSUME NEW k \in Nat, k \in S PROVE k + 1 \in S
  <2> SUFFICES ASSUME k + 1 <= n
               PROVE  Nodes(v[k + 1]) /\ Cover(v[k + 1], Upto(sets, k + 1)) /\ Among(k + 1)
    OBVIOUS
  <2>1. /\ k + 1 \in 1..n /\ (k + 1) - 1 = k /\ Nodes(v[k]) /\ Cover(v[k], Upto(sets, k))
        /\ \A i \in 1..Len(v[k]) : \E j \in 1..n : v[k][i] = sets[j]
    BY <1>3
  <2> DEFINE old == v[k]
             cpus == sets[k + 1]
  <2>2. v[k + 1] = Retain(old, cpus)
    BY <1>1, <2>1
  <2>3. /\ Upto(sets, k + 1) = Upto(sets, k) \cup cpus /\ cpus \cap Upto(sets, k) = {}
        /\ cpus \in SUBSET Nat /\ IsFiniteSet(cpus)
    BY <2>1, UptoGrows, ApartFromBefore
  <2>4. CASE cpus = {}
    <3>1. v[k + 1] = old
      BY <2>2, <2>4 DEF Retain
    <3>2. Upto(sets, k + 1) = Upto(sets, k)
      BY <2>3, <2>4
    <3>3. QED BY <2>1, <3>1, <3>2
  <2>5. CASE cpus # {}
    <3> DEFINE longer == Append(old, cpus)
               before == Upto(sets, k)
    <3>1. v[k + 1] = longer
      BY <2>2, <2>5 DEF Retain
    <3>1a. Nodes(old) /\ Cover(old, before)
      BY <2>1
    <3>1b. cpus \cap before = {} /\ Upto(sets, k + 1) = before \cup cpus
      BY <2>3
    <3>1c. k + 1 \in 1..n /\ cpus = sets[k + 1]
      BY <2>1
    <3>1d. \A i \in 1..Len(old) : \E j \in 1..n : old[i] = sets[j]
      BY <2>1
    <3> HIDE DEF old, cpus, before
    <3>2. /\ Nodes(longer) /\ Cover(longer, before \cup cpus)
          /\ \A i \in 1..Len(longer) : longer[i] = cpus \/ \E j \in 1..Len(old) : longer[i] = old[j]
      BY <2>3, <2>5, <3>1a, <3>1b, OneNodeMore
    <3> HIDE DEF longer
    <3>3. \A i \in 1..Len(longer) : \E j \in 1..n : longer[i] = sets[j]
      BY <3>1c, <3>1d, <3>2
    <3>4. QED BY <3>1, <3>1b, <3>2, <3>3
  <2>6. QED BY <2>4, <2>5
<1>4. Nat \subseteq S
  <2> HIDE DEF S
  <2>1. QED BY <1>2, <1>3, Retaining!SetInduction
<1>5. n \in S
  <2> HIDE DEF S
  <2>1. QED BY <1>4
<1>6. Nodes(v[n]) /\ Cover(v[n], Upto(sets, n)) /\ Among(n)
  BY <1>5
<1>7. QED BY <1>1, <1>6

\* Some nodes are a layout.
LEMMA NodesAreLayout ==
    ASSUME NEW out, Nodes(out), out # <<>>, NEW custom \in BOOLEAN
    PROVE  IsLayout([nodes |-> out, custom |-> custom])
<1> DEFINE cfg == [nodes |-> out, custom |-> custom]
<1>1. cfg.nodes = out /\ cfg.custom = custom /\ DOMAIN cfg = {"nodes", "custom"}
  OBVIOUS
<1> HIDE DEF cfg
<1>2. out \in Seq(SUBSET Nat) /\ DOMAIN out = 1..Len(out)
  BY DEF Nodes
<1>3. \A n \in 1..Len(out) : \A k \in (1..Len(out)) \ {n} : out[n] \cap out[k] = {}
  BY DEF Nodes
<1>4. \A n \in 1..Len(out) : out[n] # {} /\ IsFiniteSet(out[n])
  BY DEF Nodes
<1>5. IsLayout(cfg)
  BY <1>1, <1>2, <1>3, <1>4 DEF IsLayout
<1>6. QED BY <1>5 DEF cfg

\* A custom text names a layout or none.
LEMMA CustomLayout ==
    ASSUME NEW groups \in Seq(Seq(Nat))
    PROVE  \/ FromString(groups) = <<>>
           \/ \E cfg : FromString(groups) = <<cfg>> /\ IsLayout(cfg)
<1> DEFINE n == Len(groups)
           sets == [i \in DOMAIN groups |-> ToSet(groups[i])]
           nodes_ == RemoveEmptyNodes(sets)
<1>1. n \in Nat /\ DOMAIN groups = 1..n /\ \A i \in 1..n : groups[i] \in Seq(Nat)
  OBVIOUS
<1>2. FromString(groups) = IF NamesTwice(groups) \/ nodes_ = <<>> THEN <<>>
                           ELSE <<[nodes |-> nodes_, custom |-> TRUE]>>
  BY DEF FromString
<1>3. CASE ~NamesTwice(groups) /\ nodes_ # <<>>
  <2>1. DOMAIN sets = 1..n /\ \A i \in 1..n : sets[i] = ToSet(groups[i])
    BY <1>1
  <2> HIDE DEF sets
  <2>2. \A i \in 1..n : sets[i] \in SUBSET Nat /\ IsFiniteSet(sets[i])
    <3> SUFFICES ASSUME NEW i \in 1..n PROVE sets[i] \in SUBSET Nat /\ IsFiniteSet(sets[i])
      OBVIOUS
    <3> DEFINE g == groups[i]
    <3>1. g \in Seq(Nat) /\ sets[i] = ToSet(g)
      BY <1>1, <2>1
    <3> HIDE DEF g
    <3>2. Len(g) \in Nat /\ DOMAIN g = 1..Len(g) /\ \A a \in 1..Len(g) : g[a] \in Nat
      BY <3>1
    <3>3. ToSet(g) \in SUBSET Nat
      BY <3>2 DEF ToSet
    <3>4. g \in Surjection(1..Len(g), ToSet(g))
      BY <3>1, <3>2 DEF ToSet, Surjection
    <3>5. IsFiniteSet(1..Len(g))
      BY <3>2, FS_Interval
    <3>6. IsFiniteSet(ToSet(g))
      BY <3>4, <3>5, FS_Surjection
    <3>7. QED BY <3>1, <3>3, <3>6
  <2>3. \A i, j \in 1..n : i # j => sets[i] \cap sets[j] = {}
    <3> SUFFICES ASSUME NEW i \in 1..n, NEW j \in 1..n, i # j, NEW c \in sets[i], c \in sets[j]
                 PROVE  FALSE
      OBVIOUS
    <3>1. PICK a \in DOMAIN groups[i] : c = groups[i][a]
      <4>1. c \in ToSet(groups[i])
        BY <2>1
      <4>2. QED BY <4>1 DEF ToSet
    <3>2. PICK b \in DOMAIN groups[j] : c = groups[j][b]
      <4>1. c \in ToSet(groups[j])
        BY <2>1
      <4>2. QED BY <4>1 DEF ToSet
    <3>3. <<i, a>> # <<j, b>>
      OBVIOUS
    <3>4. QED BY <1>1, <1>3, <3>1, <3>2, <3>3 DEF NamesTwice
  <2>4. Nodes(nodes_)
    <3>1. Apart(sets, n)
      BY <2>3 DEF Apart
    <3>2. QED BY <1>1, <2>1, <2>2, <3>1, RetainedAreNodes
  <2> HIDE DEF nodes_
  <2>5. IsLayout([nodes |-> nodes_, custom |-> TRUE])
    BY <1>3, <2>4, NodesAreLayout
  <2>6. QED BY <1>2, <1>3, <2>5
<1>4. QED BY <1>2, <1>3

\* What detection gives on every machine, proved last (DetectedLayout).
DetectionRight ==
    \A m \in Machines : \A respect \in BOOLEAN :
        LET cfg == FromSystem(m, respect)
        IN  /\ IsLayout(cfg)
            /\ Cpus(cfg) \subseteq Usable(m, respect)
            /\ \A n \in DOMAIN cfg.nodes : \E s \in Range(SystemNodes(m, respect)) :
                  cfg.nodes[n] \subseteq s

\* What a policy makes of a machine.
LEMMA PolicyLayout ==
    ASSUME DetectionRight, machine \in Machines, NEW policy, IsPolicy(policy)
    PROVE  /\ \/ ConfigFromPolicy(policy) = <<>> /\ policy.kind = "custom"
              \/ \E cfg : ConfigFromPolicy(policy) = <<cfg>> /\ IsLayout(cfg)
           /\ policy.kind \in {"auto", "system"} => ConfigFromPolicy(policy) = <<FromSystem(machine, TRUE)>>
<1>1. IsLayout(FromSystem(machine, TRUE)) /\ IsLayout(FromSystem(machine, FALSE))
  BY DEF DetectionRight
<1>2. IsLayout(DefaultConfig(machine))
  <2> DEFINE out == <<0..(machine.threads - 1)>>
  <2>1. machine.threads \in Nat \ {0}
    BY MachinesAssumption DEF IsMachine
  <2>2. IsFiniteSet(0..(machine.threads - 1)) /\ 0 \in 0..(machine.threads - 1)
    <3>1. 0 \in Int /\ machine.threads - 1 \in Int /\ 0 \in 0..(machine.threads - 1)
      BY <2>1
    <3>2. QED BY <3>1, FS_Interval
  <2>3. out \in Seq(SUBSET Nat) /\ Len(out) = 1 /\ out[1] = 0..(machine.threads - 1) /\ out # <<>>
    BY <2>1
  <2> HIDE DEF out
  <2>4. \A i \in 1..1 : i = 1
    OBVIOUS
  <2>5. Nodes(out)
    BY <2>2, <2>3, <2>4 DEF Nodes
  <2>6. IsLayout([nodes |-> out, custom |-> FALSE])
    BY <2>3, <2>5, NodesAreLayout
  <2>7. QED BY <2>6 DEF DefaultConfig, out
<1>3. CASE policy.kind \in {"auto", "system"}
  BY <1>1, <1>3 DEF ConfigFromPolicy
<1>4. CASE policy.kind = "hardware"
  BY <1>1, <1>4 DEF ConfigFromPolicy
<1>5. CASE policy.kind = "none"
  BY <1>2, <1>5 DEF ConfigFromPolicy
<1>6. CASE policy.kind = "custom"
  <2>1. policy.groups \in Seq(Seq(Nat)) /\ ConfigFromPolicy(policy) = FromString(policy.groups)
    BY <1>6 DEF ConfigFromPolicy, IsPolicy
  <2>2. QED BY <1>6, <2>1, CustomLayout
<1>7. QED BY <1>3, <1>4, <1>5, <1>6 DEF IsPolicy

----------------------------------------------------------------------------
(* The set-up: threads on nodes.                                           *)

\* One fraction is less than a second, and that no more than a third.
LEMMA FractionsInOrder ==
    ASSUME NEW a \in Nat, NEW b \in Nat, NEW c \in Nat,
           NEW x \in Nat \ {0}, NEW y \in Nat \ {0}, NEW z \in Nat \ {0},
           a * y < b * x, b * z <= c * y
    PROVE  a * z < c * x
<1>1. (a * y) * z < (b * x) * z
  BY Z3
<1>2. (b * z) * x <= (c * y) * x
  BY Z3
<1>3. (a * z) * y < (c * x) * y
  <2>1. (a * y) * z = (a * z) * y /\ (b * x) * z = (b * z) * x /\ (c * y) * x = (c * x) * y
    BY Z3
  <2>2. /\ (a * y) * z \in Nat /\ (b * x) * z \in Nat /\ (b * z) * x \in Nat /\ (c * y) * x \in Nat
        /\ (a * z) * y \in Nat /\ (c * x) * y \in Nat
    BY Z3
  <2>3. QED BY <1>1, <1>2, <2>1, <2>2
<1> SUFFICES ASSUME c * x <= a * z PROVE FALSE
  <2>1. c * x \in Nat /\ a * z \in Nat
    BY Z3
  <2>2. QED BY <2>1
<1>4. (c * x) * y <= (a * z) * y
  <2> DEFINE p == c * x
             q == a * z
  <2>1. p \in Nat /\ q \in Nat /\ p <= q
    BY Z3
  <2> HIDE DEF p, q
  <2>2. p * y <= q * y
    BY <2>1, Z3
  <2>3. QED BY <2>2 DEF p, q
<1>5. QED
  <2> DEFINE p == (c * x) * y
             q == (a * z) * y
  <2>1. p \in Nat /\ q \in Nat
    BY Z3
  <2> HIDE DEF p, q
  <2>2. p <= q /\ q < p
    BY <1>3, <1>4 DEF p, q
  <2>3. QED BY <2>1, <2>2

\* Of some fractions one is least, and the first of the least.
LEMMA LeastFraction ==
    ASSUME NEW n \in Nat \ {0}, NEW p \in [1..n -> Nat], NEW q \in [1..n -> Nat \ {0}]
    PROVE  \E a \in 1..n : \A b \in 1..n :
               ~(p[b] * q[a] < p[a] * q[b]) /\ (b < a => p[a] * q[b] < p[b] * q[a])
<1> DEFINE First(a, m) == \A b \in 1..m :
               ~(p[b] * q[a] < p[a] * q[b]) /\ (b < a => p[a] * q[b] < p[b] * q[a])
           S == {k \in Nat : k < n => \E a \in 1..(k + 1) : First(a, k + 1)}
<1>0. \A a, b \in 1..n : p[a] * q[b] \in Nat
  <2> SUFFICES ASSUME NEW a \in 1..n, NEW b \in 1..n PROVE p[a] * q[b] \in Nat
    OBVIOUS
  <2> DEFINE x == p[a]
             y == q[b]
  <2>1. x \in Nat /\ y \in Nat
    OBVIOUS
  <2> HIDE DEF x, y
  <2>2. x * y \in Nat
    BY <2>1, Z3
  <2>3. QED BY <2>2 DEF x, y
<1>1. 0 \in S
  <2>1. 1 \in 1..(0 + 1) /\ \A b \in 1..(0 + 1) : b = 1
    OBVIOUS
  <2>2. p[1] * q[1] \in Nat
    BY <1>0
  <2>3. First(1, 0 + 1)
    BY <2>1, <2>2
  <2>4. QED BY <2>1, <2>3
<1>2. ASSUME NEW k \in Nat, k \in S PROVE k + 1 \in S
  <2> SUFFICES ASSUME k + 1 < n PROVE \E a \in 1..(k + 2) : First(a, k + 2)
    BY (k + 1) + 1 = k + 2
  <2>1. PICK a \in 1..(k + 1) : First(a, k + 1)
    BY <1>2
  <2> DEFINE new == k + 2
  <2>2. /\ new \in 1..n /\ a \in 1..n /\ a < new /\ new \in 1..(k + 2) /\ a \in 1..(k + 2)
        /\ \A b \in 1..(k + 2) : b \in 1..(k + 1) \/ b = new
        /\ \A b \in 1..(k + 1) : b < new /\ b \in 1..n
    OBVIOUS
  <2> HIDE DEF new
  <2>3. CASE p[new] * q[a] < p[a] * q[new]
    <3>1. \A b \in 1..(k + 1) : p[new] * q[b] < p[b] * q[new]
      <4> SUFFICES ASSUME NEW b \in 1..(k + 1) PROVE p[new] * q[b] < p[b] * q[new]
        OBVIOUS
      <4>1. ~(p[b] * q[a] < p[a] * q[b])
        BY <2>1
      <4>2. b \in 1..n
        BY <2>2
      <4>3. p[b] * q[a] \in Nat /\ p[a] * q[b] \in Nat
        BY <1>0, <2>2, <4>2
      <4>4. p[a] * q[b] <= p[b] * q[a]
        BY <4>1, <4>3
      <4>5. /\ p[new] \in Nat /\ p[a] \in Nat /\ p[b] \in Nat
            /\ q[new] \in Nat \ {0} /\ q[a] \in Nat \ {0} /\ q[b] \in Nat \ {0}
        BY <2>2, <4>2
      <4>6. QED BY <2>3, <4>4, <4>5, FractionsInOrder
    <3>2. p[new] * q[new] \in Nat /\ \A b \in 1..(k + 1) : p[new] * q[b] \in Nat /\ p[b] * q[new] \in Nat
      BY <1>0, <2>2
    <3>3. First(new, k + 2)
      <4> SUFFICES ASSUME NEW b \in 1..(k + 2)
                   PROVE  ~(p[b] * q[new] < p[new] * q[b]) /\ (b < new => p[new] * q[b] < p[b] * q[new])
        OBVIOUS
      <4>1. CASE b = new
        BY <2>2, <3>2, <4>1
      <4>2. CASE b \in 1..(k + 1)
        BY <3>1, <3>2, <4>2
      <4>3. QED BY <2>2, <4>1, <4>2
    <3>4. QED BY <2>2, <3>3
  <2>4. CASE ~(p[new] * q[a] < p[a] * q[new])
    <3>1. First(a, k + 2)
      <4> SUFFICES ASSUME NEW b \in 1..(k + 2)
                   PROVE  ~(p[b] * q[a] < p[a] * q[b]) /\ (b < a => p[a] * q[b] < p[b] * q[a])
        OBVIOUS
      <4>1. CASE b = new
        BY <2>2, <2>4, <4>1
      <4>2. CASE b \in 1..(k + 1)
        BY <2>1, <4>2
      <4>3. QED BY <2>2, <4>1, <4>2
    <3>2. QED BY <2>2, <3>1
  <2>5. QED BY <2>3, <2>4
<1>3. Nat \subseteq S
  <2> HIDE DEF S
  <2>1. QED BY <1>1, <1>2, Retaining!SetInduction
<1>4. n - 1 \in Nat /\ n - 1 < n /\ (n - 1) + 1 = n
  OBVIOUS
<1>5. n - 1 \in S
  <2> HIDE DEF S
  <2>1. QED BY <1>3, <1>4
<1>6. \E a \in 1..n : First(a, n)
  BY <1>4, <1>5
<1>7. QED BY <1>6

\* How many threads are bound to a node, and that no node is filled more than
\* another would be by one thread more.
On(bound, a) == Cardinality({w \in DOMAIN bound : bound[w] = a})
Even(nodeSets, occupied) ==
    \A a, b \in DOMAIN nodeSets :
        occupied[a] * Cardinality(nodeSets[b]) <= (occupied[b] + 1) * Cardinality(nodeSets[a])
Spread(nodeSets, s, k) ==
    /\ DOMAIN s = {"bound", "occupied"}
    /\ s.bound \in Seq(DOMAIN nodeSets) /\ Len(s.bound) = k
    /\ s.occupied \in [DOMAIN nodeSets -> Nat]
    /\ \A a \in DOMAIN nodeSets : s.occupied[a] = On(s.bound, a)
    /\ Even(nodeSets, s.occupied)
Sized(nodeSets) ==
    \E n \in Nat \ {0} : DOMAIN nodeSets = 1..n /\ \A a \in 1..n : Cardinality(nodeSets[a]) \in Nat \ {0}

\* The nodes of a layout have sizes.
LEMMA LayoutSized ==
    ASSUME NEW cfg, IsLayout(cfg)
    PROVE  Sized(cfg.nodes)
<1> DEFINE out == cfg.nodes
           n == Len(out)
<1>1. out \in Seq(SUBSET Nat) /\ out # <<>> /\ \A a \in DOMAIN out : out[a] # {} /\ IsFiniteSet(out[a])
  BY DEF IsLayout
<1> HIDE DEF out
<1>2. n \in Nat \ {0} /\ DOMAIN out = 1..n
  BY <1>1, EmptySeq
<1>3. \A a \in 1..n : Cardinality(out[a]) \in Nat \ {0}
  <2> SUFFICES ASSUME NEW a \in 1..n PROVE Cardinality(out[a]) \in Nat \ {0}
    OBVIOUS
  <2> DEFINE cpus == out[a]
  <2>1. IsFiniteSet(cpus) /\ cpus # {}
    BY <1>1, <1>2
  <2> HIDE DEF cpus
  <2>2. Cardinality(cpus) \in Nat /\ Cardinality(cpus) # 0
    BY <2>1, FS_CardinalityType, FS_EmptySet
  <2>3. QED BY <2>2 DEF cpus
<1>4. QED BY <1>2, <1>3 DEF Sized, out

\* The node of a thread is one that it fills least.
LEMMA EmptiestIs ==
    ASSUME NEW nodeSets, Sized(nodeSets), NEW occupied \in [DOMAIN nodeSets -> Nat]
    PROVE  LET a == Emptiest(nodeSets, occupied)
           IN  /\ a \in DOMAIN nodeSets
               /\ \A b \in DOMAIN nodeSets :
                     (occupied[a] + 1) * Cardinality(nodeSets[b])
                         <= (occupied[b] + 1) * Cardinality(nodeSets[a])
<1>1. PICK n \in Nat \ {0} :
         DOMAIN nodeSets = 1..n /\ \A a \in 1..n : Cardinality(nodeSets[a]) \in Nat \ {0}
  BY DEF Sized
<1> DEFINE p == [a \in 1..n |-> occupied[a] + 1]
           q == [a \in 1..n |-> Cardinality(nodeSets[a])]
<1>2. p \in [1..n -> Nat] /\ q \in [1..n -> Nat \ {0}]
  BY <1>1
<1>3. \A a \in 1..n : p[a] = occupied[a] + 1 /\ q[a] = Cardinality(nodeSets[a])
  OBVIOUS
<1> HIDE DEF p, q
<1>4. \E a \in 1..n : \A b \in 1..n :
         ~(p[b] * q[a] < p[a] * q[b]) /\ (b < a => p[a] * q[b] < p[b] * q[a])
  BY <1>2, LeastFraction
<1>5. \E a \in DOMAIN nodeSets : \A b \in DOMAIN nodeSets :
         ~Fits(nodeSets, occupied, b, a) /\ (b < a => Fits(nodeSets, occupied, a, b))
  BY <1>1, <1>3, <1>4 DEF Fits
<1> DEFINE a == Emptiest(nodeSets, occupied)
<1>6. a \in DOMAIN nodeSets /\ \A b \in DOMAIN nodeSets : ~Fits(nodeSets, occupied, b, a)
  BY <1>5 DEF Emptiest
<1> HIDE DEF a
<1>7. ASSUME NEW b \in DOMAIN nodeSets
      PROVE  (occupied[a] + 1) * Cardinality(nodeSets[b]) <= (occupied[b] + 1) * Cardinality(nodeSets[a])
  <2> DEFINE x == (occupied[a] + 1) * Cardinality(nodeSets[b])
             y == (occupied[b] + 1) * Cardinality(nodeSets[a])
  <2>1. x \in Nat /\ y \in Nat
    <3>1. \A i, j \in Nat : i * j \in Nat
      BY Z3
    <3>2. /\ occupied[a] + 1 \in Nat /\ occupied[b] + 1 \in Nat
          /\ Cardinality(nodeSets[a]) \in Nat /\ Cardinality(nodeSets[b]) \in Nat
      BY <1>1, <1>6
    <3>3. QED BY <3>1, <3>2
  <2>2. ~(y < x)
    BY <1>6 DEF Fits
  <2> HIDE DEF x, y
  <2>3. x <= y
    BY <2>1, <2>2
  <2>4. QED BY <2>3 DEF x, y
<1>8. QED BY <1>6, <1>7 DEF a

\* One thread more on a node.
LEMMA OneMoreOn ==
    ASSUME NEW places, NEW bound \in Seq(places), NEW a \in places, NEW x
    PROVE  On(Append(bound, a), x) = IF x = a THEN On(bound, x) + 1 ELSE On(bound, x)
<1> DEFINE k == Len(bound)
           more == Append(bound, a)
           there == {w \in DOMAIN bound : bound[w] = x}
           thereNow == {w \in DOMAIN more : more[w] = x}
<1>1. /\ k \in Nat /\ DOMAIN bound = 1..k /\ DOMAIN more = 1..(k + 1)
      /\ more[k + 1] = a /\ \A w \in 1..k : more[w] = bound[w]
  OBVIOUS
<1> HIDE DEF k, more
<1>2. \A w \in 1..(k + 1) : w \in 1..k \/ w = k + 1
  BY <1>1
<1>3. k + 1 \notin 1..k /\ k + 1 \in 1..(k + 1) /\ \A w \in 1..k : w \in 1..(k + 1)
  BY <1>1
<1>4. thereNow = IF x = a THEN there \cup {k + 1} ELSE there
  BY <1>1, <1>2, <1>3
<1>5. k + 1 \notin there /\ IsFiniteSet(there)
  <2>1. there \subseteq 1..k
    BY <1>1
  <2>2. IsFiniteSet(1..k)
    BY <1>1, FS_Interval
  <2>3. QED BY <1>3, <2>1, <2>2, FS_Subset
<1>6. Cardinality(there \cup {k + 1}) = Cardinality(there) + 1
  <2> HIDE DEF there
  <2>1. QED BY <1>5, FS_AddElement
<1>7. On(bound, x) = Cardinality(there) /\ On(more, x) = Cardinality(thereNow)
  BY DEF On
<1> HIDE DEF there, thereNow
<1>8. QED BY <1>4, <1>6, <1>7 DEF more

\* One thread on the node it fills least keeps the nodes even.
LEMMA OccupyKeeps ==
    ASSUME NEW nodeSets, Sized(nodeSets), NEW k \in Nat, NEW s, Spread(nodeSets, s, k)
    PROVE  Spread(nodeSets, Occupy(s, nodeSets), k + 1)
<1> DEFINE places == DOMAIN nodeSets
           occ == s.occupied
           bound == s.bound
           a == Emptiest(nodeSets, occ)
           more == Append(bound, a)
           occ2 == [occ EXCEPT ![a] = @ + 1]
<1>1. /\ bound \in Seq(places) /\ Len(bound) = k /\ occ \in [places -> Nat]
      /\ \A x \in places : occ[x] = On(bound, x)
      /\ Even(nodeSets, occ)
  BY DEF Spread
<1>2. Occupy(s, nodeSets) = [bound |-> more, occupied |-> occ2]
  BY DEF Occupy
<1> HIDE DEF bound, occ
<1>3. /\ a \in places
      /\ \A b \in places : (occ[a] + 1) * Cardinality(nodeSets[b]) <= (occ[b] + 1) * Cardinality(nodeSets[a])
  BY <1>1, EmptiestIs
<1> HIDE DEF a
<1>4. more \in Seq(places) /\ Len(more) = k + 1
  BY <1>1, <1>3
<1>5. occ2 \in [places -> Nat] /\ occ2[a] = occ[a] + 1 /\ \A x \in places : x # a => occ2[x] = occ[x]
  BY <1>1, <1>3
<1>6. \A x \in places : On(more, x) = IF x = a THEN On(bound, x) + 1 ELSE On(bound, x)
  BY <1>1, <1>3, OneMoreOn
<1> HIDE DEF more, occ2
<1>7. \A x \in places : occ2[x] = On(more, x)
  BY <1>1, <1>5, <1>6
<1>8. \A x \in places : Cardinality(nodeSets[x]) \in Nat \ {0}
  BY DEF Sized
<1>9. Even(nodeSets, occ2)
  <2> SUFFICES ASSUME NEW x \in places, NEW y \in places
               PROVE  occ2[x] * Cardinality(nodeSets[y]) <= (occ2[y] + 1) * Cardinality(nodeSets[x])
    BY DEF Even
  <2> DEFINE m == Cardinality(nodeSets[x])
             n == Cardinality(nodeSets[y])
             i == occ[x]
             j == occ[y]
             i2 == occ2[x]
             j2 == occ2[y]
  <2>1. m \in Nat /\ n \in Nat /\ i \in Nat /\ j \in Nat /\ i2 \in Nat /\ j2 \in Nat /\ j <= j2
    <3>1. m \in Nat /\ n \in Nat
      BY <1>8
    <3>2. i \in Nat /\ j \in Nat /\ i2 \in Nat /\ j2 \in Nat
      BY <1>1, <1>5
    <3>3. j2 = j \/ j2 = j + 1
      BY <1>5
    <3> HIDE DEF m, n, i, j, i2, j2
    <3>4. QED BY <3>1, <3>2, <3>3
  <2>2. x = a => i2 = i + 1 /\ (i + 1) * n <= (j + 1) * m
    BY <1>3, <1>5
  <2>3. x # a => i2 = i /\ i * n <= (j + 1) * m
    BY <1>1, <1>5 DEF Even
  <2> HIDE DEF m, n, i, j, i2, j2
  <2>4. i2 * n <= (j + 1) * m
    BY <2>2, <2>3
  <2>5. (j + 1) * m <= (j2 + 1) * m
    BY <2>1, Z3
  <2>6. i2 * n \in Nat /\ (j + 1) * m \in Nat /\ (j2 + 1) * m \in Nat
    BY <2>1, Z3
  <2>7. i2 * n <= (j2 + 1) * m
    <3> DEFINE p == i2 * n
               q == (j + 1) * m
               r == (j2 + 1) * m
    <3>1. p \in Nat /\ q \in Nat /\ r \in Nat /\ p <= q /\ q <= r
      BY <2>4, <2>5, <2>6
    <3> HIDE DEF p, q, r
    <3>2. p <= r
      BY <3>1
    <3>3. QED BY <3>2 DEF p, r
  <2>8. QED BY <2>7 DEF m, n, i2, j2
<1>10. QED BY <1>2, <1>4, <1>5, <1>7, <1>9 DEF Spread

Spreading == INSTANCE FoldProofs WITH Op <- Occupy, Holds <- AnyValue

\* The threads, all on nodes and evenly.
Bound(nodeSets, bound, k) ==
    /\ bound \in Seq(DOMAIN nodeSets) /\ Len(bound) = k
    /\ \A a, b \in DOMAIN nodeSets :
          On(bound, a) * Cardinality(nodeSets[b]) <= (On(bound, b) + 1) * Cardinality(nodeSets[a])

\* The greedy distribution puts every thread on a node, and evenly by the nodes' sizes.
LEMMA DistributedEvenly ==
    ASSUME NEW cfg, IsLayout(cfg), NEW n \in Nat
    PROVE  Bound(cfg.nodes, DistributeThreads(cfg, n), n)
<1> DEFINE nodeSets == cfg.nodes
           seq == [k \in 1..n |-> nodeSets]
           base == [bound |-> <<>>, occupied |-> [a \in DOMAIN nodeSets |-> 0]]
           v == Spreading!Values(base, seq, n)
<1>1. Sized(nodeSets)
  BY LayoutSized
<1>2. /\ v[0] = base /\ v[n] = Spreading!FoldOf(base, seq)
      /\ \A k \in 1..n : v[k] = Occupy(v[k - 1], seq[k])
  <2>1. DOMAIN seq = 1..n
    OBVIOUS
  <2> HIDE DEF seq, base
  <2>2. QED BY <2>1, Spreading!FoldSteps
<1>3. Spreading!FoldOf(base, seq).bound = DistributeThreads(cfg, n)
  <2> HIDE DEF base, seq
  <2>1. Spreading!FoldOf(base, seq) = FoldLeft(Occupy, base, seq)
    BY DEF Spreading!FoldOf, FoldLeft, Spreading!FoldLeft, MapThenFoldSet,
           Spreading!MapThenFoldSet, Max, Spreading!Max
  <2>2. DistributeThreads(cfg, n) = FoldLeft(Occupy, base, seq).bound
    BY DEF DistributeThreads, base, seq
  <2>3. QED BY <2>1, <2>2
<1>4. Spread(nodeSets, base, 0)
  <2>1. base.bound = <<>> /\ DOMAIN base = {"bound", "occupied"}
        /\ base.occupied = [a \in DOMAIN nodeSets |-> 0]
    OBVIOUS
  <2> HIDE DEF base
  <2>2. \A a : On(<<>>, a) = 0
    <3> SUFFICES ASSUME NEW a PROVE On(<<>>, a) = 0
      OBVIOUS
    <3>1. {w \in DOMAIN <<>> : <<>>[w] = a} = {}
      OBVIOUS
    <3>2. QED BY <3>1, FS_EmptySet DEF On
  <2>3. Even(nodeSets, base.occupied)
    <3>1. \A x, y \in Nat : 0 * x <= (0 + 1) * y
      OBVIOUS
    <3>2. \A a \in DOMAIN nodeSets : Cardinality(nodeSets[a]) \in Nat
      BY <1>1 DEF Sized
    <3>3. \A a \in DOMAIN nodeSets : base.occupied[a] = 0
      BY <2>1
    <3> HIDE DEF nodeSets
    <3>4. QED BY <3>1, <3>2, <3>3 DEF Even
  <2>4. <<>> \in Seq(DOMAIN nodeSets) /\ Len(<<>>) = 0
    OBVIOUS
  <2>5. base.occupied \in [DOMAIN nodeSets -> Nat] /\ \A a \in DOMAIN nodeSets : base.occupied[a] = 0
    BY <2>1
  <2> HIDE DEF nodeSets
  <2>6. QED BY <2>1, <2>2, <2>3, <2>4, <2>5 DEF Spread
<1>5. \A k \in 1..n : seq[k] = nodeSets
  OBVIOUS
<1> HIDE DEF v, seq, base, nodeSets
<1> DEFINE S == {k \in Nat : k <= n => Spread(nodeSets, v[k], k)}
<1>6. 0 \in S
  BY <1>2, <1>4
<1>7. ASSUME NEW k \in Nat, k \in S PROVE k + 1 \in S
  <2> SUFFICES ASSUME k + 1 <= n PROVE Spread(nodeSets, v[k + 1], k + 1)
    OBVIOUS
  <2>1. k + 1 \in 1..n /\ (k + 1) - 1 = k /\ Spread(nodeSets, v[k], k)
    BY <1>7
  <2>2. v[k + 1] = Occupy(v[k], nodeSets)
    BY <1>2, <1>5, <2>1
  <2>3. QED BY <1>1, <2>1, <2>2, OccupyKeeps
<1>8. Nat \subseteq S
  <2> HIDE DEF S
  <2>1. QED BY <1>6, <1>7, Retaining!SetInduction
<1>9. Spread(nodeSets, v[n], n)
  BY <1>8
<1>10. v[n].bound = DistributeThreads(cfg, n)
  BY <1>2, <1>3
<1> DEFINE bound == DistributeThreads(cfg, n)
           occ == v[n].occupied
<1>11. /\ bound \in Seq(DOMAIN nodeSets) /\ Len(bound) = n
       /\ \A a \in DOMAIN nodeSets : occ[a] = On(bound, a)
       /\ Even(nodeSets, occ)
  BY <1>9, <1>10 DEF Spread
<1> HIDE DEF bound, occ
<1>12. Bound(nodeSets, bound, n)
  BY <1>11 DEF Bound, Even
<1>13. QED BY <1>12 DEF bound, nodeSets

\* The binding of a policy, where there is one.
LEMMA BindingIs ==
    ASSUME NEW cfg, IsLayout(cfg), NEW policy, NEW n \in Nat
    PROVE  Binding(cfg, policy, n) = <<>> \/ Bound(cfg.nodes, Binding(cfg, policy, n), n)
<1>1. Bound(cfg.nodes, DistributeThreads(cfg, n), n)
  BY DistributedEvenly
<1>2. QED BY <1>1 DEF Binding

----------------------------------------------------------------------------
(* The set-up: the shared tables.                                          *)

Doubling == INSTANCE FoldProofs WITH Op <- Doubled, Holds <- AnyValue

\* A table has room for as many as it is sized by.
LEMMA PowerReaches ==
    ASSUME NEW n \in Nat
    PROVE  NextPowerOfTwo(n) \in Nat /\ NextPowerOfTwo(n) >= n
<1> DEFINE seq == [k \in 1..n |-> n]
           v == Doubling!Values(1, seq, n)
<1>1. /\ v[0] = 1 /\ v[n] = Doubling!FoldOf(1, seq)
      /\ \A k \in 1..n : v[k] = Doubled(v[k - 1], seq[k])
  <2>1. DOMAIN seq = 1..n
    OBVIOUS
  <2> HIDE DEF seq
  <2>2. QED BY <2>1, Doubling!FoldSteps
<1>2. Doubling!FoldOf(1, seq) = NextPowerOfTwo(n)
  <2>1. NextPowerOfTwo(n) = FoldLeft(Doubled, 1, seq)
    BY DEF NextPowerOfTwo
  <2> HIDE DEF seq
  <2>2. Doubling!FoldOf(1, seq) = FoldLeft(Doubled, 1, seq)
    BY DEF Doubling!FoldOf, FoldLeft, Doubling!FoldLeft, MapThenFoldSet,
           Doubling!MapThenFoldSet, Max, Doubling!Max
  <2>3. QED BY <2>1, <2>2
<1>3. \A k \in 1..n : seq[k] = n
  OBVIOUS
<1> HIDE DEF v, seq
<1> DEFINE S == {k \in Nat : k <= n => v[k] \in Nat \ {0} /\ (v[k] >= n \/ v[k] > k)}
<1>4. 0 \in S
  BY <1>1
<1>5. ASSUME NEW k \in Nat, k \in S PROVE k + 1 \in S
  <2> SUFFICES ASSUME k + 1 <= n
               PROVE  v[k + 1] \in Nat \ {0} /\ (v[k + 1] >= n \/ v[k + 1] > k + 1)
    OBVIOUS
  <2>1. k + 1 \in 1..n /\ (k + 1) - 1 = k /\ v[k] \in Nat \ {0} /\ (v[k] >= n \/ v[k] > k)
    BY <1>5
  <2>2. v[k + 1] = IF v[k] < n THEN 2 * v[k] ELSE v[k]
    BY <1>1, <1>3, <2>1 DEF Doubled
  <2>3. QED BY <2>1, <2>2
<1>6. Nat \subseteq S
  <2> HIDE DEF S
  <2>1. QED BY <1>4, <1>5, Retaining!SetInduction
<1>7. v[n] \in Nat /\ v[n] >= n
  BY <1>6
<1>8. QED BY <1>1, <1>2, <1>7

\* A sequence of so many.
LEMMA LengthIs ==
    ASSUME NEW n \in Nat, NEW f, f = [w \in 1..n |-> f[w]]
    PROVE  Len(f) = n /\ DOMAIN f = 1..n /\ (n # 0 => f # <<>>)
<1> DEFINE X == {f[w] : w \in 1..n}
<1>1. f \in [1..n -> X]
  OBVIOUS
<1> HIDE DEF X
<1>2. f \in Seq(X) /\ Len(f) = n
  BY <1>1
<1>3. QED BY <1>1, <1>2, EmptySeq

\* Workers are unbound, or as many as they are.
BoundAs(places, bound, n) == bound = <<>> \/ (bound \in Seq(places) /\ Len(bound) = n)

\* Every worker has a node, its own or the first.
LEMMA WorkerNodesAre ==
    ASSUME NEW n \in Nat \ {0}, NEW places, NEW bound, BoundAs(places, bound, n)
    PROVE  /\ Len(WorkerNodes(bound, n)) = n /\ DOMAIN WorkerNodes(bound, n) = 1..n
           /\ bound # <<>> => DOMAIN bound = 1..n
<1>1. CASE bound = <<>>
  <2> DEFINE f == [w \in 1..n |-> 1]
  <2>1. f = [w \in 1..n |-> f[w]]
    OBVIOUS
  <2> HIDE DEF f
  <2>2. Len(f) = n /\ DOMAIN f = 1..n
    BY <2>1, LengthIs
  <2>3. WorkerNodes(bound, n) = f
    BY <1>1 DEF WorkerNodes, f
  <2>4. QED BY <1>1, <2>2, <2>3
<1>2. CASE bound # <<>>
  <2>1. bound \in Seq(places) /\ Len(bound) = n /\ DOMAIN bound = 1..n
    BY <1>2 DEF BoundAs
  <2>2. WorkerNodes(bound, n) = bound
    BY <1>2 DEF WorkerNodes
  <2>3. QED BY <2>1, <2>2
<1>3. QED BY <1>1, <1>2

\* Two workers share a table exactly when they are on one node, and it has room.
SharedFor(nodeOf, tablesOf, n) ==
    /\ Len(tablesOf) = n
    /\ \A v, w \in 1..n : (tablesOf[v] = tablesOf[w]) <=> (nodeOf[v] = nodeOf[w])
    /\ \A w \in 1..n :
          tablesOf[w].threads >= Cardinality({v \in 1..n : nodeOf[v] = nodeOf[w]})

\* The tables that are built are shared by node and have room for their workers.
LEMMA SharedBuilt ==
    ASSUME NEW n \in Nat \ {0}, NEW places, NEW bound, BoundAs(places, bound, n), NEW g
    PROVE  SharedFor(WorkerNodes(bound, n), BuildWorkerShared(bound, n, g), n)
<1> DEFINE at == WorkerNodes(bound, n)
           count(x) == Cardinality({w \in 1..n : at[w] = x})
           built == BuildWorkerShared(bound, n, g)
<1>1. Len(at) = n /\ DOMAIN at = 1..n
  BY WorkerNodesAre
<1>2. built = [w \in 1..n |-> [generation |-> g, node |-> at[w], threads |-> NextPowerOfTwo(count(at[w]))]]
  BY <1>1 DEF BuildWorkerShared
<1>3. \A x : count(x) \in Nat /\ NextPowerOfTwo(count(x)) >= count(x)
  <2> SUFFICES ASSUME NEW x PROVE count(x) \in Nat /\ NextPowerOfTwo(count(x)) >= count(x)
    OBVIOUS
  <2> DEFINE there == {w \in 1..n : at[w] = x}
  <2>1. there \subseteq 1..n
    OBVIOUS
  <2>2. IsFiniteSet(1..n)
    BY FS_Interval
  <2>3. IsFiniteSet(there)
    <3> HIDE DEF there
    <3>1. QED BY <2>1, <2>2, FS_Subset
  <2> HIDE DEF there
  <2>4. Cardinality(there) \in Nat
    BY <2>3, FS_CardinalityType
  <2>5. NextPowerOfTwo(Cardinality(there)) >= Cardinality(there)
    BY <2>4, PowerReaches
  <2>6. QED BY <2>4, <2>5 DEF there
<1> HIDE DEF at, built
<1>4. Len(built) = n
  <2>1. built = [w \in 1..n |-> built[w]]
    BY <1>2
  <2>2. QED BY <2>1, LengthIs
<1>5. \A w \in 1..n : /\ built[w].node = at[w] /\ built[w].threads = NextPowerOfTwo(count(at[w]))
                      /\ built[w] = [generation |-> g, node |-> at[w], threads |-> NextPowerOfTwo(count(at[w]))]
  BY <1>2
<1>6. ASSUME NEW v \in 1..n, NEW w \in 1..n PROVE (built[v] = built[w]) <=> (at[v] = at[w])
  <2>1. ASSUME at[v] = at[w] PROVE built[v] = built[w]
    <3> DEFINE made(x) == [generation |-> g, node |-> x, threads |-> NextPowerOfTwo(count(x))]
    <3>1. built[v] = made(at[v]) /\ built[w] = made(at[w])
      BY <1>5
    <3>2. made(at[v]) = made(at[w])
      BY <2>1
    <3> HIDE DEF made
    <3>3. QED BY <3>1, <3>2
  <2>2. ASSUME built[v] = built[w] PROVE at[v] = at[w]
    BY <1>5, <2>2
  <2>3. QED BY <2>1, <2>2
<1>7. \A w \in 1..n : built[w].threads >= count(at[w])
  BY <1>3, <1>5
<1>8. SharedFor(at, built, n)
  BY <1>4, <1>6, <1>7 DEF SharedFor
<1>9. QED BY <1>8 DEF at, built

----------------------------------------------------------------------------
(* The set-up: the networks.                                               *)

\* What was read, with its replicas.
IsEval(ev) ==
    /\ DOMAIN ev = {"dir", "replicas"}
    /\ \A r \in ev.replicas : r.dir = ev.dir

\* Every worker reads the network there is, where the layout says.
NetworksFor(ev, networks, config, bound, n) ==
    /\ Len(networks) = n
    /\ \A w \in 1..n :
          /\ networks[w].dir = ev.dir
          /\ IF bound # <<>> /\ RequiresMemoryReplication(config)
             THEN networks[w].node = SystemNodeOf(config, bound[w], machine)
             ELSE networks[w].node = 0

\* Resolved over whatever replicas there were, every worker has the network on the
\* node its thread is bound to.
LEMMA NetworksResolved ==
    ASSUME NEW n \in Nat \ {0}, NEW places, NEW bound, BoundAs(places, bound, n), NEW config,
           NEW ev, IsEval(ev)
    PROVE  LET built == ResolveWorkerNetworks(config, bound, ev, n)
               with == [ev EXCEPT !.replicas = built.replicas]
           IN  IsEval(with) /\ NetworksFor(with, built.networks, config, bound, n)
<1> DEFINE built == ResolveWorkerNetworks(config, bound, ev, n)
           with == [ev EXCEPT !.replicas = built.replicas]
<1>1. DOMAIN with = {"dir", "replicas"} /\ with.dir = ev.dir /\ with.replicas = built.replicas
  BY DEF IsEval
<1>2. CASE ~(bound # <<>> /\ RequiresMemoryReplication(config))
  <2> DEFINE f == [w \in 1..n |-> [dir |-> ev.dir, node |-> 0]]
  <2>1. built = [replicas |-> {}, networks |-> f]
    BY <1>2 DEF ResolveWorkerNetworks
  <2>2. f = [w \in 1..n |-> f[w]] /\ \A w \in 1..n : f[w].dir = ev.dir /\ f[w].node = 0
    OBVIOUS
  <2> HIDE DEF f
  <2>3. Len(f) = n
    BY <2>2, LengthIs
  <2>4. built.replicas = {} /\ built.networks = f
    BY <2>1
  <2> HIDE DEF built, with
  <2>5. IsEval(with)
    BY <1>1, <2>4 DEF IsEval
  <2>6. NetworksFor(with, built.networks, config, bound, n)
    BY <1>1, <1>2, <2>2, <2>3, <2>4 DEF NetworksFor
  <2>7. QED BY <2>5, <2>6 DEF built, with
<1>3. CASE bound # <<>> /\ RequiresMemoryReplication(config)
  <2> DEFINE sys == [w \in DOMAIN bound |-> SystemNodeOf(config, bound[w], machine)]
             kept == {r \in ev.replicas : r.node \in Range(sys)}
             added == {[dir |-> ev.dir, node |-> s] : s \in Range(sys) \ {r.node : r \in kept}}
             all == kept \cup added
             f == [w \in DOMAIN bound |-> CHOOSE r \in all : r.node = sys[w]]
  <2>1. built = [replicas |-> all, networks |-> f]
    BY <1>3 DEF ResolveWorkerNetworks
  <2>2. DOMAIN bound = 1..n
    BY <1>3, WorkerNodesAre
  <2>3. \A w \in 1..n : sys[w] = SystemNodeOf(config, bound[w], machine) /\ sys[w] \in Range(sys)
    BY <2>2 DEF Range
  <2> HIDE DEF sys
  <2>4. \A r \in all : r.dir = ev.dir
    BY DEF IsEval
  <2>5. \A w \in 1..n : \E r \in all : r.node = sys[w]
    <3> SUFFICES ASSUME NEW w \in 1..n PROVE \E r \in all : r.node = sys[w]
      OBVIOUS
    <3>1. CASE sys[w] \in {r.node : r \in kept}
      BY <3>1
    <3>2. CASE sys[w] \notin {r.node : r \in kept}
      <4>1. [dir |-> ev.dir, node |-> sys[w]] \in added
        BY <2>3, <3>2
      <4>2. [dir |-> ev.dir, node |-> sys[w]].node = sys[w]
        OBVIOUS
      <4>3. QED BY <4>1, <4>2
    <3>3. QED BY <3>1, <3>2
  <2> HIDE DEF kept, added
  <2>6. \A w \in 1..n : f[w] \in all /\ f[w].node = sys[w]
    <3> SUFFICES ASSUME NEW w \in 1..n PROVE f[w] \in all /\ f[w].node = sys[w]
      OBVIOUS
    <3>1. f[w] = CHOOSE r \in all : r.node = sys[w]
      BY <2>2
    <3> HIDE DEF f, all
    <3>2. QED BY <2>5, <3>1
  <2>7. f = [w \in 1..n |-> f[w]]
    BY <2>2
  <2> HIDE DEF f, all
  <2>8. Len(f) = n
    BY <2>7, LengthIs
  <2>9. built.replicas = all /\ built.networks = f
    BY <2>1
  <2> HIDE DEF built, with
  <2>10. IsEval(with)
    BY <1>1, <2>4, <2>9 DEF IsEval
  <2>11. NetworksFor(with, built.networks, config, bound, n)
    BY <1>1, <1>3, <2>3, <2>4, <2>6, <2>8, <2>9 DEF NetworksFor
  <2>12. QED BY <2>10, <2>11 DEF built, with
<1>4. QED BY <1>2, <1>3

----------------------------------------------------------------------------
(* The set-up: what every command keeps.                                   *)

OptionsOk(opts) ==
    /\ {"Threads", "USI_Hash", "NumaPolicy", "EvalDir"} \subseteq DOMAIN opts
    /\ \A o \in DOMAIN opts : Suits(o, opts[o])

LayoutInv ==
    /\ IsLayout(numaConfig)
    /\ options.NumaPolicy.kind \in {"auto", "system"} => numaConfig = FromSystem(machine, TRUE)

BoundInv == numaBound = <<>> \/ Bound(numaConfig.nodes, numaBound, pool.size)

WorkersInv ==
    /\ pool.size = options.Threads /\ pool.bound = numaBound
    /\ BoundInv
    /\ SharedFor(WorkerNodes(numaBound, pool.size), workerShared, pool.size)

ReturnInv == Returned = <<workerShared[1]>>

NetworksInv ==
    eval # <<>> =>
        /\ IsEval(eval[1])
        /\ NetworksFor(eval[1], workerNetworks, numaConfig, numaBound, pool.size)

SizeInv == ttSize \in {0, options.USI_Hash} /\ (eval # <<>> => ttSize # 0)

\* A search that runs has what there is, and an isready has waited for it.
LentInv ==
    search # <<>> =>
        /\ isready = "idle"
        /\ search.shared = workerShared /\ search.networks = workerNetworks
        /\ search.size = pool.size /\ search.tt = ttSize

\* The stages of an isready.
ReadingStages == {"engine options", "eval options"}
ReadyInv ==
    /\ isready \in ReadingStages \cup {"idle", "loading", "ready", "load failed"}
    /\ isready \in ReadingStages \cup {"idle"} => keepAlive.state = "gone"
    /\ isready = "idle" => lastLine # "newline"
    /\ IsFile(overrides) /\ (overrides # <<>> => isready \in ReadingStages)

EngineInv ==
    /\ machine \in Machines /\ OptionsOk(options)
    /\ LayoutInv /\ WorkersInv /\ ReturnInv /\ NetworksInv /\ SizeInv
    /\ LentInv /\ ReadyInv

\* It is what the property needs.
LEMMA EngineInvEnough ==
    ASSUME DetectionRight, EngineInv
    PROVE  SetupSound
<1>1. options.Threads \in Nat \ {0} /\ options.USI_Hash \in Nat \ {0} /\ IsPolicy(options.NumaPolicy)
  BY DEF EngineInv, OptionsOk, Suits
<1>2. LayoutRight
  <2>1. IsLayout(numaConfig)
    BY DEF EngineInv, LayoutInv
  <2>2. ASSUME options.NumaPolicy.kind \in {"auto", "system"}
        PROVE  /\ Cpus(numaConfig) \subseteq machine.allowed
               /\ \A n \in DOMAIN numaConfig.nodes : \E s \in Range(SystemNodes(machine, TRUE)) :
                     numaConfig.nodes[n] \subseteq s
    <3>1. numaConfig = FromSystem(machine, TRUE) /\ machine \in Machines
      BY <2>2 DEF EngineInv, LayoutInv
    <3>2. Usable(machine, TRUE) = machine.allowed
      BY DEF Usable
    <3>3. QED BY <3>1, <3>2 DEF DetectionRight
  <2>3. QED BY <2>1, <2>2 DEF LayoutRight, IsLayout
<1>3. BindingBalanced
  BY DEF EngineInv, WorkersInv, BoundInv, Bound, On, BindingBalanced
<1>4. BoundAs(DOMAIN numaConfig.nodes, numaBound, pool.size) /\ pool.size \in Nat \ {0}
  BY <1>1 DEF EngineInv, WorkersInv, BoundInv, Bound, BoundAs
<1>5. Len(WorkerNodes(numaBound, pool.size)) = pool.size
  BY <1>4, WorkerNodesAre
<1>6. WorkersAgree
  BY <1>5 DEF EngineInv, WorkersInv, ReturnInv, SharedFor, WorkersAgree
<1>7. NetworksAgree
  BY DEF EngineInv, NetworksInv, NetworksFor, SizeInv, NetworksAgree
<1>8. QED BY <1>2, <1>3, <1>6, <1>7
          DEF EngineInv, SizeInv, LentInv, ReadyInv, ReadingStages, SetupSound, Attending

\* A request changes one option, to a value it may have.
LEMMA SetValueIs ==
    ASSUME OptionsOk(options), NEW req, IsRequest(req)
    PROVE  /\ OptionsOk(SetValue(req)) /\ DOMAIN SetValue(req) = DOMAIN options
           /\ \A o \in DOMAIN options : o # req.option => SetValue(req)[o] = options[o]
           /\ ~req.valid => SetValue(req) = options
<1>1. CASE req.option \in fixed \/ ~req.valid
  BY <1>1 DEF SetValue
<1>2. CASE ~(req.option \in fixed \/ ~req.valid)
  <2> DEFINE opts == [options EXCEPT ![req.option] = req.value]
  <2>1. SetValue(req) = opts
    BY <1>2 DEF SetValue
  <2>2. DOMAIN opts = DOMAIN options /\ \A o \in DOMAIN options : o # req.option => opts[o] = options[o]
    OBVIOUS
  <2>3. req.option \in DOMAIN options => opts[req.option] = req.value
    OBVIOUS
  <2>4. Suits(req.option, req.value)
    BY <1>2 DEF IsRequest
  <2> HIDE DEF opts
  <2>5. OptionsOk(opts)
    <3>1. ASSUME NEW o \in DOMAIN opts PROVE Suits(o, opts[o])
      <4>1. CASE o = req.option
        BY <2>2, <2>3, <2>4, <4>1
      <4>2. CASE o # req.option
        BY <2>2, <4>2 DEF OptionsOk
      <4>3. QED BY <4>1, <4>2
    <3>2. QED BY <2>2, <3>1 DEF OptionsOk
  <2>6. QED BY <1>2, <2>1, <2>2, <2>5
<1>3. QED BY <1>1, <1>2

\* Rebuilt workers, tables and networks are those the options ask for.
LEMMA Rebuilt ==
    ASSUME machine' = machine, NEW config, IsLayout(config), OptionsOk(options'),
           eval # <<>> => IsEval(eval[1]), RebuildPool(config, options'), search' = <<>>
    PROVE  /\ numaConfig' = config /\ WorkersInv' /\ ReturnInv' /\ NetworksInv'
           /\ eval' # <<>> => eval # <<>>
<1> DEFINE n == options'.Threads
           bound == Binding(config, options'.NumaPolicy, n)
<1>1. n \in Nat \ {0}
  BY DEF OptionsOk, Suits
<1>2. bound = <<>> \/ Bound(config.nodes, bound, n)
  BY <1>1, BindingIs
<1>3. BoundAs(DOMAIN config.nodes, bound, n)
  BY <1>2 DEF Bound, BoundAs
<1>4. /\ numaConfig' = config /\ numaBound' = bound
      /\ workerShared' = BuildWorkerShared(bound, n, 1 - workerShared[1].generation)
      /\ histories' = <<workerShared'[1]>>
      /\ pool' = [size |-> n, bound |-> bound]
      /\ RebuildNetworks(config, bound, eval, n)
  BY DEF RebuildPool
<1>5. pool'.size = n /\ pool'.bound = bound
  BY <1>4
<1> HIDE DEF n, bound
<1>6. SharedFor(WorkerNodes(bound, n), workerShared', n)
  BY <1>1, <1>3, <1>4, SharedBuilt
<1>7. WorkersInv'
  BY <1>2, <1>4, <1>5, <1>6 DEF WorkersInv, BoundInv, n
<1>8. ReturnInv'
  BY <1>4 DEF ReturnInv, Returned
<1>9. NetworksInv' /\ (eval' # <<>> => eval # <<>>)
  <2>1. CASE eval = <<>>
    BY <1>4, <2>1 DEF RebuildNetworks, NetworksInv
  <2>2. CASE eval # <<>>
    <3> DEFINE ev == eval[1]
               built == ResolveWorkerNetworks(config, bound, ev, n)
               with == [ev EXCEPT !.replicas = built.replicas]
    <3>1. eval' = <<with>> /\ workerNetworks' = built.networks
      BY <1>4, <2>2 DEF RebuildNetworks
    <3>2. IsEval(with) /\ NetworksFor(with, built.networks, config, bound, n)
      BY <1>1, <1>3, <2>2, NetworksResolved
    <3> HIDE DEF built, with
    <3>3. eval'[1] = with
      BY <3>1
    <3>4. NetworksFor(eval'[1], workerNetworks', numaConfig', numaBound', pool'.size)
      BY <1>4, <1>5, <3>1, <3>2, <3>3
    <3>5. NetworksFor(eval[1], workerNetworks, numaConfig, numaBound, pool.size)'
      BY <3>4 DEF NetworksFor
    <3>6. QED BY <2>2, <3>2, <3>3, <3>5 DEF NetworksInv, IsEval
  <2>3. QED BY <2>1, <2>2
<1>10. QED BY <1>4, <1>7, <1>8, <1>9

\* The engine starts with it.
LEMMA EngineInvInit ==
    ASSUME DetectionRight, SetupInit
    PROVE  EngineInv
<1> DEFINE config == FromSystem(machine, TRUE)
           n == Declared.Threads
           bound == Binding(config, Declared.NumaPolicy, n)
<1>1. machine \in Machines /\ OptionsOk(options) /\ options = Declared
  BY OptionsAssumption DEF SetupInit, OptionsOk
<1>2. n \in Nat \ {0} /\ IsPolicy(Declared.NumaPolicy) /\ Declared.NumaPolicy.kind = "auto"
  BY OptionsAssumption DEF Suits
<1>3. ConfigFromPolicy(Declared.NumaPolicy) = <<config>>
  BY <1>1, <1>2, PolicyLayout
<1>4. IsLayout(config)
  BY <1>1 DEF DetectionRight
<1> HIDE DEF config
<1>5. numaConfig = config /\ numaBound = bound
  BY <1>3 DEF SetupInit
<1>6. workerShared = BuildWorkerShared(bound, n, 0) /\ pool.size = n /\ pool.bound = bound
  BY <1>5 DEF SetupInit
<1> HIDE DEF n
<1>7. bound = <<>> \/ Bound(config.nodes, bound, n)
  BY <1>2, <1>4, BindingIs
<1> HIDE DEF bound
<1>8. BoundAs(DOMAIN config.nodes, bound, n)
  BY <1>7 DEF Bound, BoundAs
<1>9. SharedFor(WorkerNodes(bound, n), workerShared, n)
  BY <1>2, <1>6, <1>8, SharedBuilt
<1>10. LayoutInv
  BY <1>4, <1>5 DEF LayoutInv, config
<1>11. WorkersInv
  BY <1>1, <1>5, <1>6, <1>7, <1>9 DEF WorkersInv, BoundInv, n
<1>12. eval = <<>> /\ search = <<>> /\ ttSize = 0 /\ histories = <<workerShared[1]>>
  BY DEF SetupInit
<1>13. IsFile(<<>>)
  <2>1. Len(<<>>) = 0 /\ <<>> = [i \in 1..0 |-> <<>>[i]] /\ DOMAIN <<>> = {}
    OBVIOUS
  <2>2. QED BY <2>1 DEF IsFile
<1>14. ReadyInv
  BY <1>13 DEF SetupInit, ReadyInv, ReadingStages
<1>15. QED BY <1>1, <1>10, <1>11, <1>12, <1>14
           DEF EngineInv, ReturnInv, Returned, NetworksInv, SizeInv, LentInv

\* What hands the tables back and changes nothing else of them.
LEMMA HandedBack ==
    ASSUME ReturnInv, search' = <<>>, histories' = Returned, workerShared' = workerShared
    PROVE  ReturnInv'
BY DEF ReturnInv, Returned

\* Layout, workers and networks are left alone.
TablesSame ==
    /\ numaConfig' = numaConfig /\ numaBound' = numaBound /\ workerShared' = workerShared
    /\ workerNetworks' = workerNetworks /\ eval' = eval /\ pool' = pool /\ machine' = machine

\* What leaves layout, workers and networks alone, keeps what is known of them.
LEMMA SameTables ==
    ASSUME WorkersInv, NetworksInv, TablesSame, options'.Threads = options.Threads
    PROVE  WorkersInv' /\ NetworksInv'
<1>1. WorkersInv'
  BY DEF WorkersInv, BoundInv, TablesSame
<1>2. NetworksInv'
  BY DEF NetworksInv, NetworksFor, TablesSame
<1>3. QED BY <1>1, <1>2

\* A command, while no isready is at work, starts none and leaves the keep-alive be.
LEMMA CommandKeepsReady ==
    ASSUME ReadyInv, Attending, UNCHANGED ready, search' = <<>> \/ isready = "idle"
    PROVE  ReadyInv' /\ isready' = "idle"
BY DEF ReadyInv, Attending, ready

\* Another number of threads rebuilds the workers on the layout there is.
LEMMA SetThreadsKeeps ==
    ASSUME EngineInv, Attending, UNCHANGED <<machine, fixed, ready>>, NEW req, IsRequest(req),
           SetThreads(req)
    PROVE  EngineInv'
<1>1. /\ req.option = "Threads" /\ options' = SetValue(req) /\ search' = <<>>
      /\ RebuildPool(numaConfig, options') /\ ttSize' = ttSize /\ machine' = machine
  BY DEF SetThreads, FinishSearchJoin
<1>2. OptionsOk(options) /\ ReadyInv /\ IsLayout(numaConfig)
  BY DEF EngineInv, LayoutInv
<1>3. OptionsOk(options') /\ options'.NumaPolicy = options.NumaPolicy /\ options'.USI_Hash = options.USI_Hash
  BY <1>1, <1>2, SetValueIs DEF OptionsOk
<1>4. eval # <<>> => IsEval(eval[1])
  BY DEF EngineInv, NetworksInv
<1>5. /\ numaConfig' = numaConfig /\ WorkersInv' /\ ReturnInv' /\ NetworksInv'
      /\ eval' # <<>> => eval # <<>>
  BY <1>1, <1>2, <1>3, <1>4, Rebuilt
<1>6. LayoutInv'
  BY <1>1, <1>3, <1>5 DEF EngineInv, LayoutInv
<1>7. SizeInv'
  BY <1>1, <1>3, <1>5 DEF EngineInv, SizeInv
<1>8. LentInv' /\ ReadyInv'
  BY <1>1, <1>2, CommandKeepsReady DEF LentInv
<1>9. QED BY <1>1, <1>3, <1>5, <1>6, <1>7, <1>8 DEF EngineInv

\* Another size of the transposition table leaves the workers as they are.
LEMMA SetHashKeeps ==
    ASSUME EngineInv, Attending, UNCHANGED <<machine, fixed, ready>>, NEW req, IsRequest(req),
           SetHash(req)
    PROVE  EngineInv'
<1>1. /\ req.option = "USI_Hash" /\ options' = SetValue(req) /\ search' = <<>>
      /\ histories' = Returned /\ ttSize' = options'.USI_Hash /\ TablesSame
  BY DEF SetHash, FinishSearchJoin, TablesSame
<1>2. OptionsOk(options) /\ ReadyInv
  BY DEF EngineInv
<1>3. OptionsOk(options') /\ options'.NumaPolicy = options.NumaPolicy /\ options'.Threads = options.Threads
  BY <1>1, <1>2, SetValueIs DEF OptionsOk
<1>4. WorkersInv' /\ NetworksInv'
  BY <1>1, <1>3, SameTables DEF EngineInv
<1>5. ReturnInv'
  BY <1>1, HandedBack DEF EngineInv, TablesSame
<1>6. LayoutInv'
  BY <1>1, <1>3 DEF EngineInv, LayoutInv, TablesSame
<1>7. SizeInv'
  <2>1. options'.USI_Hash \in Nat \ {0}
    BY <1>3 DEF OptionsOk, Suits
  <2>2. QED BY <1>1, <2>1 DEF SizeInv
<1>8. LentInv' /\ ReadyInv'
  BY <1>1, <1>2, CommandKeepsReady DEF LentInv
<1>9. machine' \in Machines
  BY <1>1 DEF EngineInv, TablesSame
<1>10. QED BY <1>3, <1>4, <1>5, <1>6, <1>7, <1>8, <1>9 DEF EngineInv

\* Another policy rebuilds the workers on its layout, or ends the process.
LEMMA SetNumaPolicyKeeps ==
    ASSUME DetectionRight, EngineInv, Attending, UNCHANGED <<machine, fixed, ready>>,
           NEW req, IsRequest(req), SetNumaPolicy(req)
    PROVE  EngineInv'
<1> DEFINE policy == options'.NumaPolicy
           found == ConfigFromPolicy(policy)
<1>1. /\ req.option = "NumaPolicy" /\ options' = SetValue(req) /\ search' = <<>>
      /\ ttSize' = ttSize /\ machine' = machine
  BY DEF SetNumaPolicy, FinishSearchJoin
<1>2. OptionsOk(options) /\ ReadyInv /\ machine \in Machines
  BY DEF EngineInv
<1>3. OptionsOk(options') /\ options'.Threads = options.Threads /\ options'.USI_Hash = options.USI_Hash
  BY <1>1, <1>2, SetValueIs DEF OptionsOk
<1>4. IsPolicy(policy)
  BY <1>3 DEF OptionsOk, Suits
<1>5. /\ \/ found = <<>> /\ policy.kind = "custom"
         \/ \E cfg : found = <<cfg>> /\ IsLayout(cfg)
      /\ policy.kind \in {"auto", "system"} => found = <<FromSystem(machine, TRUE)>>
  BY <1>2, <1>4, PolicyLayout
<1>6. \/ found # <<>> /\ RebuildPool(found[1], options')
      \/ found = <<>> /\ histories' = Returned /\ TablesSame
  BY <1>1 DEF SetNumaPolicy, TablesSame
<1> HIDE DEF found
<1>7. LentInv' /\ ReadyInv'
  BY <1>1, <1>2, CommandKeepsReady DEF LentInv
<1>8. CASE found # <<>>
  <2>1. PICK cfg : found = <<cfg>> /\ IsLayout(cfg)
    BY <1>5, <1>8
  <2>2. found[1] = cfg
    BY <2>1
  <2>3. RebuildPool(cfg, options')
    BY <1>6, <1>8, <2>2
  <2>4. eval # <<>> => IsEval(eval[1])
    BY DEF EngineInv, NetworksInv
  <2>5. /\ numaConfig' = cfg /\ WorkersInv' /\ ReturnInv' /\ NetworksInv'
        /\ eval' # <<>> => eval # <<>>
    BY <1>1, <1>3, <2>1, <2>3, <2>4, Rebuilt
  <2>6. LayoutInv'
    <3>1. policy.kind \in {"auto", "system"} => cfg = FromSystem(machine, TRUE)
      BY <1>5, <2>1, <2>2
    <3>2. QED BY <1>1, <2>1, <2>5, <3>1 DEF LayoutInv
  <2>7. SizeInv'
    BY <1>1, <1>3, <2>5 DEF EngineInv, SizeInv
  <2>8. QED BY <1>1, <1>2, <1>3, <1>7, <2>5, <2>6, <2>7 DEF EngineInv
<1>9. CASE found = <<>>
  <2>1. histories' = Returned /\ TablesSame
    BY <1>6, <1>9
  <2>2. WorkersInv' /\ NetworksInv'
    BY <1>3, <2>1, SameTables DEF EngineInv
  <2>3. ReturnInv'
    BY <1>1, <2>1, HandedBack DEF EngineInv, TablesSame
  <2>4. LayoutInv'
    <3>1. ~(policy.kind \in {"auto", "system"})
      BY <1>5, <1>9
    <3>2. QED BY <2>1, <3>1 DEF EngineInv, LayoutInv, TablesSame
  <2>5. SizeInv'
    BY <1>1, <1>3, <2>1 DEF EngineInv, SizeInv, TablesSame
  <2>6. QED BY <1>1, <1>2, <1>3, <1>7, <2>2, <2>3, <2>4, <2>5 DEF EngineInv
<1>10. QED BY <1>8, <1>9

\* An option that sets up nothing, or one that is refused, changes none of those that do.
LEMMA SetOtherKeeps ==
    ASSUME EngineInv, Attending, UNCHANGED <<machine, fixed, ready>>, NEW req, IsRequest(req),
           SetOther(req)
    PROVE  EngineInv'
<1>1. /\ req.option # "NumaPolicy" \/ req.spelled = "unknown"
      /\ \/ req.option \notin {"Threads", "USI_Hash", "NumaPolicy"}
         \/ req.spelled # "exact"
         \/ ~req.valid /\ req.option \notin fixed
      /\ options' = IF req.spelled = "exact" THEN SetValue(req) ELSE options
      /\ TablesSame /\ histories' = histories /\ search' = search /\ ttSize' = ttSize
  BY DEF SetOther, TablesSame, tables
<1>2. OptionsOk(options) /\ ReadyInv
  BY DEF EngineInv
<1>3. /\ OptionsOk(options') /\ options'.Threads = options.Threads
      /\ options'.USI_Hash = options.USI_Hash /\ options'.NumaPolicy = options.NumaPolicy
  <2>1. CASE options' = options
    BY <1>2, <2>1
  <2>2. CASE options' # options
    <3>1. req.spelled = "exact" /\ options' = SetValue(req)
      BY <1>1, <2>2
    <3>2. req.valid
      BY <1>2, <2>2, <3>1, SetValueIs
    <3>3. req.option \notin {"Threads", "USI_Hash", "NumaPolicy"}
      BY <1>1, <3>1, <3>2
    <3>4. QED BY <1>2, <3>1, <3>3, SetValueIs DEF OptionsOk
  <2>3. QED BY <2>1, <2>2
<1>4. WorkersInv' /\ NetworksInv'
  BY <1>1, <1>3, SameTables DEF EngineInv
<1>5. ReturnInv'
  BY <1>1 DEF EngineInv, ReturnInv, Returned, TablesSame
<1>6. LayoutInv'
  BY <1>1, <1>3 DEF EngineInv, LayoutInv, TablesSame
<1>7. SizeInv'
  BY <1>1, <1>3 DEF EngineInv, SizeInv, TablesSame
<1>8. LentInv'
  BY <1>1 DEF EngineInv, LentInv, TablesSame, ready
<1>9. ReadyInv'
  BY <1>2 DEF ReadyInv, ready
<1>10. machine' \in Machines
  BY <1>1 DEF EngineInv, TablesSame
<1>11. QED BY <1>3, <1>4, <1>5, <1>6, <1>7, <1>8, <1>9, <1>10 DEF EngineInv

\* Every setoption.
LEMMA SetOptionKeeps ==
    ASSUME DetectionRight, EngineInv, SetOption
    PROVE  EngineInv'
<1>1. PICK i \in DOMAIN Requests :
         \/ SetThreads(Requests[i]) \/ SetHash(Requests[i])
         \/ SetNumaPolicy(Requests[i]) \/ SetOther(Requests[i])
  BY DEF SetOption
<1>2. Attending /\ UNCHANGED <<machine, fixed, ready>>
  BY DEF SetOption
<1>3. IsRequest(Requests[i])
  BY OptionsAssumption
<1>4. QED BY <1>1, <1>2, <1>3, SetThreadsKeeps, SetHashKeeps, SetNumaPolicyKeeps, SetOtherKeeps

\* A new game rebuilds what there is.
LEMMA NewGameKeeps ==
    ASSUME EngineInv, UsiNewGame
    PROVE  EngineInv'
<1>1. /\ Attending /\ search' = <<>> /\ RebuildPool(numaConfig, options') /\ machine' = machine
      /\ options' = options /\ ttSize' = ttSize /\ UNCHANGED ready
  BY DEF UsiNewGame, FinishSearchJoin, RebuildPool
<1>2. OptionsOk(options') /\ ReadyInv /\ IsLayout(numaConfig)
  BY <1>1 DEF EngineInv, LayoutInv
<1>3. eval # <<>> => IsEval(eval[1])
  BY DEF EngineInv, NetworksInv
<1>4. /\ numaConfig' = numaConfig /\ WorkersInv' /\ ReturnInv' /\ NetworksInv'
      /\ eval' # <<>> => eval # <<>>
  BY <1>1, <1>2, <1>3, Rebuilt
<1>5. LayoutInv' /\ SizeInv'
  BY <1>1, <1>4 DEF EngineInv, LayoutInv, SizeInv
<1>6. LentInv' /\ ReadyInv'
  BY <1>1, <1>2, CommandKeepsReady DEF LentInv
<1>7. QED BY <1>1, <1>2, <1>4, <1>5, <1>6 DEF EngineInv

\* A search borrows what there is.
LEMMA GoKeeps ==
    ASSUME EngineInv, Go
    PROVE  EngineInv'
<1> DEFINE lent == [histories |-> Returned, shared |-> workerShared, networks |-> workerNetworks,
                    size |-> pool.size, tt |-> ttSize]
<1>1. /\ Attending /\ search' = lent /\ TablesSame /\ options' = options /\ ttSize' = ttSize
      /\ UNCHANGED ready
  BY DEF Go, TablesSame
<1>2. /\ lent.histories = Returned /\ lent.shared = workerShared /\ lent.networks = workerNetworks
      /\ lent.size = pool.size /\ lent.tt = ttSize /\ DOMAIN lent # {}
  OBVIOUS
<1>3. \A x : DOMAIN x # {} => x # <<>>
  <2>1. DOMAIN <<>> = {}
    OBVIOUS
  <2>2. QED BY <2>1
<1> HIDE DEF lent
<1>4. search' # <<>> /\ isready = "idle"
  BY <1>1, <1>2, <1>3 DEF Attending
<1>5. WorkersInv' /\ NetworksInv'
  BY <1>1, SameTables DEF EngineInv
<1>6. ReturnInv'
  BY <1>1, <1>2, <1>4 DEF EngineInv, ReturnInv, Returned, TablesSame
<1>7. LayoutInv' /\ SizeInv'
  BY <1>1 DEF EngineInv, LayoutInv, SizeInv, TablesSame
<1>8. ReadyInv'
  BY <1>1, <1>4, CommandKeepsReady DEF EngineInv
<1>9. LentInv'
  BY <1>1, <1>2, <1>4 DEF LentInv, TablesSame, ready
<1>10. QED BY <1>1, <1>5, <1>6, <1>7, <1>8, <1>9 DEF EngineInv, TablesSame

\* A file is one line after another.
LEMMA FileRead ==
    ASSUME NEW lines, IsFile(lines), lines # <<>>
    PROVE  IsRequest(Head(lines)) /\ IsFile(Tail(lines))
<1> DEFINE n == Len(lines)
           places == {lines[i] : i \in 1..n}
<1>1. n \in Nat /\ lines = [i \in 1..n |-> lines[i]] /\ DOMAIN lines = 1..n
  BY DEF IsFile
<1>2. lines \in Seq(places)
  <2> HIDE DEF n
  <2>1. lines \in [1..n -> places]
    BY <1>1
  <2>2. QED BY <1>1, <2>1
<1>3. n # 0 /\ 1 \in 1..n
  <2> HIDE DEF places
  <2>1. QED BY <1>1, <1>2, EmptySeq
<1>4. Head(lines) = lines[1]
  <2> HIDE DEF places
  <2>1. QED BY <1>2, <1>3
<1>5. IsRequest(Head(lines))
  BY <1>1, <1>3, <1>4 DEF IsFile
<1> DEFINE rest == Tail(lines)
<1>6. /\ rest \in Seq(places) /\ Len(rest) = n - 1 /\ DOMAIN rest = 1..(n - 1)
      /\ \A i \in 1..(n - 1) : rest[i] = lines[i + 1]
  <2> HIDE DEF places
  <2>1. QED BY <1>1, <1>2, <1>3
<1>7. rest = [i \in 1..Len(rest) |-> rest[i]] /\ Len(rest) \in Nat
  <2> HIDE DEF places, rest
  <2>1. QED BY <1>1, <1>3, <1>6
<1>8. \A i \in DOMAIN rest : IsRequest(rest[i])
  <2> HIDE DEF places, rest, n
  <2>1. \A i \in 1..(n - 1) : i + 1 \in 1..n
    BY <1>1
  <2>2. \A i \in 1..n : IsRequest(lines[i])
    BY <1>1 DEF IsFile
  <2>3. QED BY <1>6, <2>1, <2>2
<1> HIDE DEF rest
<1>9. IsFile(rest)
  BY <1>7, <1>8 DEF IsFile
<1>10. QED BY <1>5, <1>9 DEF rest

\* A line of an override file.
LEMMA ApplyOverrideLineKeeps ==
    ASSUME DetectionRight, EngineInv, ApplyOverrideLine
    PROVE  EngineInv'
<1> DEFINE req == Head(overrides)
           policy == options'.NumaPolicy
           found == ConfigFromPolicy(policy)
           known == req.spelled # "unknown"
           config == IF req.option = "NumaPolicy" /\ found # <<>> THEN found[1] ELSE numaConfig
<1>1. /\ overrides # <<>> /\ overrides' = Tail(overrides)
      /\ options' = IF known THEN SetValue(req) ELSE options
      /\ ttSize' = IF req.option = "USI_Hash" /\ known THEN options'.USI_Hash ELSE ttSize
      /\ IF ~known \/ req.option \notin {"Threads", "NumaPolicy"}
         THEN UNCHANGED <<tables, eval>> ELSE RebuildPool(config, options')
      /\ machine' = machine /\ search' = search /\ isready' = isready
      /\ keepAlive' = keepAlive /\ lastLine' = lastLine
  BY DEF ApplyOverrideLine
<1>2. /\ OptionsOk(options) /\ ReadyInv /\ machine \in Machines /\ isready \in ReadingStages
      /\ IsRequest(req) /\ IsFile(overrides')
  <2>1. ReadyInv /\ IsFile(overrides)
    BY DEF EngineInv, ReadyInv
  <2>2. QED BY <1>1, <2>1, FileRead DEF EngineInv, ReadyInv
<1> HIDE DEF req
<1>3. search = <<>> /\ search' = <<>>
  BY <1>1, <1>2 DEF EngineInv, LentInv, ReadingStages
<1>4. LentInv' /\ ReadyInv'
  BY <1>1, <1>2, <1>3 DEF LentInv, ReadyInv
<1>5. /\ OptionsOk(options')
      /\ req.option # "Threads" => options'.Threads = options.Threads
      /\ req.option # "USI_Hash" \/ ~known => options'.USI_Hash = options.USI_Hash
      /\ req.option # "NumaPolicy" \/ ~known => policy = options.NumaPolicy
      /\ ~known => options' = options
  BY <1>1, <1>2, SetValueIs DEF OptionsOk
<1>6. CASE ~known \/ req.option \notin {"Threads", "NumaPolicy"}
  <2>1. TablesSame /\ histories' = histories
    BY <1>1, <1>6 DEF TablesSame, tables
  <2>2. options'.Threads = options.Threads /\ policy = options.NumaPolicy
    BY <1>5, <1>6
  <2>3. WorkersInv' /\ NetworksInv'
    BY <2>1, <2>2, SameTables DEF EngineInv
  <2>4. ReturnInv'
    BY <1>1, <2>1 DEF EngineInv, ReturnInv, Returned, TablesSame
  <2>5. LayoutInv'
    BY <2>1, <2>2 DEF EngineInv, LayoutInv, TablesSame
  <2>6. SizeInv'
    <3>1. options'.USI_Hash \in Nat \ {0}
      BY <1>5 DEF OptionsOk, Suits
    <3>2. QED BY <1>1, <1>5, <2>1, <3>1 DEF EngineInv, SizeInv, TablesSame
  <2>7. QED BY <1>1, <1>2, <1>4, <1>5, <2>3, <2>4, <2>5, <2>6 DEF EngineInv
<1>7. CASE known /\ req.option \in {"Threads", "NumaPolicy"}
  <2>1. RebuildPool(config, options') /\ ttSize' = ttSize /\ options'.USI_Hash = options.USI_Hash
    BY <1>1, <1>5, <1>7
  <2>2. IsPolicy(policy)
    BY <1>5 DEF OptionsOk, Suits
  <2>3. /\ \/ found = <<>> /\ policy.kind = "custom"
           \/ \E cfg : found = <<cfg>> /\ IsLayout(cfg)
        /\ policy.kind \in {"auto", "system"} => found = <<FromSystem(machine, TRUE)>>
    BY <1>2, <2>2, PolicyLayout
  <2> HIDE DEF found
  <2>4. /\ IsLayout(numaConfig)
        /\ options.NumaPolicy.kind \in {"auto", "system"} => numaConfig = FromSystem(machine, TRUE)
    BY DEF EngineInv, LayoutInv
  <2>5. IsLayout(config) /\ (policy.kind \in {"auto", "system"} => config = FromSystem(machine, TRUE))
    <3>1. CASE req.option = "NumaPolicy" /\ found # <<>>
      <4>1. PICK cfg : found = <<cfg>> /\ IsLayout(cfg)
        BY <2>3, <3>1
      <4>2. found[1] = cfg /\ config = cfg
        BY <3>1, <4>1
      <4>3. policy.kind \in {"auto", "system"} => cfg = FromSystem(machine, TRUE)
        BY <2>3, <4>1, <4>2
      <4> HIDE DEF config
      <4>4. QED BY <4>1, <4>2, <4>3
    <3>2. CASE req.option = "NumaPolicy" /\ found = <<>>
      <4>1. ~(policy.kind \in {"auto", "system"})
        BY <2>3, <3>2
      <4>2. config = numaConfig
        BY <3>2
      <4> HIDE DEF config
      <4>3. QED BY <2>4, <4>1, <4>2
    <3>3. CASE req.option # "NumaPolicy"
      <4>1. config = numaConfig /\ policy = options.NumaPolicy
        BY <1>5, <3>3
      <4> HIDE DEF config, policy
      <4>2. QED BY <2>4, <4>1
    <3>4. QED BY <3>1, <3>2, <3>3
  <2>6. eval # <<>> => IsEval(eval[1])
    BY DEF EngineInv, NetworksInv
  <2> HIDE DEF config
  <2>7. /\ numaConfig' = config /\ WorkersInv' /\ ReturnInv' /\ NetworksInv'
        /\ eval' # <<>> => eval # <<>>
    BY <1>1, <1>3, <1>5, <2>1, <2>5, <2>6, Rebuilt
  <2>8. LayoutInv'
    BY <1>1, <2>5, <2>7 DEF LayoutInv
  <2>9. SizeInv'
    BY <2>1, <2>7 DEF EngineInv, SizeInv
  <2>10. QED BY <1>1, <1>2, <1>4, <1>5, <2>7, <2>8, <2>9 DEF EngineInv
<1>8. QED BY <1>6, <1>7

\* Whatever directory is looked in, there is a file or nothing to read.
LEMMA LinesAreFile ==
    ASSUME NEW dir
    PROVE  IsFile(LinesOf(dir))
<1>1. IsFile(<<>>)
  <2>1. Len(<<>>) = 0 /\ <<>> = [i \in 1..0 |-> <<>>[i]] /\ DOMAIN <<>> = {}
    OBVIOUS
  <2>2. QED BY <2>1 DEF IsFile
<1>2. QED BY <1>1, OptionsAssumption DEF LinesOf

\* What only moves an isready on: layout, workers, networks, options and size stay.
LEMMA SameButReady ==
    ASSUME EngineInv, TablesSame, options' = options, ttSize' = ttSize, ReturnInv',
           LentInv', ReadyInv'
    PROVE  EngineInv'
<1>1. WorkersInv' /\ NetworksInv'
  BY SameTables DEF EngineInv
<1>2. LayoutInv' /\ SizeInv'
  BY DEF EngineInv, LayoutInv, SizeInv, TablesSame
<1>3. QED BY <1>1, <1>2 DEF EngineInv, TablesSame

\* An isready waits for the search and opens the first file.
LEMMA IsReadyKeeps ==
    ASSUME EngineInv, IsReady
    PROVE  EngineInv'
<1>1. /\ Attending /\ search' = <<>> /\ histories' = Returned /\ TablesSame
      /\ isready' = "engine options" /\ overrides' = LinesOf("")
      /\ options' = options /\ ttSize' = ttSize /\ keepAlive' = keepAlive
  BY DEF IsReady, FinishSearchJoin, TablesSame
<1>2. ReturnInv'
  BY <1>1, HandedBack DEF EngineInv, TablesSame
<1>3. LentInv'
  BY <1>1 DEF LentInv
<1>4. ReadyInv'
  BY <1>1, LinesAreFile DEF EngineInv, ReadyInv, ReadingStages, Attending
<1>5. QED BY <1>1, <1>2, <1>3, <1>4, SameButReady

\* The second file, the thread, its polls and its end, and the reply: none of them
\* touches what is set up.
LEMMA StagesKeep ==
    ASSUME EngineInv, ReadEvalOptions \/ SpawnKeepAlive \/ KeepAliveTick \/ KeepAliveEnds \/ Reply
    PROVE  EngineInv'
<1>1. /\ TablesSame /\ histories' = histories /\ search' = search
      /\ options' = options /\ ttSize' = ttSize
  BY DEF ReadEvalOptions, SpawnKeepAlive, KeepAliveTick, KeepAliveEnds, Reply, TablesSame, tables
<1>2. ReturnInv'
  BY <1>1 DEF EngineInv, ReturnInv, Returned, TablesSame
<1>3. ReadyInv /\ (search # <<>> => isready = "idle")
  BY DEF EngineInv, LentInv
<1>4. ReadyInv' /\ (search # <<>> => isready' = "idle")
  <2>1. CASE ReadEvalOptions
    BY <1>3, <2>1, LinesAreFile DEF ReadEvalOptions, ReadyInv, ReadingStages
  <2>2. CASE SpawnKeepAlive
    BY <1>3, <2>2 DEF SpawnKeepAlive, ReadyInv, ReadingStages
  <2>3. CASE KeepAliveTick
    BY <1>3, <2>3 DEF KeepAliveTick, ReadyInv, ReadingStages
  <2>4. CASE KeepAliveEnds
    BY <1>3, <2>4 DEF KeepAliveEnds, ReadyInv, ReadingStages
  <2>5. CASE Reply
    BY <1>3, <2>5 DEF Reply, ReadyInv, ReadingStages
  <2>6. QED BY <2>1, <2>2, <2>3, <2>4, <2>5
<1>5. LentInv'
  BY <1>1, <1>4 DEF EngineInv, LentInv, TablesSame
<1>6. QED BY <1>1, <1>2, <1>4, <1>5, SameButReady

\* A network that is loaded finds the table sized and is given to every worker.
LEMMA LoadNetworkKeeps ==
    ASSUME EngineInv, LoadNetwork
    PROVE  EngineInv'
<1> DEFINE same == eval # <<>> /\ eval[1].dir = options.EvalDir
           loads == options.EvalDir \in Networks
           read == [dir |-> options.EvalDir, replicas |-> {}]
           n == pool.size
           built == ResolveWorkerNetworks(numaConfig, numaBound, read, n)
           with == [read EXCEPT !.replicas = built.replicas]
<1>1. /\ isready = "loading" /\ isready' \in {"ready", "load failed"}
      /\ ttSize' = IF ~same /\ loads /\ ttSize = 0 THEN options.USI_Hash ELSE ttSize
      /\ IF ~same /\ loads THEN RebuildNetworks(numaConfig, numaBound, <<read>>, n)
         ELSE UNCHANGED <<eval, workerNetworks>>
      /\ machine' = machine /\ options' = options /\ numaConfig' = numaConfig
      /\ numaBound' = numaBound /\ workerShared' = workerShared /\ histories' = histories
      /\ pool' = pool /\ search' = search /\ overrides' = overrides
  BY DEF LoadNetwork
<1> HIDE DEF same, loads
<1>2. /\ OptionsOk(options) /\ LayoutInv /\ WorkersInv /\ ReturnInv /\ NetworksInv /\ SizeInv
      /\ LentInv /\ ReadyInv /\ machine \in Machines
  BY DEF EngineInv
<1>3. search = <<>> /\ overrides = <<>>
  BY <1>1, <1>2 DEF LentInv, ReadyInv, ReadingStages
<1>4. LentInv' /\ ReadyInv'
  BY <1>1, <1>2, <1>3 DEF LentInv, ReadyInv, ReadingStages
<1>5. WorkersInv' /\ ReturnInv' /\ LayoutInv'
  BY <1>1, <1>2 DEF WorkersInv, BoundInv, ReturnInv, Returned, LayoutInv
<1>6. n \in Nat \ {0} /\ options.USI_Hash \in Nat \ {0}
  BY <1>2 DEF OptionsOk, Suits, WorkersInv
<1>7. CASE ~same /\ loads
  <2>1. BoundAs(DOMAIN numaConfig.nodes, numaBound, n)
    BY <1>2 DEF WorkersInv, BoundInv, Bound, BoundAs
  <2>2. IsEval(read)
    BY DEF IsEval
  <2>3. IsEval(with) /\ NetworksFor(with, built.networks, numaConfig, numaBound, n)
    <3> HIDE DEF n, read
    <3>1. QED BY <1>6, <2>1, <2>2, NetworksResolved
  <2>4. eval' = <<with>> /\ workerNetworks' = built.networks
    <3> HIDE DEF n, read, built
    <3>1. RebuildNetworks(numaConfig, numaBound, <<read>>, n)
      BY <1>1, <1>7
    <3>2. <<read>> # <<>> /\ <<read>>[1] = read
      OBVIOUS
    <3>3. QED BY <3>1, <3>2 DEF RebuildNetworks, built
  <2> HIDE DEF with, built
  <2>5. eval'[1] = with /\ eval' # <<>>
    BY <2>4
  <2>6. NetworksFor(eval'[1], workerNetworks', numaConfig', numaBound', pool'.size)
    BY <1>1, <2>3, <2>4, <2>5
  <2>7. NetworksFor(eval[1], workerNetworks, numaConfig, numaBound, pool.size)'
    BY <1>1, <2>6 DEF NetworksFor
  <2>8. NetworksInv'
    BY <2>3, <2>5, <2>7 DEF NetworksInv, IsEval
  <2>9. SizeInv'
    BY <1>1, <1>2, <1>6, <1>7 DEF SizeInv
  <2>10. QED BY <1>1, <1>2, <1>4, <1>5, <2>8, <2>9 DEF EngineInv
<1>8. CASE ~(~same /\ loads)
  <2>1. TablesSame /\ ttSize' = ttSize
    BY <1>1, <1>8 DEF TablesSame
  <2>2. QED BY <1>1, <1>4, <1>5, <2>1, SameButReady
<1>9. QED BY <1>7, <1>8

\* Every step keeps it.
LEMMA EngineInvNext ==
    ASSUME DetectionRight, EngineInv, [SetupNext]_setupVars
    PROVE  EngineInv'
<1>1. ASSUME SetupNext PROVE EngineInv'
  BY <1>1, SetOptionKeeps, NewGameKeeps, GoKeeps, IsReadyKeeps, ApplyOverrideLineKeeps,
     StagesKeep, LoadNetworkKeeps DEF SetupNext
<1>2. ASSUME UNCHANGED setupVars PROVE EngineInv'
  <2>1. /\ TablesSame /\ histories' = histories /\ search' = search /\ options' = options
        /\ ttSize' = ttSize /\ UNCHANGED ready
    BY <1>2 DEF setupVars, tables, TablesSame
  <2>2. ReturnInv' /\ LentInv' /\ ReadyInv'
    BY <1>2, <2>1 DEF EngineInv, ReturnInv, Returned, LentInv, ReadyInv, TablesSame, ready
  <2>3. QED BY <1>2, <2>1, <2>2, SameButReady
<1>3. QED BY <1>1, <1>2

----------------------------------------------------------------------------
(* The set-up: what is detected.                                           *)

\* One node less.
LEMMA OneNodeLess ==
    ASSUME NEW out, Nodes(out), NEW X, Cover(out, X), out # <<>>
    PROVE  /\ Nodes(Front(out)) /\ Cover(Front(out), X \ Last(out))
           /\ Last(out) \subseteq X /\ Last(out) \in SUBSET Nat /\ Last(out) # {}
           /\ IsFiniteSet(Last(out))
<1> DEFINE less == Front(out)
           m == Len(out)
<1>1. out \in Seq(SUBSET Nat) /\ m \in Nat
  BY DEF Nodes
<1>2. m # 0
  BY <1>1, EmptySeq
<1>3. Last(out) = out[m] /\ out[m] \in SUBSET Nat
  BY <1>1, <1>2 DEF Last
<1>4. /\ less \in Seq(SUBSET Nat) /\ Len(less) = m - 1
      /\ \A i \in 1..(m - 1) : less[i] = out[i]
  <2>1. \A i \in 1..(m - 1) : out[i] \in SUBSET Nat
    BY <1>1
  <2>2. m - 1 \in Nat /\ less = SubSeq(out, 1, m - 1)
    BY <1>1, <1>2 DEF Front
  <2> HIDE DEF less, m
  <2>3. /\ less \in Seq(SUBSET Nat)
        /\ Len(less) = IF 1 <= m - 1 THEN (m - 1) - 1 + 1 ELSE 0
        /\ \A i \in 1..((m - 1) - 1 + 1) : less[i] = out[1 + i - 1]
    BY <2>1, <2>2, SubSeqProperties
  <2>4. (m - 1) - 1 + 1 = m - 1 /\ \A i \in 1..(m - 1) : 1 + i - 1 = i
    BY <2>2
  <2>5. QED BY <2>2, <2>3, <2>4
<1> HIDE DEF less
<1>5. /\ \A i \in 1..m : out[i] # {} /\ IsFiniteSet(out[i])
      /\ \A i, j \in 1..m : i # j => out[i] \cap out[j] = {}
      /\ \A c : c \in X <=> \E i \in 1..m : c \in out[i]
  BY DEF Nodes, Cover
<1>6. /\ \A i \in 1..(m - 1) : i \in 1..m /\ i # m
      /\ \A i \in 1..m : i \in 1..(m - 1) \/ i = m
      /\ m \in 1..m
  BY <1>1, <1>2
<1> HIDE DEF m
<1>7. Nodes(less)
  BY <1>4, <1>5, <1>6 DEF Nodes
<1>8. Cover(less, X \ out[m])
  <2>1. \A c : c \in X \ out[m] => \E i \in 1..(m - 1) : c \in less[i]
    BY <1>4, <1>5, <1>6
  <2>2. \A c : (\E i \in 1..(m - 1) : c \in less[i]) => c \in X \ out[m]
    BY <1>4, <1>5, <1>6
  <2>3. QED BY <1>4, <2>1, <2>2 DEF Cover
<1>9. out[m] \subseteq X /\ out[m] # {} /\ IsFiniteSet(out[m])
  BY <1>5, <1>6
<1>10. QED BY <1>3, <1>7, <1>8, <1>9 DEF less

\* Nodes after nodes.
LEMMA NodesAfter ==
    ASSUME NEW a, Nodes(a), NEW X, Cover(a, X), NEW b, Nodes(b), NEW Y, Cover(b, Y), X \cap Y = {}
    PROVE  LET out == Follow(a, b)
           IN  /\ Nodes(out) /\ Cover(out, X \cup Y)
               /\ \A i \in 1..Len(out) : \/ \E j \in 1..Len(a) : out[i] = a[j]
                                         \/ \E j \in 1..Len(b) : out[i] = b[j]
<1> DEFINE out == Follow(a, b)
           m == Len(a)
           n == Len(b)
<1>1. a \in Seq(SUBSET Nat) /\ b \in Seq(SUBSET Nat) /\ m \in Nat /\ n \in Nat
  BY DEF Nodes
<1>2. /\ out \in Seq(SUBSET Nat) /\ Len(out) = m + n
      /\ \A i \in 1..m : out[i] = a[i]
      /\ \A i \in 1..n : out[m + i] = b[i]
  BY <1>1 DEF Follow
<1> HIDE DEF out
<1>3. /\ \A i \in 1..m : i \in 1..(m + n)
      /\ \A i \in 1..n : m + i \in 1..(m + n)
      /\ \A i \in 1..(m + n) : i \in 1..m \/ (i - m \in 1..n /\ i = m + (i - m))
      /\ \A i, j \in Int : i # j => i - m # j - m
  BY <1>1
<1>4. /\ \A i \in 1..m : a[i] # {} /\ IsFiniteSet(a[i])
      /\ \A i, j \in 1..m : i # j => a[i] \cap a[j] = {}
      /\ \A c : c \in X <=> \E i \in 1..m : c \in a[i]
      /\ \A i \in 1..n : b[i] # {} /\ IsFiniteSet(b[i])
      /\ \A i, j \in 1..n : i # j => b[i] \cap b[j] = {}
      /\ \A c : c \in Y <=> \E i \in 1..n : c \in b[i]
  BY DEF Nodes, Cover
<1>5. \A i \in 1..(m + n) : \/ i \in 1..m /\ out[i] = a[i]
                            \/ i - m \in 1..n /\ out[i] = b[i - m]
  BY <1>2, <1>3
<1>6. \A i \in 1..(m + n) : out[i] # {} /\ IsFiniteSet(out[i])
  BY <1>4, <1>5
<1>7. ASSUME NEW i \in 1..(m + n), NEW j \in 1..(m + n), i # j
      PROVE  out[i] \cap out[j] = {}
  <2>1. CASE i \in 1..m /\ out[i] = a[i]
    <3>1. CASE j \in 1..m /\ out[j] = a[j]
      BY <1>4, <1>7, <2>1, <3>1
    <3>2. CASE j - m \in 1..n /\ out[j] = b[j - m]
      <4>1. a[i] \subseteq X /\ b[j - m] \subseteq Y
        BY <1>4, <2>1, <3>2
      <4>2. QED BY <2>1, <3>2, <4>1
    <3>3. QED BY <1>5, <3>1, <3>2
  <2>2. CASE i - m \in 1..n /\ out[i] = b[i - m]
    <3>1. CASE j \in 1..m /\ out[j] = a[j]
      <4>1. a[j] \subseteq X /\ b[i - m] \subseteq Y
        BY <1>4, <2>2, <3>1
      <4>2. QED BY <2>2, <3>1, <4>1
    <3>2. CASE j - m \in 1..n /\ out[j] = b[j - m]
      <4>1. i - m # j - m
        BY <1>1, <1>7
      <4>2. QED BY <1>4, <2>2, <3>2, <4>1
    <3>3. QED BY <1>5, <3>1, <3>2
  <2>3. QED BY <1>5, <2>1, <2>2
<1>8. Nodes(out)
  BY <1>2, <1>6, <1>7 DEF Nodes
<1>9. Cover(out, X \cup Y)
  <2>1. ASSUME NEW c \in X \cup Y PROVE \E i \in 1..(m + n) : c \in out[i]
    <3>1. CASE c \in X
      BY <1>2, <1>3, <1>4, <3>1
    <3>2. CASE c \in Y
      <4>1. PICK i \in 1..n : c \in b[i]
        BY <1>4, <3>2
      <4>2. m + i \in 1..(m + n) /\ out[m + i] = b[i]
        BY <1>2, <1>3
      <4>3. QED BY <4>1, <4>2
    <3>3. QED BY <3>1, <3>2
  <2>2. \A c : (\E i \in 1..(m + n) : c \in out[i]) => c \in X \cup Y
    BY <1>4, <1>5
  <2>3. QED BY <1>2, <2>1, <2>2 DEF Cover
<1>10. \A i \in 1..Len(out) : (\E j \in 1..m : out[i] = a[j]) \/ (\E j \in 1..n : out[i] = b[j])
  BY <1>2, <1>5
<1>11. QED BY <1>8, <1>9, <1>10 DEF out

Merging == INSTANCE FoldProofs WITH Op <- Merge, Holds <- AnyValue

\* A pass that merges neighbours keeps nodes, and the CPUs they have.
LEMMA PassKeepsNodes ==
    ASSUME NEW sets, Nodes(sets), NEW X, Cover(sets, X)
    PROVE  Nodes(BundlePass(sets)) /\ Cover(BundlePass(sets), X)
<1> DEFINE n == Len(sets)
           base == [out |-> <<>>, open |-> FALSE]
           v == Merging!Values(base, sets, n)
<1>1. n \in Nat /\ DOMAIN sets = 1..n
  BY DEF Nodes
<1>2. /\ \A i \in 1..n : sets[i] \in SUBSET Nat /\ sets[i] # {} /\ IsFiniteSet(sets[i])
      /\ Apart(sets, n) /\ Upto(sets, n) = X
  <2>1. sets \in Seq(SUBSET Nat) /\ \A i \in 1..n : sets[i] # {} /\ IsFiniteSet(sets[i])
    BY DEF Nodes
  <2>2. \A i \in 1..n : sets[i] \in SUBSET Nat
    BY <2>1
  <2>3. Apart(sets, n)
    BY DEF Nodes, Apart
  <2>4. Upto(sets, n) = X
    BY DEF Cover, Upto
  <2>5. QED BY <2>1, <2>2, <2>3, <2>4
<1> HIDE DEF n
<1>3. /\ v[0] = base /\ v[n].out = BundlePass(sets)
      /\ \A k \in 1..n : v[k] = Merge(v[k - 1], sets[k])
  <2> HIDE DEF base
  <2>1. /\ v[0] = base /\ v[n] = Merging!FoldOf(base, sets)
        /\ \A k \in 1..n : v[k] = Merge(v[k - 1], sets[k])
    BY <1>1, Merging!FoldSteps
  <2>2. Merging!FoldOf(base, sets) = FoldLeft(Merge, base, sets)
    BY DEF Merging!FoldOf, FoldLeft, Merging!FoldLeft, MapThenFoldSet,
           Merging!MapThenFoldSet, Max, Merging!Max
  <2>3. FoldLeft(Merge, base, sets).out = BundlePass(sets)
    BY DEF BundlePass, base
  <2>4. QED BY <2>1, <2>2, <2>3
<1>4. base.out = <<>> /\ base.open = FALSE
  OBVIOUS
<1> HIDE DEF v, base
<1> DEFINE Good(s, k) ==
              /\ Nodes(s.out) /\ Cover(s.out, Upto(sets, k))
              /\ s.open => s.out # <<>>
           S == {k \in Nat : k <= n => Good(v[k], k)}
<1>5. 0 \in S
  <2>1. Nodes(<<>>) /\ Cover(<<>>, Upto(sets, 0))
    <3>1. Len(<<>>) = 0 /\ 1..0 = {}
      OBVIOUS
    <3>2. QED BY <3>1, NoNodes, UptoGrows DEF Cover
  <2>2. QED BY <1>3, <1>4, <2>1
<1>6. ASSUME NEW k \in Nat, k \in S PROVE k + 1 \in S
  <2> SUFFICES ASSUME k + 1 <= n PROVE Good(v[k + 1], k + 1)
    OBVIOUS
  <2> DEFINE out == v[k].out
             cpus == sets[k + 1]
             last == Last(out)
             old == Upto(sets, k)
             new == Upto(sets, k + 1)
  <2>1. /\ k + 1 \in 1..n /\ (k + 1) - 1 = k /\ Nodes(out) /\ Cover(out, old)
        /\ v[k].open => out # <<>>
    BY <1>1, <1>6
  <2>2. v[k + 1] = Merge(v[k], cpus)
    BY <1>3, <2>1
  <2>3. /\ new = old \cup cpus /\ cpus \cap old = {}
        /\ cpus \in SUBSET Nat /\ IsFiniteSet(cpus) /\ cpus # {}
    BY <1>1, <1>2, <2>1, UptoGrows, ApartFromBefore
  <2>4. CASE v[k].open /\ Cardinality(last) + Cardinality(cpus) <= BundleSize
    <3> DEFINE more == last \cup cpus
               front == Front(out)
               merged == Append(front, more)
    <3>1. v[k + 1] = [out |-> merged, open |-> FALSE]
      BY <2>2, <2>4 DEF Merge
    <3>2. /\ Nodes(front) /\ Cover(front, old \ last) /\ last \subseteq old
          /\ last \in SUBSET Nat /\ last # {} /\ IsFiniteSet(last)
      BY <2>1, <2>4, OneNodeLess
    <3>3. v[k + 1].out = merged /\ v[k + 1].open = FALSE
      BY <3>1
    <3> HIDE DEF last, cpus, old, new, front
    <3>4. /\ more \in SUBSET Nat /\ more # {} /\ more \cap (old \ last) = {}
          /\ (old \ last) \cup more = new
      BY <2>3, <3>2
    <3>5. IsFiniteSet(more)
      BY <2>3, <3>2, FS_Union
    <3> HIDE DEF more
    <3>6. Nodes(merged) /\ Cover(merged, new)
      BY <3>2, <3>4, <3>5, OneNodeMore
    <3> HIDE DEF merged
    <3>7. QED BY <3>3, <3>6 DEF new
  <2>5. CASE ~(v[k].open /\ Cardinality(last) + Cardinality(cpus) <= BundleSize)
    <3> DEFINE longer == Append(out, cpus)
    <3>1. v[k + 1] = [out |-> longer, open |-> TRUE]
      BY <2>2, <2>5 DEF Merge
    <3>2. v[k + 1].out = longer /\ v[k + 1].open = TRUE
      BY <3>1
    <3> HIDE DEF cpus, old, new, out
    <3>3. Nodes(longer) /\ Cover(longer, old \cup cpus) /\ longer # <<>>
      BY <2>1, <2>3, OneNodeMore
    <3> HIDE DEF longer
    <3>4. Cover(longer, new)
      BY <2>3, <3>3
    <3>5. QED BY <3>2, <3>3, <3>4 DEF new
  <2>6. QED BY <2>4, <2>5
<1>7. Nat \subseteq S
  <2> HIDE DEF S
  <2>1. QED BY <1>5, <1>6, Retaining!SetInduction
<1>7a. n \in S
  <2> HIDE DEF S
  <2>1. QED BY <1>1, <1>7
<1>8. Good(v[n], n)
  BY <1>7a
<1>9. QED BY <1>2, <1>3, <1>8

Repeating == INSTANCE FoldProofs WITH Op <- PassAgain, Holds <- AnyValue

\* So do all the passes.
LEMMA BundlesAreNodes ==
    ASSUME NEW sets, Nodes(sets), NEW X, Cover(sets, X)
    PROVE  Nodes(Bundled(sets)) /\ Cover(Bundled(sets), X)
<1> DEFINE n == Len(sets)
           v == Repeating!Values(sets, sets, n)
<1>1. n \in Nat /\ DOMAIN sets = 1..n
  BY DEF Nodes
<1> HIDE DEF n
<1>2. /\ v[0] = sets /\ v[n] = Bundled(sets)
      /\ \A k \in 1..n : v[k] = PassAgain(v[k - 1], sets[k])
  <2>1. /\ v[0] = sets /\ v[n] = Repeating!FoldOf(sets, sets)
        /\ \A k \in 1..n : v[k] = PassAgain(v[k - 1], sets[k])
    BY <1>1, Repeating!FoldSteps
  <2>2. Repeating!FoldOf(sets, sets) = Bundled(sets)
    BY DEF Repeating!FoldOf, Bundled, FoldLeft, Repeating!FoldLeft, MapThenFoldSet,
           Repeating!MapThenFoldSet, Max, Repeating!Max
  <2>3. QED BY <2>1, <2>2
<1> HIDE DEF v
<1> DEFINE S == {k \in Nat : k <= n => Nodes(v[k]) /\ Cover(v[k], X)}
<1>3. 0 \in S
  BY <1>2
<1>4. ASSUME NEW k \in Nat, k \in S PROVE k + 1 \in S
  <2> SUFFICES ASSUME k + 1 <= n PROVE Nodes(v[k + 1]) /\ Cover(v[k + 1], X)
    OBVIOUS
  <2>1. k + 1 \in 1..n /\ (k + 1) - 1 = k /\ Nodes(v[k]) /\ Cover(v[k], X)
    BY <1>1, <1>4
  <2>2. v[k + 1] = BundlePass(v[k])
    BY <1>2, <2>1 DEF PassAgain
  <2>3. QED BY <2>1, <2>2, PassKeepsNodes
<1>5. Nat \subseteq S
  <2> HIDE DEF S
  <2>1. QED BY <1>3, <1>4, Retaining!SetInduction
<1>6. n \in S
  <2> HIDE DEF S
  <2>1. QED BY <1>1, <1>5
<1>7. Nodes(v[n]) /\ Cover(v[n], X)
  BY <1>6
<1>8. QED BY <1>2, <1>7

Following == INSTANCE FoldProofs WITH Op <- Follow, Holds <- AnyValue

\* Lists of nodes, one after another, are nodes: each in one of the lists.
LEMMA ListsAreNodes ==
    ASSUME NEW n \in Nat, NEW lists, DOMAIN lists = 1..n, NEW parts, Apart(parts, n),
           \A i \in 1..n : Nodes(lists[i]) /\ Cover(lists[i], parts[i])
    PROVE  LET out == FoldLeft(Follow, <<>>, lists)
           IN  /\ Nodes(out) /\ Cover(out, Upto(parts, n))
               /\ \A i \in 1..Len(out) : \E j \in 1..n : out[i] \subseteq parts[j]
<1> DEFINE v == Following!Values(<<>>, lists, n)
           Among(k) == \A i \in 1..Len(v[k]) : \E j \in 1..n : v[k][i] \subseteq parts[j]
<1>1. /\ v[0] = <<>> /\ v[n] = FoldLeft(Follow, <<>>, lists)
      /\ \A k \in 1..n : v[k] = Follow(v[k - 1], lists[k])
  <2>1. /\ v[0] = <<>> /\ v[n] = Following!FoldOf(<<>>, lists)
        /\ \A k \in 1..n : v[k] = Follow(v[k - 1], lists[k])
    BY Following!FoldSteps
  <2>2. Following!FoldOf(<<>>, lists) = FoldLeft(Follow, <<>>, lists)
    BY DEF Following!FoldOf, FoldLeft, Following!FoldLeft, MapThenFoldSet,
           Following!MapThenFoldSet, Max, Following!Max
  <2>3. QED BY <2>1, <2>2
<1> HIDE DEF v
<1> DEFINE S == {k \in Nat : k <= n => Nodes(v[k]) /\ Cover(v[k], Upto(parts, k)) /\ Among(k)}
<1>2. 0 \in S
  <2>1. Len(<<>>) = 0 /\ 1..0 = {}
    OBVIOUS
  <2>2. Nodes(<<>>) /\ Cover(<<>>, Upto(parts, 0))
    BY <2>1, NoNodes, UptoGrows DEF Cover
  <2>3. QED BY <1>1, <2>1, <2>2
<1>3. ASSUME NEW k \in Nat, k \in S PROVE k + 1 \in S
  <2> SUFFICES ASSUME k + 1 <= n
               PROVE  Nodes(v[k + 1]) /\ Cover(v[k + 1], Upto(parts, k + 1)) /\ Among(k + 1)
    OBVIOUS
  <2> DEFINE old == v[k]
             more == lists[k + 1]
             X == Upto(parts, k)
             Y == parts[k + 1]
  <2>0. k + 1 \in 1..n /\ (k + 1) - 1 = k /\ k <= n
    OBVIOUS
  <2>1. /\ Nodes(old) /\ Cover(old, X)
        /\ \A i \in 1..Len(old) : \E j \in 1..n : old[i] \subseteq parts[j]
    BY <1>3, <2>0
  <2>2. v[k + 1] = Follow(old, more) /\ Nodes(more) /\ Cover(more, Y)
    <3>1. v[k + 1] = Follow(old, more)
      BY <1>1, <2>0
    <3>2. QED BY <2>0, <3>1
  <2>3. Upto(parts, k + 1) = X \cup Y /\ X \cap Y = {}
    <3>1. Upto(parts, k + 1) = X \cup Y
      BY UptoGrows
    <3>2. Y \cap X = {}
      BY <2>0, ApartFromBefore
    <3>3. QED BY <3>1, <3>2
  <2>4. \A j \in 1..Len(more) : more[j] \subseteq Y
    BY <2>2 DEF Cover
  <2>4a. Nodes(old) /\ Cover(old, X) /\ Nodes(more) /\ Cover(more, Y) /\ X \cap Y = {}
    BY <2>1, <2>2, <2>3
  <2>4b. k + 1 \in 1..n /\ Y = parts[k + 1]
    BY <2>0
  <2> HIDE DEF old, more, X, Y
  <2> DEFINE longer == Follow(old, more)
  <2>5. /\ Nodes(longer) /\ Cover(longer, X \cup Y)
        /\ \A i \in 1..Len(longer) : \/ \E j \in 1..Len(old) : longer[i] = old[j]
                                     \/ \E j \in 1..Len(more) : longer[i] = more[j]
    BY <2>4a, NodesAfter
  <2>6. Among(k + 1)
    <3>1. \A i \in 1..Len(v[k + 1]) : \/ \E j \in 1..Len(old) : v[k + 1][i] = old[j]
                                      \/ \E j \in 1..Len(more) : v[k + 1][i] = more[j]
      BY <2>2, <2>5
    <3>2. QED BY <2>1, <2>4, <2>4b, <3>1
  <2>7. QED BY <2>2, <2>3, <2>5, <2>6
<1>4. Nat \subseteq S
  <2> HIDE DEF S
  <2>1. QED BY <1>2, <1>3, Retaining!SetInduction
<1>5. n \in S
  <2> HIDE DEF S
  <2>1. QED BY <1>4
<1>6. Nodes(v[n]) /\ Cover(v[n], Upto(parts, n)) /\ Among(n)
  BY <1>5
<1>7. QED BY <1>1, <1>6

\* Finitely many numbers stay below some number.
LEMMA BoundedAbove ==
    ASSUME NEW T, T \subseteq Nat, IsFiniteSet(T)
    PROVE  \E b \in Nat : \A x \in T : x <= b
<1>1. PICK n \in Nat : ExistsSurjection(1..n, T)
  BY FS_NatSurjection
<1>2. PICK f : f \in Surjection(1..n, T)
  BY <1>1 DEF ExistsSurjection
<1>3. (\A i \in 1..n : f[i] \in Nat) /\ \A x \in T : \E i \in 1..n : f[i] = x
  BY <1>2 DEF Surjection
<1> DEFINE S == {k \in Nat : k <= n => \E b \in Nat : \A i \in 1..k : f[i] <= b}
<1>4. 0 \in S
  OBVIOUS
<1>5. ASSUME NEW k \in Nat, k \in S PROVE k + 1 \in S
  <2> SUFFICES ASSUME k + 1 <= n PROVE \E b \in Nat : \A i \in 1..(k + 1) : f[i] <= b
    OBVIOUS
  <2>1. PICK b \in Nat : \A i \in 1..k : f[i] <= b
    BY <1>5
  <2>2. f[k + 1] \in Nat
    BY <1>3
  <2>3. b + f[k + 1] \in Nat /\ f[k + 1] <= b + f[k + 1]
    BY <2>2
  <2>4. ASSUME NEW i \in 1..(k + 1) PROVE f[i] <= b + f[k + 1]
    <3>1. CASE i = k + 1
      BY <2>3, <3>1
    <3>2. CASE i \in 1..k
      <4>1. f[i] <= b /\ f[i] \in Nat
        BY <1>3, <2>1, <3>2
      <4>2. QED BY <2>2, <4>1
    <3>3. QED BY <3>1, <3>2
  <2>5. QED BY <2>3, <2>4
<1>6. Nat \subseteq S
  <2> HIDE DEF S
  <2>1. QED BY <1>4, <1>5, Retaining!SetInduction
<1>6a. n \in S
  <2> HIDE DEF S
  <2>1. QED BY <1>6
<1>7. PICK b \in Nat : \A i \in 1..n : f[i] <= b
  BY <1>6a
<1>8. \A x \in T : x <= b
  BY <1>3, <1>7
<1>9. QED BY <1>8

\* Among finitely many numbers the greatest is one of them.
LEMMA GreatestIs ==
    ASSUME NEW T, T \subseteq Nat, T # {}, IsFiniteSet(T)
    PROVE  Max(T) \in T /\ \A x \in T : x <= Max(T)
<1> DEFINE Bounds == {b \in Nat : \A x \in T : x <= b}
<1>1. Bounds # {}
  BY BoundedAbove
<1>2. PICK b \in Bounds : \A y \in Bounds : b <= y
  <2>1. Bounds \subseteq Nat
    OBVIOUS
  <2> HIDE DEF Bounds
  <2>2. QED BY <1>1, <2>1, Retaining!LeastNatural
<1>3. b \in Nat /\ \A x \in T : x <= b
  OBVIOUS
<1>4. b \in T
  <2> SUFFICES ASSUME b \notin T PROVE FALSE
    OBVIOUS
  <2>1. PICK x \in T : TRUE
    OBVIOUS
  <2>2. x \in Nat /\ x <= b /\ x # b
    BY <1>3
  <2>3. b - 1 \in Nat /\ \A y \in T : y <= b - 1
    <3>1. \A y \in T : y \in Nat /\ y <= b /\ y # b
      BY <1>3
    <3>2. QED BY <1>3, <2>2, <3>1
  <2>4. b - 1 \in Bounds
    BY <2>3
  <2>5. QED BY <1>2, <1>3, <2>4
<1>5. \E x \in T : \A y \in T : x >= y
  BY <1>3, <1>4
<1>6. Max(T) \in T /\ \A y \in T : Max(T) >= y
  BY <1>5 DEF Max
<1>7. QED BY <1>6

\* There is a next CPU not yet seen.
LEMMA NextUnseenIs ==
    ASSUME NEW seen, seen \subseteq Nat, IsFiniteSet(seen)
    PROVE  NextUnseen(seen) \in Nat /\ NextUnseen(seen) \notin seen
<1> DEFINE T == Nat \ seen
<1>1. T # {}
  <2>1. PICK b \in Nat : \A x \in seen : x <= b
    BY BoundedAbove
  <2>2. b + 1 \in T
    BY <2>1
  <2>3. QED BY <2>2
<1>2. PICK c \in T : \A y \in T : c <= y
  <2>1. T \subseteq Nat
    OBVIOUS
  <2> HIDE DEF T
  <2>2. QED BY <1>1, <2>1, Retaining!LeastNatural
<1>3. c \in Nat /\ c \notin seen /\ (0..(c - 1)) \subseteq seen
  <2>1. c \in Nat /\ c \notin seen
    OBVIOUS
  <2>2. ASSUME NEW x \in 0..(c - 1) PROVE x \in seen
    <3>1. x \in Nat /\ ~(c <= x)
      BY <2>1
    <3>2. QED BY <1>2, <3>1
  <2>3. QED BY <2>1, <2>2
<1>4. c \in 0..Cardinality(seen)
  <2>1. Cardinality(seen) \in Nat
    BY FS_CardinalityType
  <2>2. Cardinality(0..(c - 1)) = c
    <3>1. 0 \in Int /\ c - 1 \in Int
      BY <1>3
    <3>2. Cardinality(0..(c - 1)) = IF 0 > c - 1 THEN 0 ELSE (c - 1) - 0 + 1
      BY <3>1, FS_Interval
    <3>3. QED BY <1>3, <3>2
  <2>3. Cardinality(0..(c - 1)) <= Cardinality(seen)
    BY <1>3, FS_Subset
  <2>4. QED BY <1>3, <2>1, <2>2, <2>3
<1>5. NextUnseen(seen) \in 0..Cardinality(seen) /\ NextUnseen(seen) \notin seen
  BY <1>3, <1>4 DEF NextUnseen
<1>6. QED BY <1>5

\* The nodes a machine lists share no CPU.
LEMMA ListedAre ==
    ASSUME NEW m, IsMachine(m)
    PROVE  \E n \in Nat :
              /\ DOMAIN ListedNodes(m) = 1..n /\ Apart(ListedNodes(m), n)
              /\ \A i \in 1..n : ListedNodes(m)[i] \in SUBSET Nat /\ IsFiniteSet(ListedNodes(m)[i])
<1> DEFINE numbers == Range(m.online)
           listed == m.listed /\ numbers \subseteq DOMAIN m.cpulist
           earlier(p) == UNION {m.cpulist[q] : q \in ListedBefore(m, p)}
           ends == {p + 1 : p \in numbers} \cup {0}
           n == Max(ends)
           given == [i \in 1..n |->
                        IF i - 1 \in numbers THEN m.cpulist[i - 1] \ earlier(i - 1) ELSE {}]
           whole == 0..(m.threads - 1)
<1>1. m.online \in Seq(Nat) /\ m.threads \in Nat \ {0} /\ m.listed \in BOOLEAN
  BY DEF IsMachine
<1>2. ListedNodes(m) = IF listed THEN given ELSE <<whole>>
  BY DEF ListedNodes
<1>3. CASE listed
  <2>1. n \in Nat
    <3>1. DOMAIN m.online = 1..Len(m.online) /\ Len(m.online) \in Nat
      BY <1>1
    <3>2. numbers = {m.online[j] : j \in 1..Len(m.online)}
      BY <3>1 DEF Range
    <3>3. ends = {m.online[j] + 1 : j \in 1..Len(m.online)} \cup {0}
      BY <3>2
    <3>4. IsFiniteSet(1..Len(m.online))
      BY <3>1, FS_Interval
    <3>5. IsFiniteSet({m.online[j] + 1 : j \in 1..Len(m.online)})
      <4> DEFINE T == {m.online[j] + 1 : j \in 1..Len(m.online)}
                 f == [j \in 1..Len(m.online) |-> m.online[j] + 1]
      <4>1. f \in Surjection(1..Len(m.online), T)
        BY DEF Surjection
      <4> HIDE DEF f, T
      <4>2. IsFiniteSet(T)
        BY <3>4, <4>1, FS_Surjection
      <4>3. QED BY <4>2 DEF T
    <3>6. IsFiniteSet(ends)
      BY <3>3, <3>5, FS_AddElement
    <3>7. ends \subseteq Nat /\ ends # {}
      <4>1. \A j \in 1..Len(m.online) : m.online[j] + 1 \in Nat
        BY <1>1, <3>1
      <4> HIDE DEF ends
      <4>2. QED BY <3>3, <4>1
    <3> HIDE DEF ends
    <3>8. Max(ends) \in ends
      BY <3>6, <3>7, GreatestIs
    <3>9. QED BY <3>7, <3>8
  <2> HIDE DEF n
  <2>2. DOMAIN given = 1..n /\ \A i \in 1..n :
           given[i] = IF i - 1 \in numbers THEN m.cpulist[i - 1] \ earlier(i - 1) ELSE {}
    OBVIOUS
  <2>3. \A p \in numbers : m.cpulist[p] \in SUBSET Nat /\ IsFiniteSet(m.cpulist[p])
    BY <1>3 DEF IsMachine
  \* Of two nodes one is listed before the other.
  <2>4. ASSUME NEW p \in numbers, NEW q \in numbers, p # q
        PROVE  p \in ListedBefore(m, q) \/ q \in ListedBefore(m, p)
    <3> DEFINE places == {j \in DOMAIN m.online : m.online[j] \in {p, q}}
    <3>1. DOMAIN m.online = 1..Len(m.online) /\ Len(m.online) \in Nat
      BY <1>1
    <3>2. places \subseteq Nat /\ places # {}
      BY <2>4, <3>1 DEF Range
    <3>3. PICK first \in places : \A j \in places : first <= j
      <4> HIDE DEF places
      <4>1. QED BY <3>2, Retaining!LeastNatural
    <3>4. \A k \in 1..first : k # first => k \notin places
      BY <3>1, <3>3
    <3>5. first \in DOMAIN m.online /\ \A k \in 1..first : k \in DOMAIN m.online
      BY <3>1, <3>3
    <3>6. CASE m.online[first] = p
      <4>1. \A k \in 1..first : m.online[k] # q
        BY <2>4, <3>4, <3>5, <3>6
      <4>2. QED BY <3>5, <3>6, <4>1 DEF ListedBefore
    <3>7. CASE m.online[first] = q
      <4>1. \A k \in 1..first : m.online[k] # p
        BY <2>4, <3>4, <3>5, <3>7
      <4>2. QED BY <3>5, <3>7, <4>1 DEF ListedBefore
    <3>8. QED BY <3>3, <3>6, <3>7
  <2>5. ASSUME NEW p \in numbers, NEW q \in numbers, p \in ListedBefore(m, q)
        PROVE  m.cpulist[p] \subseteq earlier(q)
    BY <2>5
  <2> HIDE DEF given, earlier, numbers
  <2>6. \A i \in 1..n : given[i] \in SUBSET Nat /\ IsFiniteSet(given[i])
    <3> SUFFICES ASSUME NEW i \in 1..n PROVE given[i] \in SUBSET Nat /\ IsFiniteSet(given[i])
      OBVIOUS
    <3>1. CASE i - 1 \in numbers
      <4> DEFINE own == m.cpulist[i - 1]
      <4>1. own \in SUBSET Nat /\ IsFiniteSet(own)
        BY <2>3, <3>1
      <4>2. given[i] \subseteq own
        BY <2>2, <3>1
      <4> HIDE DEF own
      <4>3. QED BY <4>1, <4>2, FS_Subset
    <3>2. CASE i - 1 \notin numbers
      BY <2>2, <3>2, FS_EmptySet
    <3>3. QED BY <3>1, <3>2
  <2>7. ASSUME NEW i \in 1..n, NEW j \in 1..n, i # j PROVE given[i] \cap given[j] = {}
    <3>1. CASE i - 1 \notin numbers \/ j - 1 \notin numbers
      BY <2>2, <3>1
    <3>2. CASE i - 1 \in numbers /\ j - 1 \in numbers
      <4> DEFINE p == i - 1
                 q == j - 1
      <4>1. p # q
        BY <2>1, <2>7
      <4>2. given[i] = m.cpulist[p] \ earlier(p) /\ given[j] = m.cpulist[q] \ earlier(q)
        BY <2>2, <3>2
      <4>3. p \in numbers /\ q \in numbers
        BY <3>2
      <4> HIDE DEF p, q
      <4>4. m.cpulist[p] \subseteq earlier(q) \/ m.cpulist[q] \subseteq earlier(p)
        BY <2>4, <2>5, <4>1, <4>3
      <4>5. QED BY <4>2, <4>4
    <3>3. QED BY <3>1, <3>2
  <2>8. QED BY <1>2, <1>3, <2>1, <2>2, <2>6, <2>7 DEF Apart
<1>4. CASE ~listed
  <2> DEFINE one == <<whole>>
  <2>1. DOMAIN one = 1..1 /\ one[1] = whole /\ 1 \in Nat
    OBVIOUS
  <2>2. ListedNodes(m) = one
    BY <1>2, <1>4
  <2>3. whole \in SUBSET Nat /\ IsFiniteSet(whole)
    <3>1. 0 \in Int /\ m.threads - 1 \in Int
      BY <1>1
    <3>2. IsFiniteSet(whole)
      BY <3>1, FS_Interval
    <3>3. QED BY <3>2
  <2> HIDE DEF one, whole
  <2>4. \A i \in 1..1 : i = 1
    OBVIOUS
  <2>5. Apart(one, 1) /\ \A i \in 1..1 : one[i] \in SUBSET Nat /\ IsFiniteSet(one[i])
    BY <2>1, <2>3, <2>4 DEF Apart
  <2>6. QED BY <2>1, <2>2, <2>5
<1>5. QED BY <1>3, <1>4

\* What the process may use of them are nodes, some at least, and whatever of a listed
\* node may be used is one of them.
LEMMA SystemNodesAre ==
    ASSUME NEW m, IsMachine(m), NEW respect \in BOOLEAN
    PROVE  LET sys == SystemNodes(m, respect)
           IN  /\ Nodes(sys) /\ sys # <<>>
               /\ \A i \in 1..Len(sys) : sys[i] \subseteq Usable(m, respect)
               /\ \A i \in DOMAIN ListedNodes(m) :
                     ListedNodes(m)[i] \cap Usable(m, respect) # {} =>
                        \E j \in 1..Len(sys) : sys[j] = ListedNodes(m)[i] \cap Usable(m, respect)
<1> DEFINE list == ListedNodes(m)
           may == Usable(m, respect)
           sets == [i \in DOMAIN list |-> list[i] \cap may]
           sys == SystemNodes(m, respect)
<1>1. PICK n \in Nat :
         /\ DOMAIN list = 1..n /\ Apart(list, n)
         /\ \A i \in 1..n : list[i] \in SUBSET Nat /\ IsFiniteSet(list[i])
  BY ListedAre
<1>2. may \subseteq Nat /\ m.allowed \subseteq may
  BY DEF Usable, IsMachine
<1>3. PICK some \in 1..n : list[some] \cap may # {}
  BY <1>1, <1>2 DEF IsMachine
<1>4. sys = RemoveEmptyNodes(sets)
  BY DEF SystemNodes
<1>5. DOMAIN sets = 1..n /\ \A i \in 1..n : sets[i] = list[i] \cap may
  BY <1>1
<1> HIDE DEF sets, sys, may, list
<1>6. \A i \in 1..n : sets[i] \in SUBSET Nat /\ IsFiniteSet(sets[i])
  <2> SUFFICES ASSUME NEW i \in 1..n PROVE sets[i] \in SUBSET Nat /\ IsFiniteSet(sets[i])
    OBVIOUS
  <2>1. sets[i] \subseteq list[i] /\ IsFiniteSet(list[i]) /\ list[i] \subseteq Nat
    BY <1>1, <1>5
  <2>2. QED BY <2>1, FS_Subset
<1>7. Apart(sets, n)
  BY <1>1, <1>5 DEF Apart
<1>8. /\ Nodes(sys) /\ Cover(sys, Upto(sets, n))
      /\ \A i \in 1..Len(sys) : \E j \in 1..n : sys[i] = sets[j]
  BY <1>4, <1>5, <1>6, <1>7, RetainedAreNodes
<1>9. sys # <<>>
  <2>1. Upto(sets, n) # {}
    BY <1>3, <1>5 DEF Upto
  <2>2. QED BY <1>8, <2>1, CoverNodes
<1>10. \A i \in 1..Len(sys) : sys[i] \subseteq may
  BY <1>5, <1>8
<1>11. ASSUME NEW i \in 1..n, list[i] \cap may # {}
       PROVE  \E j \in 1..Len(sys) : sys[j] = list[i] \cap may
  <2>1. PICK c : c \in sets[i]
    BY <1>5, <1>11
  <2>2. c \in Upto(sets, n)
    BY <2>1 DEF Upto
  <2>3. PICK j \in 1..Len(sys) : c \in sys[j]
    BY <1>8, <2>2 DEF Cover
  <2>4. PICK k \in 1..n : sys[j] = sets[k]
    BY <1>8
  <2>5. k = i
    BY <1>7, <2>1, <2>3, <2>4 DEF Apart
  <2>6. QED BY <1>5, <2>4, <2>5
<1>12. QED BY <1>1, <1>8, <1>9, <1>10, <1>11 DEF sys, may, list

\* Domains of L3: sets of CPUs seen, none empty and none sharing a CPU, each within the
\* system's node it is tagged with.
Domains(ds, sys, seen) ==
    /\ ds \in Seq([cpus : SUBSET Nat, node : Nat])
    /\ \A i \in 1..Len(ds) :
          /\ ds[i].cpus # {} /\ IsFiniteSet(ds[i].cpus) /\ ds[i].cpus \subseteq seen
          /\ ds[i].node \in 1..Len(sys) /\ ds[i].cpus \subseteq sys[ds[i].node]
    /\ \A i, j \in 1..Len(ds) : i # j => ds[i].cpus \cap ds[j].cpus = {}

\* The CPUs the process may use behind one L3 are tagged with the node they are in.
LEMMA TaggedIs ==
    ASSUME NEW m, IsMachine(m), NEW respect \in BOOLEAN, NEW c \in DOMAIN m.l3,
           m.l3[c] \cap Usable(m, respect) # {}
    PROVE  LET cpus == m.l3[c] \cap Usable(m, respect)
               sys == SystemNodes(m, respect)
           IN  /\ cpus \in SUBSET Nat /\ IsFiniteSet(cpus)
               /\ \E n \in 1..Len(sys) :
                     /\ cpus \subseteq sys[n]
                     /\ Tagged(cpus, FromSystemNuma(m, respect)) = <<[cpus |-> cpus, node |-> n]>>
<1> DEFINE list == ListedNodes(m)
           may == Usable(m, respect)
           cpus == m.l3[c] \cap may
           sys == SystemNodes(m, respect)
           cfg == FromSystemNuma(m, respect)
           top == Max(cpus)
<1>1. PICK i \in DOMAIN list : m.l3[c] \subseteq list[i]
  BY DEF IsMachine
<1>2. list[i] \in SUBSET Nat /\ IsFiniteSet(list[i])
  BY ListedAre
<1>3. /\ Nodes(sys)
      /\ list[i] \cap may # {} => \E j \in 1..Len(sys) : sys[j] = list[i] \cap may
  BY SystemNodesAre
<1>4. cfg.nodes = sys
  BY DEF FromSystemNuma
<1>5. cpus # {} /\ cpus \subseteq list[i] \cap may
  BY <1>1
<1> HIDE DEF list, may, sys, cfg
<1>6. PICK j \in 1..Len(sys) : sys[j] = list[i] \cap may
  BY <1>3, <1>5
<1>7. cpus \in SUBSET Nat /\ IsFiniteSet(cpus)
  BY <1>2, <1>5, FS_Subset
<1> HIDE DEF cpus
<1>8. top \in cpus
  BY <1>5, <1>7, GreatestIs
<1> HIDE DEF top
<1>9. DOMAIN sys = 1..Len(sys) /\ \A a, b \in 1..Len(sys) : a # b => sys[a] \cap sys[b] = {}
  BY <1>3 DEF Nodes
<1>10. top \in sys[j] /\ \A n \in 1..Len(sys) : top \in sys[n] => n = j
  BY <1>5, <1>6, <1>8, <1>9
<1>11. NodeOfCpu(cfg, top) = j
  BY <1>4, <1>6, <1>9, <1>10 DEF NodeOfCpu
<1>12. Tagged(cpus, cfg) = <<[cpus |-> cpus, node |-> j]>>
  BY <1>5, <1>11 DEF Tagged, top
<1>13. cpus \subseteq sys[j]
  BY <1>5, <1>6
<1>14. QED BY <1>6, <1>7, <1>12, <1>13 DEF cpus, sys, cfg, may

\* One domain more.
LEMMA OneDomainMore ==
    ASSUME NEW sys, NEW seen, NEW ds, Domains(ds, sys, seen), NEW l3, l3 \cap seen = {},
           NEW cpus \in SUBSET Nat, cpus # {}, IsFiniteSet(cpus), cpus \subseteq l3,
           NEW n \in 1..Len(sys), Len(sys) \in Nat, cpus \subseteq sys[n]
    PROVE  Domains(ds \o <<[cpus |-> cpus, node |-> n]>>, sys, seen \cup l3)
<1> DEFINE Tags == [cpus : SUBSET Nat, node : Nat]
           d == [cpus |-> cpus, node |-> n]
           more == ds \o <<d>>
           m == Len(ds)
<1>1. ds \in Seq(Tags) /\ m \in Nat /\ d \in Tags
  BY DEF Domains
<1>1a. d.cpus = cpus /\ d.node = n
  OBVIOUS
<1>1b. /\ \A i \in 1..m : /\ ds[i].cpus # {} /\ IsFiniteSet(ds[i].cpus) /\ ds[i].cpus \subseteq seen
                          /\ ds[i].node \in 1..Len(sys) /\ ds[i].cpus \subseteq sys[ds[i].node]
       /\ \A i, j \in 1..m : i # j => ds[i].cpus \cap ds[j].cpus = {}
  BY DEF Domains
<1> HIDE DEF Tags, d
<1>2. /\ more \in Seq(Tags) /\ Len(more) = m + 1 /\ more[m + 1] = d
      /\ \A i \in 1..m : more[i] = ds[i]
  BY <1>1
<1> HIDE DEF more, m
<1>3. \A i \in 1..(m + 1) : i \in 1..m \/ i = m + 1
  BY <1>1
<1>4. \A i \in 1..m : /\ more[i].cpus \subseteq seen /\ more[i].cpus \cap cpus = {}
  BY <1>1b, <1>2
<1>5. \A i \in 1..(m + 1) :
         /\ more[i].cpus # {} /\ IsFiniteSet(more[i].cpus) /\ more[i].cpus \subseteq seen \cup l3
         /\ more[i].node \in 1..Len(sys) /\ more[i].cpus \subseteq sys[more[i].node]
  <2> SUFFICES ASSUME NEW i \in 1..(m + 1)
               PROVE  /\ more[i].cpus # {} /\ IsFiniteSet(more[i].cpus)
                      /\ more[i].cpus \subseteq seen \cup l3
                      /\ more[i].node \in 1..Len(sys) /\ more[i].cpus \subseteq sys[more[i].node]
    OBVIOUS
  <2>1. CASE i \in 1..m
    BY <1>1b, <1>2, <2>1
  <2>2. CASE i = m + 1
    BY <1>1a, <1>2, <2>2
  <2>3. QED BY <1>3, <2>1, <2>2
<1>6. ASSUME NEW i \in 1..(m + 1), NEW j \in 1..(m + 1), i # j
      PROVE  more[i].cpus \cap more[j].cpus = {}
  <2>1. CASE i \in 1..m /\ j \in 1..m
    BY <1>1b, <1>2, <1>6, <2>1
  <2>2. CASE i \in 1..m /\ j = m + 1
    BY <1>1a, <1>2, <1>4, <2>2
  <2>3. CASE i = m + 1 /\ j \in 1..m
    BY <1>1a, <1>2, <1>4, <2>3
  <2>4. QED BY <1>3, <1>6, <2>1, <2>2, <2>3
<1>7. Domains(more, sys, seen \cup l3)
  BY <1>2, <1>5, <1>6 DEF Domains, Tags
<1>8. QED BY <1>7 DEF more, d

Striding == INSTANCE FoldProofs WITH Op <- NextDomain, Holds <- AnyValue

\* The walk over the L3 caches finds domains of usable CPUs.
LEMMA WalkedAreDomains ==
    ASSUME NEW m, IsMachine(m), NEW respect \in BOOLEAN
    PROVE  \E seen : Domains(L3Walk(m, respect), SystemNodes(m, respect), seen)
<1> DEFINE n == Cardinality(DOMAIN m.l3)
           sys == SystemNodes(m, respect)
           may == Usable(m, respect)
           cfg == FromSystemNuma(m, respect)
           view == [l3 |-> m.l3, usable |-> may, sys |-> cfg]
           data == [k \in 1..n |-> view]
           base == [seen |-> {}, domains |-> <<>>]
           v == Striding!Values(base, data, n)
<1>1. n \in Nat
  BY FS_CardinalityType DEF IsMachine
<1>2. view.l3 = m.l3 /\ view.usable = may /\ view.sys = cfg
  OBVIOUS
<1>3. base.seen = {} /\ base.domains = <<>>
  OBVIOUS
<1>4. L3Walk(m, respect) = FoldLeft(NextDomain, base, data).domains
  BY DEF L3Walk
<1> HIDE DEF n, view, base, sys, may, cfg
<1>5. DOMAIN data = 1..n /\ \A k \in 1..n : data[k] = view
  OBVIOUS
<1> HIDE DEF data
<1>6. /\ v[0] = base /\ v[n] = FoldLeft(NextDomain, base, data)
      /\ \A k \in 1..n : v[k] = NextDomain(v[k - 1], view)
  <2>1. /\ v[0] = base /\ v[n] = Striding!FoldOf(base, data)
        /\ \A k \in 1..n : v[k] = NextDomain(v[k - 1], data[k])
    BY <1>1, <1>5, Striding!FoldSteps
  <2>2. Striding!FoldOf(base, data) = FoldLeft(NextDomain, base, data)
    BY DEF Striding!FoldOf, FoldLeft, Striding!FoldLeft, MapThenFoldSet,
           Striding!MapThenFoldSet, Max, Striding!Max
  <2>3. QED BY <1>5, <2>1, <2>2
<1> HIDE DEF v
<1>7. Nodes(sys) /\ Len(sys) \in Nat
  BY SystemNodesAre DEF Nodes, sys
<1> DEFINE Good(w) ==
              /\ w.seen \subseteq Nat /\ IsFiniteSet(w.seen)
              /\ \A c \in DOMAIN m.l3 : m.l3[c] \subseteq w.seen \/ m.l3[c] \cap w.seen = {}
              /\ Domains(w.domains, sys, w.seen)
           S == {k \in Nat : k <= n => Good(v[k])}
<1>8. 0 \in S
  <2>1. Domains(<<>>, sys, {})
    <3>1. <<>> \in Seq([cpus : SUBSET Nat, node : Nat]) /\ Len(<<>>) = 0 /\ 1..0 = {}
      OBVIOUS
    <3>2. QED BY <3>1 DEF Domains
  <2>2. IsFiniteSet({})
    BY FS_EmptySet
  <2>3. QED BY <1>3, <1>6, <2>1, <2>2
<1>9. ASSUME NEW k \in Nat, k \in S PROVE k + 1 \in S
  <2> SUFFICES ASSUME k + 1 <= n PROVE Good(v[k + 1])
    OBVIOUS
  <2> DEFINE w == v[k]
             seen == w.seen
             c == NextUnseen(seen)
             l3 == m.l3[c]
             cpus == l3 \cap may
  <2>1. k + 1 \in 1..n /\ (k + 1) - 1 = k /\ Good(w)
    BY <1>1, <1>9
  <2>2. v[k + 1] = NextDomain(w, view)
    BY <1>6, <2>1
  <2>3. CASE c \notin DOMAIN m.l3
    <3>1. v[k + 1] = w
      BY <1>2, <2>2, <2>3 DEF NextDomain
    <3>2. QED BY <2>1, <3>1
  <2>4. CASE c \in DOMAIN m.l3
    <3>1. /\ v[k + 1].seen = seen \cup l3
          /\ v[k + 1].domains = w.domains \o Tagged(cpus, cfg)
      <4> DEFINE next == [seen |-> seen \cup l3, domains |-> w.domains \o Tagged(cpus, cfg)]
      <4>1. v[k + 1] = next
        BY <1>2, <2>2, <2>4 DEF NextDomain
      <4>2. next.seen = seen \cup l3 /\ next.domains = w.domains \o Tagged(cpus, cfg)
        OBVIOUS
      <4> HIDE DEF next
      <4>3. QED BY <4>1, <4>2
    <3>2. c \in l3 /\ c \notin seen
      <4>1. c \notin seen
        BY <2>1, NextUnseenIs
      <4>2. QED BY <2>4, <4>1 DEF IsMachine
    <3>3. l3 \cap seen = {}
      BY <2>1, <2>4, <3>2
    <3>4. l3 \subseteq Nat /\ IsFiniteSet(l3)
      <4>1. PICK i \in DOMAIN ListedNodes(m) : l3 \subseteq ListedNodes(m)[i]
        BY <2>4 DEF IsMachine
      <4>2. ListedNodes(m)[i] \in SUBSET Nat /\ IsFiniteSet(ListedNodes(m)[i])
        BY ListedAre
      <4>3. QED BY <4>1, <4>2, FS_Subset
    <3>5. \A a \in DOMAIN m.l3 : m.l3[a] = l3 \/ m.l3[a] \cap l3 = {}
      BY <2>4 DEF IsMachine
    <3>6. \A a \in DOMAIN m.l3 : m.l3[a] \subseteq seen \/ m.l3[a] \cap seen = {}
      BY <2>1
    <3>7. seen \subseteq Nat /\ IsFiniteSet(seen) /\ Domains(w.domains, sys, seen)
      BY <2>1
    <3>8. cpus \subseteq l3
      OBVIOUS
    <3>9. Domains(w.domains \o Tagged(cpus, cfg), sys, seen \cup l3)
      <4>1. CASE cpus = {}
        <5>1. w.domains \in Seq([cpus : SUBSET Nat, node : Nat])
          BY <3>7 DEF Domains
        <5>2. w.domains \o <<>> = w.domains
          BY <5>1, ConcatEmptySeq
        <5>3. Tagged(cpus, cfg) = <<>>
          BY <4>1 DEF Tagged
        <5> HIDE DEF l3, seen
        <5>4. Domains(w.domains, sys, seen \cup l3)
          BY <3>7 DEF Domains
        <5>5. QED BY <5>2, <5>3, <5>4
      <4>2. CASE cpus # {}
        <5>1. /\ cpus \in SUBSET Nat /\ IsFiniteSet(cpus)
              /\ \E j \in 1..Len(sys) :
                    /\ cpus \subseteq sys[j]
                    /\ Tagged(cpus, cfg) = <<[cpus |-> cpus, node |-> j]>>
          BY <2>4, <4>2, TaggedIs DEF sys, may, cfg
        <5>2. PICK j \in 1..Len(sys) : /\ cpus \subseteq sys[j]
                                       /\ Tagged(cpus, cfg) = <<[cpus |-> cpus, node |-> j]>>
          BY <5>1
        <5> HIDE DEF cpus, l3, seen, w
        <5>3. Domains(w.domains \o <<[cpus |-> cpus, node |-> j]>>, sys, seen \cup l3)
          BY <1>7, <3>3, <3>7, <3>8, <4>2, <5>1, <5>2, OneDomainMore
        <5>4. QED BY <5>2, <5>3
      <4>3. QED BY <4>1, <4>2
    <3> HIDE DEF cpus, l3, seen, w
    <3>10. seen \cup l3 \subseteq Nat /\ IsFiniteSet(seen \cup l3)
      BY <3>4, <3>7, FS_Union
    <3>11. \A a \in DOMAIN m.l3 :
              m.l3[a] \subseteq (seen \cup l3) \/ m.l3[a] \cap (seen \cup l3) = {}
      BY <3>5, <3>6
    <3>12. QED BY <3>1, <3>9, <3>10, <3>11
  <2>5. QED BY <2>3, <2>4
<1>10. Nat \subseteq S
  <2> HIDE DEF S
  <2>1. QED BY <1>8, <1>9, Retaining!SetInduction
<1>11. n \in S
  <2> HIDE DEF S
  <2>1. QED BY <1>1, <1>10
<1>12. Domains(v[n].domains, sys, v[n].seen)
  BY <1>1, <1>11
<1>13. QED BY <1>4, <1>6, <1>12 DEF sys

\* Domains make nodes, each within one of the system's.
LEMMA DomainsMakeNodes ==
    ASSUME NEW sys, Nodes(sys), NEW seen, NEW ds, Domains(ds, sys, seen), ds # <<>>
    PROVE  LET out == FromL3Info(ds)
           IN  /\ Nodes(out) /\ out # <<>>
               /\ \A i \in 1..Len(out) : \E j \in 1..Len(sys) : out[i] \subseteq sys[j]
<1> DEFINE m == Len(ds)
           s == Len(sys)
           T == {ds[i].node : i \in DOMAIN ds}
           top == Max(T)
           sets(n) == [i \in DOMAIN ds |-> IF ds[i].node = n THEN ds[i].cpus ELSE {}]
           parts == [n \in 1..top |-> Upto(sets(n), m)]
           lists == [n \in 1..top |-> Bundled(DomainsOf(ds, n))]
           out == FromL3Info(ds)
<1>1. ds \in Seq([cpus : SUBSET Nat, node : Nat]) /\ m \in Nat /\ DOMAIN ds = 1..m
  BY DEF Domains
<1>2. /\ \A i \in 1..m : /\ ds[i].cpus # {} /\ IsFiniteSet(ds[i].cpus)
                         /\ ds[i].cpus \in SUBSET Nat
                         /\ ds[i].node \in 1..s /\ ds[i].cpus \subseteq sys[ds[i].node]
      /\ \A i, j \in 1..m : i # j => ds[i].cpus \cap ds[j].cpus = {}
  <2>1. /\ \A i \in 1..m : /\ ds[i].cpus # {} /\ IsFiniteSet(ds[i].cpus)
                            /\ ds[i].node \in 1..s /\ ds[i].cpus \subseteq sys[ds[i].node]
        /\ \A i, j \in 1..m : i # j => ds[i].cpus \cap ds[j].cpus = {}
    BY DEF Domains
  <2>2. \A i \in 1..m : ds[i].cpus \in SUBSET Nat
    <3> SUFFICES ASSUME NEW i \in 1..m PROVE ds[i].cpus \in SUBSET Nat
      OBVIOUS
    <3>1. ds[i] \in [cpus : SUBSET Nat, node : Nat]
      <4> DEFINE Tags == [cpus : SUBSET Nat, node : Nat]
      <4> HIDE DEF Tags
      <4>1. ds \in Seq(Tags) /\ i \in 1..Len(ds)
        BY <1>1 DEF Tags
      <4>2. ds[i] \in Tags
        BY <4>1
      <4>3. QED BY <4>2 DEF Tags
    <3>2. QED BY <3>1
  <2>3. QED BY <2>1, <2>2
<1>3. 1 \in 1..m
  <2> DEFINE Tags == [cpus : SUBSET Nat, node : Nat]
  <2>1. ds \in Seq(Tags)
    BY <1>1
  <2> HIDE DEF Tags
  <2>2. m # 0
    BY <2>1, EmptySeq
  <2>3. QED BY <1>1, <2>2
<1>4. s \in Nat /\ \A a, b \in 1..s : a # b => sys[a] \cap sys[b] = {}
  BY DEF Nodes
<1>5. out = FoldLeft(Follow, <<>>, lists)
  BY DEF FromL3Info
<1> HIDE DEF m, s, out
<1>6. T \subseteq 1..s /\ ds[1].node \in T
  BY <1>1, <1>2, <1>3
<1>7. IsFiniteSet(T)
  <2> HIDE DEF T
  <2>1. IsFiniteSet(1..s)
    BY <1>4, FS_Interval
  <2>2. QED BY <1>6, <2>1, FS_Subset
<1>8. \A i \in 1..m : ds[i].node \in T
  BY <1>1
<1> HIDE DEF T
<1>9. top \in T /\ \A x \in T : x <= top
  <2>1. T \subseteq Nat /\ T # {}
    BY <1>4, <1>6
  <2>2. QED BY <1>7, <2>1, GreatestIs
<1> HIDE DEF top
<1>10. top \in 1..s /\ top \in Nat /\ \A n \in 1..top : n \in 1..s
  BY <1>4, <1>6, <1>9
<1>11. ASSUME NEW n \in 1..top
       PROVE  Nodes(lists[n]) /\ Cover(lists[n], parts[n])
  <2> DEFINE f == sets(n)
  <2>1. DOMAIN f = 1..m
    BY <1>1
  <2>2. \A i \in 1..m : f[i] = IF ds[i].node = n THEN ds[i].cpus ELSE {}
    BY <1>1
  <2>2a. DomainsOf(ds, n) = RemoveEmptyNodes(f) /\ parts[n] = Upto(f, m)
    BY DEF DomainsOf
  <2> HIDE DEF f
  <2>3. \A i \in 1..m : f[i] \in SUBSET Nat /\ IsFiniteSet(f[i])
    BY <1>2, <2>2, FS_EmptySet
  <2>4. Apart(f, m)
    BY <1>2, <2>2 DEF Apart
  <2>5. Nodes(DomainsOf(ds, n)) /\ Cover(DomainsOf(ds, n), Upto(f, m))
    BY <1>1, <2>1, <2>2a, <2>3, <2>4, RetainedAreNodes
  <2>6. Nodes(Bundled(DomainsOf(ds, n))) /\ Cover(Bundled(DomainsOf(ds, n)), Upto(f, m))
    BY <2>5, BundlesAreNodes
  <2>7. QED BY <2>2a, <2>6
<1>12. ASSUME NEW n \in 1..top PROVE parts[n] \subseteq sys[n]
  <2> SUFFICES ASSUME NEW c \in Upto(sets(n), m) PROVE c \in sys[n]
    OBVIOUS
  <2>1. PICK i \in 1..m : c \in sets(n)[i]
    BY DEF Upto
  <2>2. ds[i].node = n /\ c \in ds[i].cpus
    BY <1>1, <2>1
  <2>3. QED BY <1>2, <2>2
<1>13. Apart(parts, top)
  <2> SUFFICES ASSUME NEW a \in 1..top, NEW b \in 1..top, a # b
               PROVE  parts[a] \cap parts[b] = {}
    BY DEF Apart
  <2>1. parts[a] \subseteq sys[a] /\ parts[b] \subseteq sys[b]
    BY <1>12
  <2> HIDE DEF parts
  <2>2. QED BY <1>4, <1>10, <2>1
<1>14. ds[1].node \in 1..top /\ parts[ds[1].node] # {}
  <2>1. ds[1].node \in 1..top
    BY <1>2, <1>3, <1>4, <1>6, <1>9, <1>10
  <2>2. sets(ds[1].node)[1] = ds[1].cpus
    BY <1>1, <1>3
  <2>3. PICK c : c \in ds[1].cpus
    BY <1>2, <1>3
  <2>4. c \in Upto(sets(ds[1].node), m)
    BY <1>3, <2>2, <2>3 DEF Upto
  <2>5. QED BY <2>1, <2>4
<1>15. DOMAIN lists = 1..top
  OBVIOUS
<1> HIDE DEF parts, lists
<1>16. /\ Nodes(out) /\ Cover(out, Upto(parts, top))
       /\ \A i \in 1..Len(out) : \E j \in 1..top : out[i] \subseteq parts[j]
  BY <1>5, <1>10, <1>11, <1>13, <1>15, ListsAreNodes
<1>17. out # <<>>
  <2>1. Upto(parts, top) # {}
    BY <1>14 DEF Upto
  <2>2. QED BY <1>16, <2>1, CoverNodes
<1>18. ASSUME NEW i \in 1..Len(out) PROVE \E j \in 1..s : out[i] \subseteq sys[j]
  <2>1. PICK j \in 1..top : out[i] \subseteq parts[j]
    BY <1>16
  <2>2. out[i] \subseteq sys[j]
    BY <1>12, <2>1
  <2>3. QED BY <1>10, <2>2
<1>19. QED BY <1>16, <1>17, <1>18 DEF out, s

\* On a machine as IsMachine describes: what is detected is a layout of CPUs the process
\* may use, none of its nodes spread over two of the system's.
THEOREM DetectedLayout ==
    ASSUME NEW m, IsMachine(m), NEW respect \in BOOLEAN
    PROVE  LET cfg == FromSystem(m, respect)
           IN  /\ IsLayout(cfg)
               /\ Cpus(cfg) \subseteq Usable(m, respect)
               /\ \A n \in DOMAIN cfg.nodes : \E s \in Range(SystemNodes(m, respect)) :
                     cfg.nodes[n] \subseteq s
<1> DEFINE cfg == FromSystem(m, respect)
           kept == cfg.nodes
           sys == SystemNodes(m, respect)
           may == Usable(m, respect)
           ds == L3Walk(m, respect)
           Within(out) == \A i \in 1..Len(out) : \E j \in 1..Len(sys) : out[i] \subseteq sys[j]
<1>1. Nodes(sys) /\ sys # <<>> /\ \A i \in 1..Len(sys) : sys[i] \subseteq may
  BY SystemNodesAre
<1>2. PICK seen : Domains(ds, sys, seen)
  BY WalkedAreDomains
<1>3. /\ kept = IF ds = <<>> THEN sys ELSE RemoveEmptyNodes(FromL3Info(ds))
      /\ cfg = [nodes |-> kept, custom |-> ~respect]
  BY DEF FromSystem
<1> HIDE DEF cfg, kept, sys, may, ds
<1>4. Nodes(kept) /\ kept # <<>> /\ Within(kept)
  <2>1. CASE ds = <<>>
    <3>1. kept = sys
      BY <1>3, <2>1
    <3>2. QED BY <1>1, <3>1
  <2>2. CASE ds # <<>>
    <3> DEFINE out == FromL3Info(ds)
               n == Len(out)
    <3>1. Nodes(out) /\ out # <<>> /\ Within(out)
      BY <1>1, <1>2, <2>2, DomainsMakeNodes
    <3>2. kept = RemoveEmptyNodes(out)
      BY <1>3, <2>2
    <3> HIDE DEF out
    <3>3. /\ n \in Nat /\ DOMAIN out = 1..n /\ Apart(out, n)
          /\ \A i \in 1..n : out[i] \in SUBSET Nat /\ IsFiniteSet(out[i])
      <4>1. out \in Seq(SUBSET Nat) /\ \A i \in 1..n : IsFiniteSet(out[i])
        BY <3>1 DEF Nodes
      <4>2. n \in Nat /\ DOMAIN out = 1..n /\ \A i \in 1..n : out[i] \in SUBSET Nat
        BY <4>1
      <4>3. Apart(out, n)
        BY <3>1 DEF Nodes, Apart
      <4>4. QED BY <4>1, <4>2, <4>3
    <3>4. Cover(out, Upto(out, n))
      BY DEF Cover, Upto
    <3> HIDE DEF n
    <3>5. /\ Nodes(kept) /\ Cover(kept, Upto(out, n))
          /\ \A i \in 1..Len(kept) : \E j \in 1..n : kept[i] = out[j]
      BY <3>2, <3>3, RetainedAreNodes
    <3>6. Upto(out, n) # {}
      BY <3>1, <3>4, CoverNodes
    <3>7. kept # <<>>
      BY <3>5, <3>6, CoverNodes
    <3>8. Within(kept)
      BY <3>1, <3>5 DEF n
    <3>9. QED BY <3>5, <3>7, <3>8
  <2>3. QED BY <2>1, <2>2
<1>5. IsLayout(cfg)
  <2>1. (~respect) \in BOOLEAN
    OBVIOUS
  <2>2. IsLayout([nodes |-> kept, custom |-> ~respect])
    BY <1>4, <2>1, NodesAreLayout
  <2>3. QED BY <1>3, <2>2
<1>6. DOMAIN kept = 1..Len(kept) /\ DOMAIN sys = 1..Len(sys)
  BY <1>1, <1>4 DEF Nodes
<1>7. Cpus(cfg) \subseteq may
  <2> SUFFICES ASSUME NEW c \in Cpus(cfg) PROVE c \in may
    OBVIOUS
  <2>1. PICK i \in 1..Len(kept) : c \in kept[i]
    BY <1>6 DEF Cpus, Range, kept
  <2>2. PICK j \in 1..Len(sys) : kept[i] \subseteq sys[j]
    BY <1>4
  <2>3. QED BY <1>1, <2>1, <2>2
<1>8. ASSUME NEW i \in DOMAIN kept PROVE \E s \in Range(sys) : kept[i] \subseteq s
  <2>1. PICK j \in 1..Len(sys) : kept[i] \subseteq sys[j]
    BY <1>4, <1>6
  <2>2. sys[j] \in Range(sys)
    BY <1>6 DEF Range
  <2>3. QED BY <2>1, <2>2
<1>9. QED BY <1>5, <1>7, <1>8 DEF cfg, kept, sys, may

----------------------------------------------------------------------------
(* The set-up always.                                                      *)

\* The invariant along the behaviours that set the engine up.
SettingInv == part = "setup" => EngineInv

\* (driver.rs set_option, rebuild_pool and resolve_worker_networks, numa.rs
\* distribute_threads_among_numa_nodes) Whatever options are set, overridden and refused
\* and whenever games, searches and networks begin, on any machine: layout, binding,
\* workers, shared tables and networks are those the current options ask for, a search
\* runs on nothing that was replaced under it, and the keep-alive has ended before the
\* reply, which is the last line written.
THEOREM SetupAlways == Spec => []SetupRight
<1>0. DetectionRight
  BY MachinesAssumption, DetectedLayout DEF DetectionRight
<1>1. Init => SettingInv
  BY <1>0, EngineInvInit DEF Init, SettingInv
<1>2. SettingInv /\ [Next]_<<part, evalVars, histVars, bookVars, setupVars, outcomeVars, budgetVars, pvVars>>
        => SettingInv'
  <2> SUFFICES ASSUME SettingInv,
                      [Next]_<<part, evalVars, histVars, bookVars, setupVars, outcomeVars, budgetVars, pvVars>>
               PROVE  SettingInv'
    OBVIOUS
  <2>1. part' = part /\ (UNCHANGED setupVars \/ (part = "setup" /\ SetupNext))
    BY DEF Next
  <2>2. QED BY <1>0, <2>1, EngineInvNext DEF SettingInv
<1>3. SettingInv => SetupRight
  BY <1>0, EngineInvEnough DEF SettingInv, SetupRight
<1>4. QED BY <1>1, <1>2, <1>3, PTL DEF Spec

=============================================================================
