------------------------------- MODULE Shogi -------------------------------
(***************************************************************************)
(* The board: squares, pieces, hands, the piece sets the board keeps       *)
(* beside its squares, the attack tables and the attacker queries of       *)
(* attic-state.  A bitboard is the set of its squares.  The size of the    *)
(* board and the depth of the promotion zone are constants (9, 9 and 3 in  *)
(* the code), so that small boards can be explored.                        *)
(***************************************************************************)
EXTENDS Integers, Sequences, FiniteSets

CONSTANTS
    Files,      \* number of files, 9 in the code
    Ranks,      \* number of ranks, 9 in the code
    ZoneRanks   \* depth of the promotion zone, 3 in the code

ASSUME BoardAssumption ==
    /\ Files \in Nat \ {0} /\ Ranks \in Nat \ {0}
    /\ ZoneRanks \in 1..Ranks

Black == "Black"
White == "White"
Colors == {Black, White}
Flip(c) == IF c = Black THEN White ELSE Black

----------------------------------------------------------------------------
(* Squares are numbered file by file.                                      *)

Squares == 0..(Files * Ranks - 1)
File(sq) == sq \div Ranks
Rank(sq) == sq % Ranks
OnBoard(f, r) == f \in 0..(Files - 1) /\ r \in 0..(Ranks - 1)
SquareAt(f, r) == f * Ranks + r

(* Squares() of a bitboard: its squares in ascending order. *)
AllSquares == [i \in 1..(Files * Ranks) |-> i - 1]
Ascending(S) == SelectSeq(AllSquares, LAMBDA sq : sq \in S)
Lowest(S) == CHOOSE sq \in S : \A t \in S : sq <= t
Xor(A, B) == (A \ B) \cup (B \ A)

FileMask(f) == {sq \in Squares : File(sq) = f}
RankMask(r) == {sq \in Squares : Rank(sq) = r}

(* The rank `n` ranks from the far edge of the board, seen by `c`. *)
FarRank(c, n) == IF c = Black THEN n ELSE Ranks - 1 - n
(* How far a square still is from the far edge, seen by `c`. *)
Depth(c, sq) == IF c = Black THEN Rank(sq) ELSE Ranks - 1 - Rank(sq)
InZone(sq, c) == Depth(c, sq) < ZoneRanks

----------------------------------------------------------------------------
(* Pieces.                                                                 *)

HandKinds == {"Pawn", "Lance", "Knight", "Silver", "Gold", "Bishop", "Rook"}
Kinds == HandKinds \cup {"King"}
Piece(kind, c) == [kind |-> kind, color |-> c, promoted |-> FALSE]
Promoted(p) == [p EXCEPT !.promoted = TRUE]
NoPiece == [kind |-> "None", color |-> "None", promoted |-> FALSE]

Patterns == Kinds \cup {"Horse", "Dragon"}

(* The attack pattern of a piece: promoted minor pieces move as gold. *)
PatternOf(p) ==
    IF ~p.promoted THEN p.kind
    ELSE CASE p.kind = "Bishop" -> "Horse"
           [] p.kind = "Rook"   -> "Dragon"
           [] OTHER             -> "Gold"

IsNonPromotable(p) == p.promoted \/ p.kind \in {"Gold", "King"}

(* A hand counts copies of a kind, up to the number the game has. *)
MaxByKind == [Pawn |-> 18, Lance |-> 4, Knight |-> 4, Silver |-> 4,
              Gold |-> 4, Bishop |-> 2, Rook |-> 2]
EmptyHand == [k \in HandKinds |-> 0]
Increment(hand, kind) ==
    IF kind \in HandKinds /\ hand[kind] < MaxByKind[kind]
    THEN [hand EXCEPT ![kind] = @ + 1] ELSE hand
Decrement(hand, kind) ==
    IF kind \in HandKinds /\ hand[kind] > 0
    THEN [hand EXCEPT ![kind] = @ - 1] ELSE hand

----------------------------------------------------------------------------
(* The board keeps the occupied squares, by color and by pattern, beside   *)
(* the squares themselves, toggling them on every change.                  *)

EmptyBoard ==
    [squares   |-> [sq \in Squares |-> NoPiece],
     occupied  |-> {},
     byColor   |-> [c \in Colors |-> {}],
     byPattern |-> [c \in Colors |-> [p \in Patterns |-> {}]]]

ToggleSets(b, piece, sq) ==
    [b EXCEPT !.occupied = Xor(@, {sq}),
              !.byColor[piece.color] = Xor(@, {sq}),
              !.byPattern[piece.color][PatternOf(piece)] = Xor(@, {sq})]

SetSquare(b, sq, piece) ==
    LET old     == b.squares[sq]
        cleared == IF old = NoPiece THEN b ELSE ToggleSets(b, old, sq)
        placed  == [cleared EXCEPT !.squares[sq] = piece]
    IN  IF piece = NoPiece THEN placed ELSE ToggleSets(placed, piece, sq)

(* A board with the pieces of `f`, a function from some squares to pieces. *)
BoardOf(f) ==
    LET put[n \in 0..(Files * Ranks)] ==
            IF n = 0 THEN EmptyBoard
            ELSE IF n - 1 \in DOMAIN f THEN SetSquare(put[n - 1], n - 1, f[n - 1])
            ELSE put[n - 1]
    IN  put[Files * Ranks]

Get(b, sq) == b.squares[sq]
HasKing(b, c) == b.byPattern[c]["King"] # {}
King(b, c) == Lowest(b.byPattern[c]["King"])

----------------------------------------------------------------------------
(* Step tables, as moves of Black; White's are turned upside down.         *)

PawnSteps   == {<<0, -1>>}
KnightSteps == {<<1, -2>>, <<-1, -2>>}
SilverSteps == {<<0, -1>>, <<1, -1>>, <<-1, -1>>, <<1, 1>>, <<-1, 1>>}
GoldSteps   == {<<0, -1>>, <<1, -1>>, <<-1, -1>>, <<1, 0>>, <<-1, 0>>, <<0, 1>>}
KingSteps   == GoldSteps \cup SilverSteps

DrSign(c) == IF c = Black THEN 1 ELSE -1
StepTable(steps, c) ==
    [sq \in Squares |->
        {SquareAt(File(sq) + d[1], Rank(sq) + d[2] * DrSign(c)) :
            d \in {e \in steps : OnBoard(File(sq) + e[1], Rank(sq) + e[2] * DrSign(c))}}]

PawnAttacks   == [c \in Colors |-> StepTable(PawnSteps, c)]
KnightAttacks == [c \in Colors |-> StepTable(KnightSteps, c)]
SilverAttacks == [c \in Colors |-> StepTable(SilverSteps, c)]
GoldAttacks   == [c \in Colors |-> StepTable(GoldSteps, c)]
KingAttacks   == [c \in Colors |-> StepTable(KingSteps, c)]

(* The eight queen lines. *)
Orthogonals == {<<0, -1>>, <<0, 1>>, <<1, 0>>, <<-1, 0>>}
Diagonals   == {<<1, -1>>, <<-1, -1>>, <<1, 1>>, <<-1, 1>>}
Directions  == Orthogonals \cup Diagonals
NoDir == <<0, 0>>

Ray == [d \in Directions |-> [sq \in Squares |->
           {SquareAt(File(sq) + n * d[1], Rank(sq) + n * d[2]) :
               n \in {k \in 1..(Files + Ranks) :
                         OnBoard(File(sq) + k * d[1], Rank(sq) + k * d[2])}}]]

RayDir == [a \in Squares |-> [b \in Squares |->
              IF \E d \in Directions : b \in Ray[d][a]
              THEN CHOOSE d \in Directions : b \in Ray[d][a] ELSE NoDir]]

Between == [a \in Squares |-> [b \in Squares |->
               IF RayDir[a][b] = NoDir THEN {}
               ELSE Ray[RayDir[a][b]][a] \cap Ray[RayDir[b][a]][b]]]

(* The ray from `from` through `to`, to the edge. *)
RayToward(from, to) ==
    IF RayDir[from][to] = NoDir THEN {} ELSE Ray[RayDir[from][to]][from]

(* On the same ray out of the king, on the same side of it. *)
Aligned(king, a, b) ==
    /\ RayDir[king][a] # NoDir
    /\ RayDir[king][a] = RayDir[king][b]

LanceStep(c, sq) == Ray[<<0, -DrSign(c)>>][sq]

----------------------------------------------------------------------------
(* Slider attacks stop at and include the first occupied square.           *)

CutRay(d, sq, occ) == {t \in Ray[d][sq] : Between[sq][t] \cap occ = {}}
LanceAttacks(c, sq, occ) == CutRay(<<0, -DrSign(c)>>, sq, occ)
BishopAttacks(sq, occ) == UNION {CutRay(d, sq, occ) : d \in Diagonals}
RookAttacks(sq, occ) == UNION {CutRay(d, sq, occ) : d \in Orthogonals}
HorseAttacks(sq, occ) == BishopAttacks(sq, occ) \cup KingAttacks[Black][sq]
DragonAttacks(sq, occ) == RookAttacks(sq, occ) \cup KingAttacks[Black][sq]

AttacksOf(from, piece, occ) ==
    LET c == piece.color IN
    CASE PatternOf(piece) = "Pawn"   -> PawnAttacks[c][from]
      [] PatternOf(piece) = "Lance"  -> LanceAttacks(c, from, occ)
      [] PatternOf(piece) = "Knight" -> KnightAttacks[c][from]
      [] PatternOf(piece) = "Silver" -> SilverAttacks[c][from]
      [] PatternOf(piece) = "Gold"   -> GoldAttacks[c][from]
      [] PatternOf(piece) = "Bishop" -> BishopAttacks(from, occ)
      [] PatternOf(piece) = "Rook"   -> RookAttacks(from, occ)
      [] PatternOf(piece) = "Horse"  -> HorseAttacks(from, occ)
      [] PatternOf(piece) = "Dragon" -> DragonAttacks(from, occ)
      [] PatternOf(piece) = "King"   -> KingAttacks[c][from]

(* The attackers of a square, by reverse symmetry: a piece of `attacker`   *)
(* attacks `sq` from where a piece of the other color on `sq` would attack.*)
AttackersOcc(b, sq, attacker, occ) ==
    LET opp    == Flip(attacker)
        own(p) == b.byPattern[attacker][p]
        ring   == KingAttacks[attacker][sq]
        bishop == BishopAttacks(sq, occ)
        rook   == RookAttacks(sq, occ)
    IN  UNION {PawnAttacks[opp][sq] \cap own("Pawn"),
               LanceAttacks(opp, sq, occ) \cap own("Lance"),
               KnightAttacks[opp][sq] \cap own("Knight"),
               SilverAttacks[opp][sq] \cap own("Silver"),
               GoldAttacks[opp][sq] \cap own("Gold"),
               bishop \cap own("Bishop"),
               (bishop \cup ring) \cap own("Horse"),
               rook \cap own("Rook"),
               (rook \cup ring) \cap own("Dragon"),
               ring \cap own("King")}

Attackers(b, sq, attacker) == AttackersOcc(b, sq, attacker, b.occupied)
IsAttackedBy(b, sq, attacker) == Attackers(b, sq, attacker) # {}

(* Both colors at once; a lance is read off the rook walk, since it attacks *)
(* from the part of the file ahead of it.                                   *)
AttackersToBoth(b, sq, occ) ==
    LET ring   == KingAttacks[Black][sq]
        bishop == BishopAttacks(sq, occ)
        rook   == RookAttacks(sq, occ)
        of(c)  == LET own(p) == b.byPattern[c][p] IN
            UNION {PawnAttacks[Flip(c)][sq] \cap own("Pawn"),
                   (rook \cap LanceStep(Flip(c), sq)) \cap own("Lance"),
                   KnightAttacks[Flip(c)][sq] \cap own("Knight"),
                   SilverAttacks[Flip(c)][sq] \cap own("Silver"),
                   GoldAttacks[Flip(c)][sq] \cap own("Gold"),
                   bishop \cap own("Bishop"),
                   (bishop \cup ring) \cap own("Horse"),
                   rook \cap own("Rook"),
                   (rook \cup ring) \cap own("Dragon"),
                   ring \cap own("King")}
    IN  of(Black) \cup of(White)

(* The pieces that alone block a slider of the other side from c's king,   *)
(* and the sliders such a piece of c's own is pinned by.                   *)
Snipers(b, c) ==
    LET k      == King(b, c)
        foe(p) == b.byPattern[Flip(c)][p]
    IN  UNION {RookAttacks(k, {}) \cap (foe("Rook") \cup foe("Dragon")),
               BishopAttacks(k, {}) \cap (foe("Bishop") \cup foe("Horse")),
               LanceAttacks(c, k, {}) \cap foe("Lance")}
BlockersBetween(b, c, sniper) ==
    Between[King(b, c)][sniper] \cap (b.occupied \ Snipers(b, c))
PinningSnipers(b, c) ==
    IF ~HasKing(b, c) THEN {}
    ELSE {s \in Snipers(b, c) : Cardinality(BlockersBetween(b, c, s)) = 1}
SliderBlockers(b, c) == UNION {BlockersBetween(b, c, s) : s \in PinningSnipers(b, c)}
SliderPinners(b, c) ==
    {s \in PinningSnipers(b, c) : BlockersBetween(b, c, s) \cap b.byColor[c] # {}}

=============================================================================
