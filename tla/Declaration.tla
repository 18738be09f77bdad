----------------------------- MODULE Declaration -----------------------------
(***************************************************************************)
(* The entering-king declaration: the thresholds taken from the root of a  *)
(* search, the point count and the try. A win has no move of its own.      *)
(***************************************************************************)
EXTENDS ScanRules

CONSTANTS
    PointTable,    \* per point rule, the thresholds by color before a handicap
    Handicapped,   \* the rules that charge White for the pieces missing
    FieldPieces,   \* pieces needed in the field, 11 in the code
    FullSet        \* points of a full set, kings included, 56 in the code

SmallHand == {"Pawn", "Lance", "Knight", "Silver", "Gold"}
HandPoints(hand) ==
    SumFunctionOnSet(hand, SmallHand) + 5 * (hand.Bishop + hand.Rook)
Big(piece) == piece.kind \in {"Bishop", "Rook"}

(* The mutant of Material: only what is on the board. *)
BoardMaterial(p) ==
    Cardinality(p.board.occupied) + 4 * Cardinality({sq \in p.board.occupied : Big(Get(p.board, sq))})

(* Every piece on the board and in hand, a big one five times. *)
Material(p) ==
    Cardinality(p.board.occupied)
        + 4 * Cardinality({sq \in p.board.occupied : Big(Get(p.board, sq))})
        + HandPoints(p.hands[Black]) + HandPoints(p.hands[White])

EnteringKingPoints(rule, p) ==
    IF rule \notin DOMAIN PointTable THEN [c \in Colors |-> 0]
    ELSE [c \in Colors |-> IF c = White /\ rule \in Handicapped
                           THEN PointTable[rule][c] - (FullSet - Material(p))
                           ELSE PointTable[rule][c]]

EnteringKingConfig(rule, root) == [rule |-> rule, points |-> EnteringKingPoints(rule, root)]

InField(sq, c) == Depth(c, sq) < ZoneRanks
FieldCount(p, c) ==
    LET here == {sq \in PiecesScan(p.board, c) : InField(sq, c)}
    IN  [pieces |-> Cardinality(here),
         score |-> Cardinality(here) - 1 + 4 * Cardinality({sq \in here : Big(Get(p.board, sq))})
                   + HandPoints(p.hands[c])]

DeclarationWinPoints(p, c, points) ==
    /\ ~InCheckScan(p.board, c)
    /\ \E k \in KingScan(p.board, c) : InField(k, c)
    /\ FieldCount(p, c).pieces >= FieldPieces
    /\ FieldCount(p, c).score >= points[c]

(* The opponent king's first square, next to the king, without a piece of    *)
(* ours and out of the opponent's reach once the king has left its square.  *)
TrySquare(c) == SquareAt(Files \div 2, FarRank(c, 0))
DeclarationWinTry(p) ==
    {Mv(k, TrySquare(p.stm), Get(p.board, k)) :
        k \in {sq \in KingScan(p.board, p.stm) :
                 /\ TrySquare(p.stm) \in KingAttacks[p.stm][sq]
                 /\ Get(p.board, TrySquare(p.stm)).color # p.stm
                 /\ ~IsAttackedDiscounting(p.board, TrySquare(p.stm), Them(p), sq)}}

Declares(p, ekr) ==
    \/ ekr.rule = "Try" /\ DeclarationWinTry(p) # {}
    \/ ekr.rule \in DOMAIN PointTable /\ DeclarationWinPoints(p, p.stm, ekr.points)

(* The thresholds of the root are those of every position under it, they     *)
(* never let both sides declare, and a try is a legal move.                 *)
DeclarationSound(ekr, p) ==
    /\ ekr.points = EnteringKingPoints(ekr.rule, p)
    /\ ekr.rule \in DOMAIN PointTable =>
          \E c \in Colors : ~DeclarationWinPoints(p, c, ekr.points)
    /\ ekr.rule = "Try" => DeclarationWinTry(p) \subseteq LegalMoves(p)

=============================================================================
