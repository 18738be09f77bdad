------------------------------ MODULE MoveGen ------------------------------
(***************************************************************************)
(* The move generators and move predicates of attic-state.  A position is  *)
(* a record with at least the board, the hands, the side to move, the      *)
(* board key and the cached check info `ci`.  A move carries the piece as  *)
(* it stands after the move.                                               *)
(***************************************************************************)
EXTENDS Shogi, SequencesExt

NoSquare == -1

Mv(from, to, piece) ==
    [drop |-> FALSE, from |-> from, to |-> to, promote |-> FALSE, piece |-> piece]
MvPromote(from, to, piece) ==
    [drop |-> FALSE, from |-> from, to |-> to, promote |-> TRUE,
     piece |-> Promoted(piece)]
MvDrop(kind, c, to) ==
    [drop |-> TRUE, from |-> NoSquare, to |-> to, promote |-> FALSE,
     piece |-> Piece(kind, c)]

(* The board half of a move. *)
ApplyToBoard(b, m) ==
    IF m.drop THEN SetSquare(b, m.to, m.piece)
    ELSE SetSquare(SetSquare(b, m.to, m.piece), m.from, NoPiece)

Them(p) == Flip(p.stm)
OwnPieces(p) == p.board.byColor[p.stm]

----------------------------------------------------------------------------
(* The check info cached with every position.                              *)

(* From where a piece of the side to move checks the king of `enemy`: the   *)
(* squares an enemy piece of that pattern on the king would attack.         *)
CheckSquaresOf(b, enemy) ==
    IF ~HasKing(b, enemy) THEN [pat \in Patterns |-> {}]
    ELSE LET k == King(b, enemy)
             bishop == BishopAttacks(k, b.occupied)
             rook   == RookAttacks(k, b.occupied)
             ring   == KingAttacks[enemy][k]
         IN  [Pawn   |-> PawnAttacks[enemy][k],
              Lance  |-> LanceAttacks(enemy, k, b.occupied),
              Knight |-> KnightAttacks[enemy][k],
              Silver |-> SilverAttacks[enemy][k],
              Gold   |-> GoldAttacks[enemy][k],
              Bishop |-> bishop,
              Rook   |-> rook,
              Horse  |-> bishop \cup ring,
              Dragon |-> rook \cup ring,
              King   |-> ring]

KingOrNone(b, c) == IF HasKing(b, c) THEN King(b, c) ELSE NoSquare

(* compute_check_info_impl with the check flag and the checkers injected. *)
CheckInfoWith(p, inCheck, checkers) ==
    [boardKey     |-> p.boardKey,
     enemyKing    |-> KingOrNone(p.board, Them(p)),
     ownKing      |-> KingOrNone(p.board, p.stm),
     inCheck      |-> inCheck,
     checkSquares |-> CheckSquaresOf(p.board, Them(p)),
     blockers     |-> [c \in Colors |-> SliderBlockers(p.board, c)],
     pinners      |-> [c \in Colors |-> SliderPinners(p.board, Flip(c))],
     checkers     |-> checkers]

(* ... and with both probed from the board. *)
ComputeCheckInfo(p) ==
    LET attackers == IF HasKing(p.board, p.stm)
                     THEN Attackers(p.board, King(p.board, p.stm), Them(p)) ELSE {}
    IN  CheckInfoWith(p, attackers # {}, attackers)

(* The checkers of the child, from the parent's check info and the move;    *)
(* `b` is the board after the move.                                         *)
DifferentialCheckers(b, m, mover, parent) ==
    LET k == parent.enemyKing
        direct == IF m.to \in parent.checkSquares[PatternOf(m.piece)] THEN {m.to} ELSE {}
        discovers == /\ k # NoSquare
                     /\ ~m.drop
                     /\ m.from \in parent.blockers[Flip(mover)]
                     /\ ~Aligned(k, m.from, m.to)
        line == IF RayDir[k][m.from] \in Diagonals
                THEN BishopAttacks(k, b.occupied) ELSE RookAttacks(k, b.occupied)
    IN  IF discovers
        THEN direct \cup (line \cap RayToward(k, m.from) \cap b.byColor[mover])
        ELSE direct

----------------------------------------------------------------------------
(* Move predicates.                                                        *)

GivesDirectCheck(p, m) == m.to \in p.ci.checkSquares[PatternOf(m.piece)]

GivesCheck(p, m) ==
    /\ p.ci.enemyKing # m.to
    /\ \/ GivesDirectCheck(p, m)
       \/ /\ ~m.drop
          /\ p.ci.enemyKing # NoSquare
          /\ m.from \in p.ci.blockers[Them(p)]
          /\ ~Aligned(p.ci.enemyKing, m.from, m.to)

\* Mutant of IsAttackedDiscounting: the king still shields the square behind it.
IsAttackedShielded(b, sq, attacker, discount) == IsAttackedBy(b, sq, attacker)

IsAttackedDiscounting(b, sq, attacker, discount) ==
    IsAttackedBy(SetSquare(b, discount, NoPiece), sq, attacker)

IsLegal(p, m) ==
    \/ m.drop
    \/ /\ m.piece.kind = "King"
       /\ ~IsAttackedDiscounting(p.board, m.to, Them(p), m.from)
    \/ /\ ~m.drop
       /\ m.piece.kind # "King"
       /\ p.ci.ownKing # NoSquare
       /\ \/ m.from \notin p.ci.blockers[p.stm]
          \/ Aligned(p.ci.ownKing, m.from, m.to)

(* c's pieces, its king and lances apart, that can take a pawn on `sq`. *)
AttackersToPawn(b, c, sq) ==
    LET own(pat)  == b.byPattern[c][pat]
        promoted2 == own("Horse") \cup own("Dragon")
    IN  UNION {KnightAttacks[Flip(c)][sq] \cap own("Knight"),
               SilverAttacks[Flip(c)][sq] \cap (own("Silver") \cup promoted2),
               GoldAttacks[Flip(c)][sq] \cap (own("Gold") \cup promoted2),
               BishopAttacks(sq, b.occupied) \cap (own("Bishop") \cup own("Horse")),
               RookAttacks(sq, b.occupied) \cap (own("Rook") \cup own("Dragon"))}

(* The pawn dropped on `to` checks; the drop is legal when the king can take *)
(* it, another piece can, or the king has a square to go to.                *)
LegalDrop(p, to) ==
    LET b    == p.board
        them == Them(p)
        k    == King(b, them)
        escapes == (KingAttacks[them][k] \ b.byColor[them]) \ {to}
    IN  \/ ~IsAttackedBy(b, to, p.stm)
        \/ AttackersToPawn(b, them, to)
              \cap ((Squares \ p.ci.blockers[them]) \cup FileMask(File(to))) # {}
        \/ \E sq \in escapes :
              AttackersOcc(b, sq, p.stm, Xor(b.occupied, {to})) = {}

(* Uchifuzume: a pawn drop that mates. *)
DropIsUchifuzume(p, to) ==
    /\ HasKing(p.board, Them(p))
    /\ King(p.board, Them(p)) \in PawnAttacks[p.stm][to]
    /\ ~LegalDrop(p, to)

(* The one square a pawn drop checks from, if it is on the board. *)
UchiCandidates(p) ==
    IF HasKing(p.board, Them(p))
    THEN LET k == King(p.board, Them(p)) IN
         {sq \in Squares : File(sq) = File(k) /\ Rank(sq) = Rank(k) + DrSign(p.stm)}
    ELSE {}

(* Files on which the side to move has a pawn: a second one is nifu. *)
NifuFiles(p) == {File(sq) : sq \in p.board.byPattern[p.stm]["Pawn"]}

LegalPawnDrop(p, to) ==
    /\ File(to) \notin NifuFiles(p)
    /\ ~(to \in UchiCandidates(p) /\ DropIsUchifuzume(p, to))

(* The squares a single check is answered on, for a piece or for a drop. *)
BlockSquares(p) ==
    Between[CHOOSE sq \in p.ci.checkers : TRUE][p.ci.ownKing]

(* Widen a stored fragment, which lacks the moving piece, into a move of     *)
(* this position; <<>> when no piece of the side to move can make it.        *)
ToMove(p, f) ==
    LET moved == Get(p.board, f.from) IN
    IF f.drop THEN <<MvDrop(f.kind, p.stm, f.to)>>
    ELSE IF moved = NoPiece \/ moved.color # p.stm THEN <<>>
    ELSE IF ~f.promote THEN <<Mv(f.from, f.to, moved)>>
    ELSE IF IsNonPromotable(moved) THEN <<>> ELSE <<MvPromote(f.from, f.to, moved)>>

(* Without `all`, moves that should promote count as illegal. *)
PlainMoveOk(p, pc, m, all) ==
    LET deep == Depth(p.stm, m.to) IN
    IF all THEN ~(PatternOf(pc) \in {"Pawn", "Lance"} /\ deep = 0)
    ELSE CASE PatternOf(pc) = "Pawn" -> ~InZone(m.to, p.stm)
           [] PatternOf(pc) = "Lance" -> deep > 1
           [] PatternOf(pc) \in {"Bishop", "Rook"} ->
                 ~InZone(m.from, p.stm) /\ ~InZone(m.to, p.stm)
           [] OTHER -> TRUE

PseudoLegal(p, m, all) ==
    \/ /\ m.drop
       /\ m.piece = Piece(m.piece.kind, p.stm)
       /\ Get(p.board, m.to) = NoPiece
       /\ p.hands[p.stm][m.piece.kind] > 0
       /\ p.ci.inCheck => /\ Cardinality(p.ci.checkers) = 1
                          /\ m.to \in BlockSquares(p)
       /\ m.piece.kind = "Pawn" => LegalPawnDrop(p, m.to)
    \/ LET pc == Get(p.board, m.from) IN
       /\ ~m.drop
       /\ pc # NoPiece /\ pc.color = p.stm
       /\ m.to \in AttacksOf(m.from, pc, p.board.occupied)
       /\ m.to \notin OwnPieces(p)
       /\ IF m.promote
          THEN ~IsNonPromotable(pc) /\ m.piece = Promoted(pc)
          ELSE m.piece = pc /\ PlainMoveOk(p, pc, m, all)
       /\ (pc.kind # "King" /\ p.ci.inCheck) =>
             /\ Cardinality(p.ci.checkers) = 1
             /\ m.to \in BlockSquares(p) \cup p.ci.checkers

----------------------------------------------------------------------------
(* Emission.  Moves come out in the order of the code: piece groups in a    *)
(* fixed order, pieces and destinations by ascending square.                *)

ForEach(S, Op(_)) ==
    LET s == Ascending(S) IN FlattenSeq([i \in DOMAIN s |-> Op(s[i])])

Only(cond, m) == IF cond THEN <<m>> ELSE <<>>

EmitPawn(from, targets, pc, all) ==
    ForEach(targets, LAMBDA to :
        Only(InZone(to, pc.color), MvPromote(from, to, pc)) \o
        Only(~InZone(to, pc.color) \/ (all /\ Depth(pc.color, to) # 0),
             Mv(from, to, pc)))

EmitLance(from, targets, pc, all) ==
    ForEach(targets, LAMBDA to : Only(InZone(to, pc.color), MvPromote(from, to, pc))) \o
    ForEach(targets, LAMBDA to :
        Only(Depth(pc.color, to) >= (IF all THEN 1 ELSE 2), Mv(from, to, pc)))

EmitKnight(from, targets, pc) ==
    ForEach(targets, LAMBDA to :
        Only(InZone(to, pc.color), MvPromote(from, to, pc)) \o
        Only(Depth(pc.color, to) >= 2, Mv(from, to, pc)))

(* Silver, bishop and rook: destinations that promote first, then the rest; *)
(* a silver keeps its plain move, the big sliders only under `all`.         *)
EmitPromoter(from, targets, pc, plain) ==
    LET c     == pc.color
        promo == {to \in targets : InZone(from, c) \/ InZone(to, c)}
    IN  ForEach(promo, LAMBDA to :
            <<MvPromote(from, to, pc)>> \o Only(plain, Mv(from, to, pc))) \o
        ForEach(targets \ promo, LAMBDA to : <<Mv(from, to, pc)>>)

EmitPlainOnly(from, targets, pc) ==
    ForEach(targets, LAMBDA to : <<Mv(from, to, pc)>>)

Emit(from, targets, pc, all) ==
    CASE PatternOf(pc) = "Pawn"   -> EmitPawn(from, targets, pc, all)
      [] PatternOf(pc) = "Lance"  -> EmitLance(from, targets, pc, all)
      [] PatternOf(pc) = "Knight" -> EmitKnight(from, targets, pc)
      [] PatternOf(pc) = "Silver" -> EmitPromoter(from, targets, pc, TRUE)
      [] PatternOf(pc) \in {"Bishop", "Rook"} -> EmitPromoter(from, targets, pc, all)
      [] OTHER -> EmitPlainOnly(from, targets, pc)

(* The squares a target keeps, by its name. *)
TargetSquares(p, target) ==
    CASE target = "Captures"       -> p.board.byColor[Them(p)]
      [] target = "Quiets"         -> Squares \ p.board.occupied
      [] target = "BlockOrCapture" -> Squares \ OwnPieces(p)

EmitGroup(p, patterns, target, restrict, all) ==
    ForEach(UNION {p.board.byPattern[p.stm][pat] : pat \in patterns}, LAMBDA from :
        LET pc == Get(p.board, from)
        IN  Emit(from, AttacksOf(from, pc, p.board.occupied)
                          \cap TargetSquares(p, target) \cap restrict, pc, all))

PieceGroups(withKing) ==
    <<{"Pawn"}, {"Lance"}, {"Knight"}, {"Silver"}, {"Bishop", "Rook"},
      {"Gold", "Horse", "Dragon"} \cup (IF withKing THEN {"King"} ELSE {})>>

EmitPieces(p, target, restrict, all, withKing) ==
    FlattenSeq([i \in 1..6 |-> EmitGroup(p, PieceGroups(withKing)[i], target, restrict, all)])

DropOrder == <<"Knight", "Lance", "Silver", "Gold", "Bishop", "Rook">>

(* Drops of the kinds in `kinds` on the squares of `S`. *)
DropBand(p, S, kinds) ==
    ForEach(S, LAMBDA sq : [i \in DOMAIN kinds |-> MvDrop(kinds[i], p.stm, sq)])

\* Mutant of PawnDropTargets: uchifuzume not refused.
PawnDropTargetsAll(p, base) ==
    {sq \in base : Depth(p.stm, sq) # 0 /\ File(sq) \notin NifuFiles(p)}

PawnDropTargets(p, base) ==
    LET open == {sq \in base : /\ Depth(p.stm, sq) # 0
                               /\ File(sq) \notin NifuFiles(p)}
    IN  open \ {sq \in UchiCandidates(p) \cap open : DropIsUchifuzume(p, sq)}

(* Pawns first; then, when a knight or a lance is in hand, rank by rank so   *)
(* that neither is dropped where it could never move.                       *)
EmitDrops(p, restrict) ==
    LET hand  == p.hands[p.stm]
        base  == restrict \ p.board.occupied
        kinds == SelectSeq(DropOrder, LAMBDA k : hand[k] > 0)
        but(K) == SelectSeq(kinds, LAMBDA k : k \notin K)
        rankOf(n) == RankMask(FarRank(p.stm, n))
        pawns == IF hand["Pawn"] > 0
                 THEN DropBand(p, PawnDropTargets(p, base), <<"Pawn">>) ELSE <<>>
    IN  IF but({"Knight", "Lance"}) = kinds
        THEN pawns \o DropBand(p, base, kinds)
        ELSE pawns
             \o DropBand(p, base \cap rankOf(0), but({"Knight", "Lance"}))
             \o DropBand(p, base \cap rankOf(1), but({"Knight"}))
             \o DropBand(p, base \ (rankOf(0) \cup rankOf(1)), kinds)

GenerateCaptures(p, all) == EmitPieces(p, "Captures", Squares, all, TRUE)
GenerateQuiets(p, all) ==
    EmitPieces(p, "Quiets", Squares, all, TRUE) \o EmitDrops(p, Squares)
GenerateNonEvasions(p, all) ==
    EmitPieces(p, "BlockOrCapture", Squares, all, TRUE) \o EmitDrops(p, Squares)

(* In check: king moves off the checkers' lines; then, against one checker,  *)
(* taking it or interposing, and interposing drops.                         *)
GenerateEvasions(p, all) ==
    LET k    == p.ci.ownKing
        king == Get(p.board, k)
        covered == UNION {AttacksOf(sq, Get(p.board, sq), p.board.occupied) :
                            sq \in p.ci.checkers}
        kingMoves == EmitPlainOnly(k,
                        (AttacksOf(k, king, p.board.occupied) \ OwnPieces(p)) \ covered,
                        king)
    IN  IF Cardinality(p.ci.checkers) >= 2 THEN kingMoves
        ELSE kingMoves
             \o EmitPieces(p, "BlockOrCapture", BlockSquares(p) \cup p.ci.checkers, all, FALSE)
             \o EmitDrops(p, BlockSquares(p))

GeneratePseudo(p, all) ==
    IF p.ci.inCheck THEN GenerateEvasions(p, all) ELSE GenerateNonEvasions(p, all)

GenerateLegalAll(p) == SelectSeq(GeneratePseudo(p, TRUE), LAMBDA m : IsLegal(p, m))

=============================================================================
