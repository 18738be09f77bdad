----------------------------- MODULE ScanRules -----------------------------
(***************************************************************************)
(* The rules of the game by walking the board square by square, the way    *)
(* the scanning oracles beside attic-state's generators do: no piece sets, *)
(* no attack tables, no cached check info.  The generators and predicates  *)
(* of MoveGen are checked against these definitions.                       *)
(***************************************************************************)
EXTENDS MoveGen

(* The single steps and the slides of a piece, as moves of Black. *)
PatternMovement ==
    [pat \in {"Pawn", "Lance", "Knight", "Silver", "Gold", "Bishop", "Horse", "Rook", "Dragon", "King"} |->
        [steps |-> CASE pat = "Pawn"   -> PawnSteps
                     [] pat = "Knight" -> KnightSteps
                     [] pat = "Silver" -> SilverSteps
                     [] pat = "Gold"   -> GoldSteps
                     [] pat = "Horse"  -> Orthogonals
                     [] pat = "Dragon" -> Diagonals
                     [] pat = "King"   -> KingSteps
                     [] OTHER          -> {},
         slides |-> CASE pat = "Lance" -> {<<0, -1>>}
                      [] pat \in {"Bishop", "Horse"} -> Diagonals
                      [] pat \in {"Rook", "Dragon"}  -> Orthogonals
                      [] OTHER         -> {}]]
Movement(piece) == PatternMovement[PatternOf(piece)]

(* n steps of d from a square, seen by c; the walk may leave the board. *)
StepFrom(sq, d, n, c) == <<File(sq) + n * d[1], Rank(sq) + n * d[2] * DrSign(c)>>
OnWalk(sq, d, n, c) == OnBoard(StepFrom(sq, d, n, c)[1], StepFrom(sq, d, n, c)[2])
SquareOnWalk(sq, d, n, c) == SquareAt(StepFrom(sq, d, n, c)[1], StepFrom(sq, d, n, c)[2])

(* A slide goes on while the squares before it are empty. *)
SlideScan(b, from, d, c) ==
    {SquareOnWalk(from, d, n, c) :
        n \in {k \in 1..(Files + Ranks) :
                 /\ OnWalk(from, d, k, c)
                 /\ \A j \in 1..(k - 1) : Get(b, SquareOnWalk(from, d, j, c)) = NoPiece}}

AttackSetScan(b, from, piece) ==
    {SquareOnWalk(from, d, 1, piece.color) :
        d \in {e \in Movement(piece).steps : OnWalk(from, e, 1, piece.color)}}
    \cup UNION {SlideScan(b, from, d, piece.color) : d \in Movement(piece).slides}

ReachableScan(b, from, piece) ==
    {to \in AttackSetScan(b, from, piece) :
        Get(b, to) = NoPiece \/ Get(b, to).color # piece.color}

PiecesScan(b, c) == {sq \in Squares : Get(b, sq) # NoPiece /\ Get(b, sq).color = c}
KingScan(b, c) == {sq \in Squares : Get(b, sq) = Piece("King", c)}

IsAttackedByScan(b, sq, attacker) ==
    \E from \in PiecesScan(b, attacker) : sq \in AttackSetScan(b, from, Get(b, from))
InCheckScan(b, c) == \E k \in KingScan(b, c) : IsAttackedByScan(b, k, Flip(c))

GivesCheckReference(p, m) == InCheckScan(ApplyToBoard(p.board, m), Them(p))
GivesDirectCheckReference(p, m) ==
    KingScan(p.board, Them(p)) \cap AttackSetScan(p.board, m.to, m.piece) # {}
IsLegalReference(p, m) ==
    LET b == ApplyToBoard(p.board, m) IN KingScan(b, p.stm) # {} /\ ~InCheckScan(b, p.stm)

(* The places a piece could never move from. *)
DeadEnd(piece, to) ==
    \/ PatternOf(piece) \in {"Pawn", "Lance"} /\ Depth(piece.color, to) = 0
    \/ PatternOf(piece) = "Knight" /\ Depth(piece.color, to) < 2

BoardMovesOf(p, from) ==
    LET pc == Get(p.board, from)
        to == ReachableScan(p.board, from, pc)
    IN  {Mv(from, t, pc) : t \in {u \in to : ~DeadEnd(pc, u)}}
        \cup {MvPromote(from, t, pc) :
                t \in {u \in to : /\ ~IsNonPromotable(pc)
                                  /\ InZone(from, pc.color) \/ InZone(u, pc.color)}}

NifuFilesScan(b, c) ==
    {f \in 0..(Files - 1) :
        \E r \in 0..(Ranks - 1) : Get(b, SquareAt(f, r)) = Piece("Pawn", c)}

DropsOf(p, kind) ==
    {m \in {MvDrop(kind, p.stm, to) : to \in {sq \in Squares : Get(p.board, sq) = NoPiece}} :
        /\ ~DeadEnd(m.piece, m.to)
        /\ kind = "Pawn" => File(m.to) \notin NifuFilesScan(p.board, p.stm)}

(* Every move that leaves the mover's king safe, uchifuzume not yet refused. *)
SafeMoves(p) ==
    {m \in UNION ({BoardMovesOf(p, from) : from \in PiecesScan(p.board, p.stm)}
                  \cup {DropsOf(p, k) : k \in {h \in HandKinds : p.hands[p.stm][h] > 0}}) :
        IsLegalReference(p, m)}

(* A pawn dropped with check and no reply to it. *)
IsUchifuzumeAfterDrop(p, m) ==
    LET post == [p EXCEPT !.board = ApplyToBoard(p.board, m), !.stm = Them(p)] IN
    /\ m.drop /\ m.piece.kind = "Pawn"
    /\ InCheckScan(post.board, post.stm)
    /\ SafeMoves(post) = {}

LegalMoves(p) == {m \in SafeMoves(p) : ~IsUchifuzumeAfterDrop(p, m)}

(* Hands in the order of the kinds. *)
HandOrder == <<"Pawn", "Lance", "Knight", "Silver", "Gold", "Bishop", "Rook">>

(* do_move on the board, the hands and the side to move. *)
After(p, m) ==
    LET cap == Get(p.board, m.to)
        kept == IF m.drop THEN Decrement(p.hands[p.stm], m.piece.kind)
                ELSE IF cap = NoPiece THEN p.hands[p.stm]
                ELSE Increment(p.hands[p.stm], cap.kind)
    IN  [p EXCEPT !.board = ApplyToBoard(@, m), !.hands[p.stm] = kept, !.stm = Flip(@)]

=============================================================================
