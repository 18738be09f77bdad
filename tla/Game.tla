-------------------------------- MODULE Game --------------------------------
(***************************************************************************)
(* One position as the search uses it: legal moves and null moves are      *)
(* played and taken back, in the order of a stack.  The properties compare *)
(* what the position keeps incrementally, and what the generators and      *)
(* predicates answer from it, with the rules walked square by square.      *)
(***************************************************************************)
EXTENDS Position, See, MateOne

CONSTANTS
    Starts,     \* the positions a line may start from
    MaxPlies    \* bound on the length of a line

VARIABLES
    start,  \* where this line started
    pos,    \* the position
    line    \* the stack: the move played, none for a null move, and what it captured

vars == <<start, pos, line>>

Init ==
    /\ start \in Starts
    /\ pos = start
    /\ line = <<>>

Play(m) ==
    /\ Len(line) < MaxPlies
    /\ pos' = DoMove(pos, m)
    /\ line' = Append(line, [move |-> <<m>>,
                             captured |-> IF m.drop THEN NoPiece ELSE Get(pos.board, m.to)])
    /\ UNCHANGED start

(* The search passes only out of check, and never twice in a row. *)
Pass ==
    /\ Len(line) < MaxPlies
    /\ ~pos.ci.inCheck
    /\ line # <<>> => line[Len(line)].move # <<>>
    /\ pos' = DoNullMove(pos)
    /\ line' = Append(line, [move |-> <<>>, captured |-> NoPiece])
    /\ UNCHANGED start

TakeBack ==
    /\ line # <<>>
    /\ LET top == line[Len(line)] IN
       pos' = IF top.move = <<>> THEN UndoNullMove(pos)
              ELSE UndoMove(pos, top.move[1], top.captured)
    /\ line' = SubSeq(line, 1, Len(line) - 1)
    /\ UNCHANGED start

Next ==
    \/ \E m \in ToSet(GenerateLegalAll(pos)) : Play(m)
    \/ Pass
    \/ TakeBack

Spec == Init /\ [][Next]_vars

----------------------------------------------------------------------------
(* Properties.                                                             *)

(* The takebacks restore everything: the position is what playing the line  *)
(* from the start gives, keys, check info and history included.  The root   *)
(* snapshot alone may be left from an earlier line.                         *)
Replay ==
    FoldLeft(LAMBDA p, step : IF step.move = <<>> THEN DoNullMove(p)
                              ELSE DoMove(p, step.move[1]), start, line)
IsReplayOf(replay) ==
    /\ [pos EXCEPT !.root = start.root] = [replay EXCEPT !.root = start.root]
    /\ line # <<>> => pos.root = replay.root
TakeBackRestores == IsReplayOf(Replay)

(* The keys, the partial keys and the piece sets kept move by move are those *)
(* of the board, the hands and the side to move.                             *)
KeysExact ==
    LET whole == RecomputedKeys(pos)
        partial == RecomputedPartialKeys(pos)
    IN  /\ pos.boardKey = whole.boardKey /\ pos.handKey = whole.handKey
        /\ pos.pawnKey = partial.pawnKey /\ pos.minorKey = partial.minorKey
        /\ pos.nonPawnKey = partial.nonPawnKey
        /\ pos.board = BoardOf([sq \in pos.board.occupied |-> Get(pos.board, sq)])

(* The cached check info, whose flag is injected and whose checkers are      *)
(* built from the parent's, is what a probe of the board finds.              *)
CheckInfoExact ==
    /\ pos.ci = ComputeCheckInfo(pos)
    /\ pos.ci.inCheck = InCheckScan(pos.board, pos.stm)
    /\ pos.ci.checkers = {sq \in PiecesScan(pos.board, Them(pos)) :
                            King(pos.board, pos.stm) \in
                                AttackSetScan(pos.board, sq, Get(pos.board, sq))}

(* Nothing carried from move to move goes astray: state, keys and check info. *)
PositionExact == TakeBackRestores /\ KeysExact /\ CheckInfoExact

(* No line of legal moves leaves a king to be taken, and no piece is lost or *)
(* made: board and hands hold what they held at the start.                   *)
Holding(p, kind) ==
    Cardinality({sq \in Squares : Get(p.board, sq).kind = kind})
    + (IF kind = "King" THEN 0 ELSE p.hands[Black][kind] + p.hands[White][kind])
KingsAndPiecesKept ==
    /\ ~InCheckScan(pos.board, Them(pos))
    /\ \A k \in Kinds : Holding(pos, k) = Holding(start, k)

(* The legal generator emits every legal move once: pins, double checks,     *)
(* interpositions, nifu, drops with no move and uchifuzume included.         *)
Lists(s, S) == ToSet(s) = S /\ Cardinality(S) = Len(s)
GeneratesLegalMoves == Lists(GenerateLegalAll(pos), LegalMoves(pos))

(* Out of check, captures and quiets split the moves; on every generated     *)
(* move the table-driven predicates agree with playing it and scanning.      *)
Agrees(m) ==
    /\ IsLegal(pos, m) = IsLegalReference(pos, m)
    /\ GivesCheck(pos, m) = GivesCheckReference(pos, m)
    /\ GivesDirectCheck(pos, m) = GivesDirectCheckReference(pos, m)
SplitBy(g, c, q) == ToSet(g) = ToSet(c) \cup ToSet(q) /\ Len(g) = Len(c) + Len(q)
PredicatesExact ==
    /\ \A m \in ToSet(GeneratePseudo(pos, TRUE)) : Agrees(m)
    /\ ~pos.ci.inCheck => SplitBy(GenerateNonEvasions(pos, TRUE),
                                  GenerateCaptures(pos, TRUE), GenerateQuiets(pos, TRUE))

(* A fragment some position's generator may have stored, widened to a move   *)
(* here, is pseudo-legal and legal exactly when this position's generator    *)
(* emits it and it is legal.                                                 *)
Fragments ==
    {f \in [drop : {FALSE}, from : Squares, to : Squares, promote : BOOLEAN, kind : {"None"}] :
        /\ f.promote => InZone(f.from, pos.stm) \/ InZone(f.to, pos.stm)
        /\ ~f.promote => ~(/\ f.to \in KnightAttacks[pos.stm][f.from]
                           /\ DeadEnd(Piece("Knight", pos.stm), f.to))}
    \cup {f \in [drop : {TRUE}, from : {0}, to : Squares, promote : {FALSE}, kind : HandKinds] :
            ~DeadEnd(Piece(f.kind, pos.stm), f.to)}
Remembered == UNION {ToSet(ToMove(pos, f)) : f \in Fragments}
PseudoLegalExact ==
    \A all \in BOOLEAN :
        {m \in Remembered : PseudoLegal(pos, m, all) /\ IsLegal(pos, m)}
            = {m \in ToSet(GeneratePseudo(pos, all)) : IsLegal(pos, m)}

(* The generators and the predicates asked of their moves tell the same story. *)
MovesExact == GeneratesLegalMoves /\ PredicatesExact /\ PseudoLegalExact

(* see_ge is true up to the value of the exchange and false above it, where   *)
(* the value is that of the least-valuable-attacker exchange, pins included.  *)
SeeExact ==
    \A m \in LegalMoves(pos) :
        /\ SeeGe(pos, m, SeeValue(pos, m))
        /\ ~SeeGe(pos, m, SeeValue(pos, m) + 1)

(* Every mate the detector can answer with is a legal move that checks and   *)
(* leaves no legal reply; the candidate masks drop none: without them the    *)
(* answer is the same.                                                       *)
NoReply(post) == post.ci.inCheck /\ SafeMoves(post) = {}
IsMate(m) == m \in LegalMoves(pos) /\ NoReply(DoMove(pos, m))
AllMate(mates) ==
    /\ \A t \in ToSet(mates) : IsMate(t.move)
    /\ Mate1Ply(pos) = FirstOf(mates)
MateOneSound ==
    ~pos.ci.inCheck =>
        AllMate(AllMates(pos, Unfiltered))

=============================================================================
