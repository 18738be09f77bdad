------------------------------ MODULE Position ------------------------------
(***************************************************************************)
(* The position of attic-state: the board, the hands and the side to move, *)
(* the keys kept up to date move by move, the cached check info with the   *)
(* parents' values behind it, and the repetition chain.                    *)
(*                                                                         *)
(* A Zobrist term is a token.  Keys that are XORs of terms are sets of     *)
(* tokens, toggled; the hand key is a sum of steps, one count per color    *)
(* and kind.                                                               *)
(***************************************************************************)
EXTENDS MoveGen, RepetitionRule

Psq(piece, sq) == {<<piece, sq>>}
SideTerm == {<<NoPiece, -1>>}
NoPawnsSeed == {<<NoPiece, -2>>}

IsMinorPiece(piece) ==
    IF piece.promoted THEN piece.kind \in {"Pawn", "Lance", "Knight", "Silver"}
    ELSE piece.kind \in {"Lance", "Knight", "Silver", "Gold"}

XorPiecePartial(p, piece, sq) ==
    IF piece.kind = "Pawn" /\ ~piece.promoted
    THEN [p EXCEPT !.pawnKey = Xor(@, Psq(piece, sq))]
    ELSE [p EXCEPT !.minorKey = IF IsMinorPiece(piece) THEN Xor(@, Psq(piece, sq)) ELSE @,
                   !.nonPawnKey[piece.color] = Xor(@, Psq(piece, sq))]

----------------------------------------------------------------------------
(* The keys from scratch.                                                  *)

PsqOf(b, S) == {<<Get(b, sq), sq>> : sq \in S}

RecomputedKeys(p) ==
    [boardKey |-> PsqOf(p.board, p.board.occupied)
                  \cup (IF p.stm = White THEN SideTerm ELSE {}),
     handKey  |-> p.hands]

RecomputedPartialKeys(p) ==
    LET on(cond(_)) == PsqOf(p.board, {sq \in p.board.occupied : cond(Get(p.board, sq))})
        pawn(pc) == pc.kind = "Pawn" /\ ~pc.promoted
    IN  [pawnKey    |-> NoPawnsSeed \cup on(pawn),
         minorKey   |-> on(IsMinorPiece),
         nonPawnKey |-> [c \in Colors |-> on(LAMBDA pc : ~pawn(pc) /\ pc.color = c)]]

(* refresh_keys, after direct mutations: the keys and the check info anew. *)
RefreshKeys(p) ==
    LET whole   == RecomputedKeys(p)
        partial == RecomputedPartialKeys(p)
        keyed   == [p EXCEPT !.boardKey   = whole.boardKey,
                             !.handKey    = whole.handKey,
                             !.pawnKey    = partial.pawnKey,
                             !.minorKey   = partial.minorKey,
                             !.nonPawnKey = partial.nonPawnKey]
    IN  [keyed EXCEPT !.ci = ComputeCheckInfo(keyed)]

NoCheckInfo ==
    [boardKey |-> {}, enemyKing |-> NoSquare, ownKing |-> NoSquare, inCheck |-> FALSE,
     checkSquares |-> [pat \in Patterns |-> {}], blockers |-> [c \in Colors |-> {}],
     pinners |-> [c \in Colors |-> {}], checkers |-> {}]

(* Position::empty. *)
EmptyPosition ==
    [board |-> EmptyBoard, hands |-> [c \in Colors |-> EmptyHand], stm |-> Black,
     ply |-> 1, history |-> <<>>, root |-> RootState({}, [c \in Colors |-> EmptyHand], Black),
     boardKey |-> {}, handKey |-> [c \in Colors |-> EmptyHand],
     pawnKey |-> NoPawnsSeed, minorKey |-> {}, nonPawnKey |-> [c \in Colors |-> {}],
     ci |-> NoCheckInfo, ciStack |-> <<>>]

(* A position set up piece by piece, then refreshed. *)
SetUp(pieces, hands, stm) ==
    RefreshKeys([EmptyPosition EXCEPT !.board = BoardOf(pieces), !.hands = hands, !.stm = stm])

----------------------------------------------------------------------------
(* Moves.                                                                  *)

(* The root is captured again whenever the line starts afresh. *)
RootOf(p) ==
    IF p.history = <<>> THEN RootState(p.boardKey, p.hands, p.stm) ELSE p.root
PrevState(p) == IF p.history = <<>> THEN RootOf(p) ELSE p.history[Len(p.history)]

PieceBefore(m) == IF m.promote THEN Piece(m.piece.kind, m.piece.color) ELSE m.piece

(* One hand step of the key added or taken away. *)
AddStep(p, c, kind, n) == [p.handKey EXCEPT ![c][kind] = @ + n]

PlayDrop(p, m) ==
    LET mover == p.stm
        moved == [p EXCEPT !.board = SetSquare(p.board, m.to, m.piece),
                           !.hands[mover] = Decrement(p.hands[mover], m.piece.kind),
                           !.boardKey = Xor(@, Psq(m.piece, m.to)),
                           !.handKey = AddStep(p, mover, m.piece.kind, -1)]
    IN  XorPiecePartial(moved, m.piece, m.to)

PlayBoardMove(p, m) ==
    LET mover  == p.stm
        cap    == Get(p.board, m.to)
        before == PieceBefore(m)
        board  == SetSquare(SetSquare(p.board, m.to, m.piece), m.from, NoPiece)
        taken  == IF cap = NoPiece THEN [p EXCEPT !.board = board]
                  ELSE XorPiecePartial(
                         [p EXCEPT !.board = board,
                                   !.hands[mover] = Increment(p.hands[mover], cap.kind),
                                   !.boardKey = Xor(@, Psq(cap, m.to)),
                                   !.handKey = AddStep(p, mover, cap.kind, 1)], cap, m.to)
        keyed  == [taken EXCEPT !.boardKey = Xor(Xor(@, Psq(before, m.from)),
                                                 Psq(m.piece, m.to))]
    IN  XorPiecePartial(XorPiecePartial(keyed, before, m.from), m.piece, m.to)

(* do_move_with_check: the check info of the child is built from the        *)
(* parent's, the child state is pushed and its repetition stored.           *)
DoMoveWithCheck(p, m, givesCheck) ==
    LET mover == p.stm
        half  == IF m.drop THEN PlayDrop(p, m) ELSE PlayBoardMove(p, m)
        moved == [half EXCEPT !.stm = Flip(mover),
                              !.ply = @ + 1,
                              !.boardKey = Xor(@, SideTerm)]
        checkers == IF givesCheck
                    THEN DifferentialCheckers(moved.board, m, mover, p.ci) ELSE {}
        state == StateAfterMove(PrevState(p), moved.boardKey, moved.hands, mover, givesCheck)
    IN  [moved EXCEPT !.root = RootOf(p),
                      !.ciStack = Append(@, p.ci),
                      !.ci = CheckInfoWith(moved, givesCheck, checkers),
                      !.history = StoreRepetition(Append(p.history, state), RootOf(p))]

DoMove(p, m) == DoMoveWithCheck(p, m, GivesCheck(p, m))

\* Mutant of TakeTurnBack: the child's check info stays.
TakeTurnBackInfoKept(p) ==
    [p EXCEPT !.history = SubSeq(@, 1, Len(@) - 1),
              !.ciStack = SubSeq(@, 1, Len(@) - 1),
              !.stm = Flip(@),
              !.ply = @ - 1,
              !.boardKey = Xor(@, SideTerm)]

(* What both takebacks share: the parent's check info and the turn. *)
TakeTurnBack(p) ==
    LET back == [p EXCEPT !.history = SubSeq(@, 1, Len(@) - 1),
                          !.ciStack = SubSeq(@, 1, Len(@) - 1),
                          !.stm = Flip(@),
                          !.ply = @ - 1,
                          !.boardKey = Xor(@, SideTerm)]
    IN  [back EXCEPT !.ci = p.ciStack[Len(p.ciStack)]]

UndoMove(p, m, captured) ==
    LET back   == TakeTurnBack(p)
        mover  == back.stm
        before == PieceBefore(m)
        lifted == XorPiecePartial([back EXCEPT !.boardKey = Xor(@, Psq(m.piece, m.to))],
                                  m.piece, m.to)
        moved  == XorPiecePartial([lifted EXCEPT !.boardKey = Xor(@, Psq(before, m.from))],
                                  before, m.from)
    IN  IF m.drop
        THEN [lifted EXCEPT !.board = SetSquare(p.board, m.to, NoPiece),
                            !.hands[mover] = Increment(p.hands[mover], m.piece.kind),
                            !.handKey = AddStep(p, mover, m.piece.kind, 1)]
        ELSE LET put == [moved EXCEPT
                           !.board = SetSquare(SetSquare(p.board, m.from, before), m.to, captured)]
             IN  IF captured = NoPiece THEN put
                 ELSE XorPiecePartial(
                        [put EXCEPT !.hands[mover] = Decrement(p.hands[mover], captured.kind),
                                    !.boardKey = Xor(@, Psq(captured, m.to)),
                                    !.handKey = AddStep(p, mover, captured.kind, -1)],
                        captured, m.to)

DoNullMove(p) ==
    LET mover == p.stm
        moved == [p EXCEPT !.stm = Flip(@), !.ply = @ + 1, !.boardKey = Xor(@, SideTerm)]
        state == StateAfterNull(PrevState(p), moved.boardKey, moved.hands, mover)
    IN  [moved EXCEPT !.root = RootOf(p),
                      !.ciStack = Append(@, p.ci),
                      !.ci = CheckInfoWith(moved, FALSE, {}),
                      !.history = Append(@, state)]

UndoNullMove(p) == TakeTurnBack(p)

=============================================================================
