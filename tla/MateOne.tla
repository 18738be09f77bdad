------------------------------ MODULE MateOne ------------------------------
(***************************************************************************)
(* The one-ply mate detector of attic-state/mate.rs and its table of       *)
(* candidate origins.  It looks at drops first, then at dragons, rooks,    *)
(* horses, bishops, lances and the non-sliders, and returns the first mate *)
(* it finds; it misses some by design.                                     *)
(***************************************************************************)
EXTENDS ScanRules

StepTo(sq, c, n) ==
    IF OnBoard(File(sq), Rank(sq) + n * DrSign(c))
    THEN {SquareAt(File(sq), Rank(sq) + n * DrSign(c))} ELSE {}

CanPromoteMove(c, from, to) == InZone(from, c) \/ InZone(to, c)
Cross45(sq) == StepTable(Diagonals, Black)[sq]
RookStep(sq) == RookAttacks(sq, {})
BishopStep(sq) == BishopAttacks(sq, {})

----------------------------------------------------------------------------
(* CHECK_CAND_BB: for a king, the squares a piece of mc's may check it from  *)
(* in one move.  Only a filter: it must keep every origin that mates.        *)

BackFrom(attacks, S) == UNION {attacks[to] : to \in S}

CandPawnNoPro(k, mc) ==
    BackFrom(PawnAttacks[Flip(mc)], {to \in PawnAttacks[Flip(mc)][k] : ~InZone(to, mc)}) \ {k}
GoldPromotions(k, mc) == {to \in GoldAttacks[Flip(mc)][k] : InZone(to, mc)}
CandPawnPro(k, mc) == BackFrom(PawnAttacks[Flip(mc)], GoldPromotions(k, mc)) \ {k}
CandLance(k, mc) ==
    UNION {LanceStep(Flip(mc), sq) :
        sq \in {k} \cup {t \in RankMask(Rank(k)) : InZone(k, mc) /\ t \in KingAttacks[mc][k]}}
    \ {k}
CandKnight(k, mc) ==
    BackFrom(KnightAttacks[Flip(mc)], KnightAttacks[Flip(mc)][k] \cup GoldPromotions(k, mc))
    \ {k}
CandGold(k, mc) == BackFrom(GoldAttacks[Flip(mc)], GoldAttacks[Flip(mc)][k]) \ {k}

(* A king on the rank next to the zone is reached by silvers that leave it;  *)
(* one rank further, by silvers that promote behind them.                    *)
\* Mutant of CandSilver: without the squares left of the zone.
CandSilverShort(k, mc) ==
    (BackFrom(SilverAttacks[Flip(mc)], SilverAttacks[Flip(mc)][k] \cup GoldPromotions(k, mc)))
    \ {k}

CandSilver(k, mc) ==
    LET edge == {sq \in FileMask(File(k)) : Depth(mc, sq) = ZoneRanks - 1}
        row  == {sq \in Squares : Depth(mc, sq) = ZoneRanks - 1}
    IN  (BackFrom(SilverAttacks[Flip(mc)], SilverAttacks[Flip(mc)][k] \cup GoldPromotions(k, mc))
         \cup (IF Depth(mc, k) # ZoneRanks THEN {}
               ELSE edge \cup UNION {Cross45(sq) : sq \in edge}
                    \cup {sq \in row : File(sq) \in {File(k) - 2, File(k) + 2}})
         \cup (IF Depth(mc, k) # ZoneRanks + 1 THEN {} ELSE KnightAttacks[mc][k]))
        \ {k}

(* The masks of one query, and the masks that filter nothing. *)
CandsForKing(k, mc) ==
    [lance |-> CandLance(k, mc), gold |-> CandGold(k, mc), silver |-> CandSilver(k, mc),
     knight |-> CandKnight(k, mc), pawnNoPro |-> CandPawnNoPro(k, mc),
     pawnPro |-> CandPawnPro(k, mc),
     nonSlider |-> UNION {CandGold(k, mc), CandKnight(k, mc), CandSilver(k, mc),
                          CandPawnNoPro(k, mc), CandPawnPro(k, mc)} \ {k}]
Unfiltered ==
    [lance |-> Squares, gold |-> Squares, silver |-> Squares, knight |-> Squares,
     pawnNoPro |-> Squares, pawnPro |-> Squares, nonSlider |-> Squares]

----------------------------------------------------------------------------
(* What a check must stand up to.                                          *)

AttackersOf(b, sq, occ, c) == AttackersOcc(b, sq, c, occ) \cap occ

(* Them's pieces pinned once the mover has left `avoid`. *)
PinnedAvoid(p, avoid) ==
    LET b == p.board
        them == Them(p)
        between(s) == (Between[King(b, them)][s] \cap b.occupied) \ {avoid}
    IN  UNION {between(s) \cap b.byColor[them] :
                s \in {t \in Snipers(b, them) \ {avoid} : Cardinality(between(t)) <= 1}}

(* Can the enemy king step off, other than onto `to` or an attacked square?  *)
(* After a board move the king itself does not shield the squares behind it. *)
CanKingEscape(p, isMove, to, avoid, base) ==
    LET b    == p.board
        k    == p.ci.enemyKing
        occ  == (base \cup {to}) \ (IF isMove THEN {k} ELSE {})
        free == KingAttacks[Black][k] \ (avoid \cup {to} \cup b.byColor[Them(p)])
    IN  \E sq \in free : AttackersOf(b, sq, occ, p.stm) = {}

(* Can another piece of theirs take on `to`? *)
CanPieceCapture(p, to, pinned, occ) ==
    \E from \in AttackersOf(p.board, to, occ, Them(p)) :
        /\ Get(p.board, from).kind # "King"
        /\ from \in pinned => Aligned(p.ci.enemyKing, from, to)

Supported(p, to, occ) == AttackersOf(p.board, to, occ, p.stm) # {}

(* Moving off the pin would expose our own king. *)
Discovered(p, from, to) ==
    /\ from \in p.ci.blockers[p.stm] \cap OwnPieces(p)
    /\ ~Aligned(p.ci.ownKing, from, to)

DcCandidates(p) == p.ci.blockers[Them(p)] \cap OwnPieces(p)
(* A second check comes from behind the mover. *)
TwoCheck(p, from, to) ==
    from \in DcCandidates(p) /\ ~Aligned(p.ci.enemyKing, from, to)
PinnedNow(p) == p.ci.blockers[Them(p)] \cap p.board.byColor[Them(p)]

----------------------------------------------------------------------------
(* The detector tries moves in a fixed order; a try is a move that checks,   *)
(* with what the moved piece covers on its new square, the enemy pieces that *)
(* are pinned then, whether a second check makes captures irrelevant, and    *)
(* whether the piece needs support.                                          *)

Try(m, cover, pinned, double, needs) ==
    [move |-> m, cover |-> cover, pinned |-> pinned, double |-> double, needs |-> needs]

Slide(p, from) == p.board.occupied \ {from}

(* The tests all the loops share.                                            *)
Mates(p, t) ==
    LET m   == t.move
        occ == p.board.occupied \ {m.from}
    IN  /\ t.needs => Supported(p, m.to, occ)
        /\ ~m.drop => ~Discovered(p, m.from, m.to)
        /\ ~CanKingEscape(p, ~m.drop, m.to, t.cover, occ)
        /\ t.double \/ ~CanPieceCapture(p, m.to, t.pinned, occ)

----------------------------------------------------------------------------
(* Drops.                                                                  *)

DropTries(p) ==
    LET us   == p.stm
        them == Them(p)
        k    == p.ci.enemyKing
        has(kind) == p.hands[us][kind] > 0
        golds   == GoldAttacks[them][k]
        silvers == SilverAttacks[them][k]
        dropped == <<
            [kind |-> "Rook", to |-> RookStep(k) \cap KingAttacks[Black][k]],
            [kind |-> "Lance", to |-> PawnAttacks[them][k]],
            [kind |-> "Bishop", to |-> Cross45(k)],
            \* behind the king a rook was tried already
            [kind |-> "Gold", to |-> golds \ (IF has("Rook") THEN PawnAttacks[us][k] ELSE {})],
            [kind |-> "Silver", to |-> IF has("Gold") /\ has("Bishop") THEN {}
                                      ELSE silvers \ (IF has("Gold") THEN golds ELSE {})],
            [kind |-> "Knight", to |-> KnightAttacks[them][k]]>>
        \* the king cannot reach the knight that checks it
        cover(kind, to) == IF kind = "Knight" THEN {} ELSE AttacksOf(to, Piece(kind, us), {})
    IN  FlattenSeq([i \in DOMAIN dropped |->
            LET kind == dropped[i].kind IN
            ForEach(IF has(kind) THEN dropped[i].to \ p.board.occupied ELSE {}, LAMBDA to :
                <<Try(MvDrop(kind, us, to), cover(kind, to), PinnedNow(p), FALSE,
                      kind # "Knight")>>)])

----------------------------------------------------------------------------
(* Moves.                                                                  *)

(* A piece on `from` moved to `to`, promoted or not. *)
Made(p, from, to, promote) ==
    IF promote THEN MvPromote(from, to, Get(p.board, from)) ELSE Mv(from, to, Get(p.board, from))

(* The try of a move that checks with what it covers. *)
Checking(p, from, to, promote, cover, pinned, double) ==
    IF p.ci.enemyKing \notin cover THEN <<>>
    ELSE <<Try(Made(p, from, to, promote), cover, pinned, double, TRUE)>>

OfPattern(p, pat, cand, Loop(_)) == ForEach(p.board.byPattern[p.stm][pat] \cap cand, Loop)
Contact(p, from, attacks) == (attacks \ OwnPieces(p)) \cap KingAttacks[Black][p.ci.enemyKing]

DragonCover(p, from, to) ==
    IF to \in Cross45(p.ci.enemyKing) THEN DragonAttacks(to, Slide(p, from))
    ELSE RookStep(to) \cup KingAttacks[Black][to]
HorseCover(to) == BishopStep(to) \cup KingAttacks[Black][to]

DragonTries(p) == OfPattern(p, "Dragon", Squares, LAMBDA from :
    ForEach(Contact(p, from, DragonAttacks(from, Slide(p, from))), LAMBDA to :
        Checking(p, from, to, FALSE, DragonCover(p, from, to), PinnedAvoid(p, from), FALSE)))

RookTries(p) == OfPattern(p, "Rook", Squares, LAMBDA from :
    ForEach(Contact(p, from, RookAttacks(from, Slide(p, from))), LAMBDA to :
        LET promote == CanPromoteMove(p.stm, from, to)
        IN  Checking(p, from, to, promote,
                     IF promote THEN DragonCover(p, from, to) ELSE RookStep(to),
                     PinnedAvoid(p, from), from \in DcCandidates(p))))

HorseTries(p) == OfPattern(p, "Horse", Squares, LAMBDA from :
    ForEach(Contact(p, from, HorseAttacks(from, Slide(p, from))), LAMBDA to :
        Checking(p, from, to, FALSE, HorseCover(to), PinnedAvoid(p, from),
                 TwoCheck(p, from, to))))

BishopTries(p) == OfPattern(p, "Bishop", Squares, LAMBDA from :
    ForEach(Contact(p, from, BishopAttacks(from, Slide(p, from))), LAMBDA to :
        LET promote == CanPromoteMove(p.stm, from, to)
        IN  Checking(p, from, to, promote,
                     IF promote THEN HorseCover(to) ELSE BishopStep(to),
                     PinnedAvoid(p, from), from \in DcCandidates(p))))

(* A lance promotes where it can; on the last rank of the zone it is also    *)
(* tried plain.                                                              *)
LanceTries(p, cand) == OfPattern(p, "Lance", cand, LAMBDA from :
    ForEach((LanceAttacks(p.stm, from, Slide(p, from)) \ OwnPieces(p))
                \cap GoldAttacks[Them(p)][p.ci.enemyKing], LAMBDA to :
        LET promote == InZone(to, p.stm)
            line    == LanceStep(p.stm, to)
        IN  Checking(p, from, to, promote, IF promote THEN GoldAttacks[p.stm][to] ELSE line,
                     PinnedNow(p), from \in DcCandidates(p)) \o
            (IF Depth(p.stm, to) # ZoneRanks - 1 THEN <<>>
             ELSE Checking(p, from, to, FALSE, line, PinnedNow(p), FALSE))))

GoldTries(p, cand) == OfPattern(p, "Gold", cand, LAMBDA from :
    ForEach((GoldAttacks[p.stm][from] \ OwnPieces(p))
                \cap GoldAttacks[Them(p)][p.ci.enemyKing], LAMBDA to :
        Checking(p, from, to, FALSE, GoldAttacks[p.stm][to], PinnedAvoid(p, from),
                 TwoCheck(p, from, to))))

SilverTries(p, cand) == OfPattern(p, "Silver", cand, LAMBDA from :
    ForEach(Contact(p, from, SilverAttacks[p.stm][from]), LAMBDA to :
        LET try(promote, cover) ==
                Checking(p, from, to, promote, cover, PinnedAvoid(p, from), TwoCheck(p, from, to))
        IN  try(FALSE, SilverAttacks[p.stm][to]) \o
            (IF CanPromoteMove(p.stm, from, to) THEN try(TRUE, GoldAttacks[p.stm][to]) ELSE <<>>)))

(* A plain knight check needs no support. *)
KnightTries(p, cand) == OfPattern(p, "Knight", cand, LAMBDA from :
    ForEach(KnightAttacks[p.stm][from] \ OwnPieces(p), LAMBDA to :
        LET plain == KnightAttacks[p.stm][to]
            pins  == PinnedAvoid(p, from)
            double == from \in DcCandidates(p)
        IN  IF p.ci.enemyKing \in plain
            THEN <<Try(Made(p, from, to, FALSE), plain, pins, double, FALSE)>>
            ELSE IF CanPromoteMove(p.stm, from, to)
            THEN Checking(p, from, to, TRUE, GoldAttacks[p.stm][to], pins, double)
            ELSE <<>>))

PawnTries(p, cand) ==
    IF cand \cap p.board.byPattern[p.stm]["Pawn"] = {} THEN <<>>
    ELSE ForEach(StepTo(p.ci.enemyKing, p.stm, 1) \ OwnPieces(p), LAMBDA to :
         ForEach(StepTo(to, p.stm, 1), LAMBDA from :
            IF Get(p.board, from) = Piece("Pawn", p.stm) /\ ~InZone(to, p.stm)
            THEN <<Try(Made(p, from, to, FALSE), {}, PinnedNow(p), FALSE, TRUE)>>
            ELSE <<>>))

PawnPromotionTries(p, cand) == OfPattern(p, "Pawn", cand, LAMBDA from :
    ForEach(StepTo(from, p.stm, -1) \ OwnPieces(p), LAMBDA to :
        IF InZone(to, p.stm)
        THEN Checking(p, from, to, TRUE, GoldAttacks[p.stm][to], PinnedNow(p), FALSE)
        ELSE <<>>))

NonSliderTries(p, cands) ==
    IF cands.nonSlider \cap
          UNION {p.board.byPattern[p.stm][pat] : pat \in {"Gold", "Silver", "Knight", "Pawn"}} = {}
    THEN <<>>
    ELSE GoldTries(p, cands.gold) \o SilverTries(p, cands.silver)
         \o KnightTries(p, cands.knight) \o PawnTries(p, cands.pawnNoPro)
         \o PawnPromotionTries(p, cands.pawnPro)

AllTries(p, cands) ==
    DropTries(p) \o DragonTries(p) \o RookTries(p) \o HorseTries(p) \o BishopTries(p)
    \o LanceTries(p, cands.lance) \o NonSliderTries(p, cands)

AllMates(p, cands) == SelectSeq(AllTries(p, cands), LAMBDA t : Mates(p, t))

(* mate_1ply: the first mate found, <<>> for none; asked only out of check. *)
FirstOf(s) == IF s = <<>> THEN <<>> ELSE <<s[1].move>>
MateWith(p, cands) ==
    IF NoSquare \in {p.ci.enemyKing, p.ci.ownKing} THEN <<>>
    ELSE FirstOf(AllMates(p, cands))
Mate1Ply(p) == MateWith(p, CandsForKing(p.ci.enemyKing, p.stm))

=============================================================================
