-------------------------------- MODULE See --------------------------------
(***************************************************************************)
(* Static exchange evaluation of attic-state/see.rs: whether the exchange  *)
(* on a move's destination gains at least a threshold, decided by swapping *)
(* the least valuable attackers off one by one; and the scalar oracle      *)
(* beside it, here as a value instead of a threshold.                      *)
(***************************************************************************)
EXTENDS ScanRules

PatternValue == [Pawn |-> 90, Lance |-> 315, Knight |-> 405, Silver |-> 495, Gold |-> 540,
                 Bishop |-> 855, Rook |-> 990, Horse |-> 945, Dragon |-> 1395, King |-> 15000]
PieceValue(p) == IF p = NoPiece THEN 0 ELSE PatternValue[PatternOf(p)]

(* The order attackers are tried in: rook before horse, though it is worth  *)
(* more; the king last and apart.                                           *)
BucketOrder ==
    <<"Pawn", "Lance", "Knight", "Silver", "Gold", "Bishop", "Rook", "Horse", "Dragon">>

(* The bucket and square of the least valuable attacker, <<>> for a king. *)
LeastValuableAttacker(b, S, c) ==
    LET full == SelectSeq(BucketOrder, LAMBDA pat : S \cap b.byPattern[c][pat] # {})
    IN  IF full = <<>> THEN <<>>
        ELSE <<full[1], Lowest(S \cap b.byPattern[c][full[1]])>>

\* Mutant of RevealSliders: lances behind a consumed piece forgotten.
RevealBigSliders(b, to, removed, occ) ==
    LET all(pat) == b.byPattern[Black][pat] \cup b.byPattern[White][pat]
    IN  IF RayDir[to][removed] \in Diagonals
        THEN BishopAttacks(to, occ) \cap (all("Bishop") \cup all("Horse"))
        ELSE RookAttacks(to, occ) \cap (all("Rook") \cup all("Dragon"))

(* The sliders uncovered behind a consumed piece. *)
RevealSliders(b, to, removed, occ) ==
    LET all(pat) == b.byPattern[Black][pat] \cup b.byPattern[White][pat]
        dir == RayDir[to][removed]
    IN  IF dir \in Diagonals
        THEN BishopAttacks(to, occ) \cap (all("Bishop") \cup all("Horse"))
        ELSE (RookAttacks(to, occ) \cap (all("Rook") \cup all("Dragon")))
             \cup (IF dir[1] # 0 THEN {}
                   ELSE (LanceAttacks(White, to, occ) \cap b.byPattern[Black]["Lance"])
                        \cup (LanceAttacks(Black, to, occ) \cap b.byPattern[White]["Lance"]))

(* One turn of the swap loop: s.stm has just captured on `to`. *)
RECURSIVE SwapLoop(_, _, _)
SwapLoop(p, to, s) ==
    LET b     == p.board
        stm   == Flip(s.stm)
        alive == s.attackers \cap s.occ
        mine  == alive \cap b.byColor[stm]
        \* pinned pieces do not capture while a pinner is on the board
        free  == IF p.ci.pinners[Flip(stm)] \cap s.occ = {} THEN mine
                 ELSE mine \ p.ci.blockers[stm]
        res   == 1 - s.res
        lva   == LeastValuableAttacker(b, free, stm)
    IN  IF free = {} THEN s.res = 1
        ELSE IF lva = <<>>
        THEN (IF alive \cap b.byColor[Flip(stm)] # {} THEN 1 - res ELSE res) = 1
        ELSE LET swap == PatternValue[lva[1]] - s.swap
                 occ  == s.occ \ {lva[2]}
             IN  IF swap < res THEN res = 1
                 ELSE SwapLoop(p, to,
                        [stm |-> stm, occ |-> occ, swap |-> swap, res |-> res,
                         attackers |-> alive \cup
                            IF lva[1] = "Knight" THEN {} ELSE RevealSliders(b, to, lva[2], occ)])

MovedValue(p, m) == IF m.drop THEN PieceValue(m.piece) ELSE PieceValue(Get(p.board, m.from))

SeeGe(p, m, threshold) ==
    LET b    == p.board
        won  == PieceValue(Get(b, m.to)) - threshold
        swap == MovedValue(p, m) - won
        occ  == b.occupied \ {m.to, m.from}
    IN  /\ won >= 0
        /\ \/ swap <= 0
           \/ SwapLoop(p, m.to, [stm |-> p.stm, occ |-> occ, swap |-> swap, res |-> 1,
                                 attackers |-> AttackersToBoth(b, m.to, occ)])

----------------------------------------------------------------------------
(* The exchange as a value: either side captures with its least valuable   *)
(* piece, scanned for anew every time, or stops when that gains nothing.   *)

OnlyOn(b, occ) ==
    [b EXCEPT !.squares = [sq \in Squares |-> IF sq \in occ THEN Get(b, sq) ELSE NoPiece]]
AttackersScan(b, to, occ) ==
    {from \in occ : to \in AttackSetScan(OnlyOn(b, occ), from, Get(b, from))}

(* Both halves of slider_blockers, from every slider that would reach the    *)
(* king on an empty board.                                                   *)
SnipersScan(b, c) ==
    {s \in PiecesScan(b, Flip(c)) :
        \E d \in Movement(Get(b, s)).slides :
            KingScan(b, c) \cap SlideScan(EmptyBoard, s, d, Flip(c)) # {}}
InFront(b, c, s) ==
    {sq \in Squares : \E k \in KingScan(b, c) : sq \in Between[k][s] /\ Get(b, sq) # NoPiece}
    \ SnipersScan(b, c)
BlockersScan(b, c) ==
    {sq \in Squares : \E s \in SnipersScan(b, c) : InFront(b, c, s) = {sq}}
PinnersScan(b, c) ==
    {s \in SnipersScan(b, c) : \E sq \in PiecesScan(b, c) : InFront(b, c, s) = {sq}}

RECURSIVE Gain(_, _, _, _, _)
Gain(b, to, occ, stm, prize) ==
    LET all   == AttackersScan(b, to, occ)
        of(c) == all \cap PiecesScan(b, c)
        free  == IF PinnersScan(b, stm) \cap occ = {} THEN of(stm)
                 ELSE of(stm) \ BlockersScan(b, stm)
        rank(sq) == CHOOSE i \in 1..10 :
                        Append(BucketOrder, "King")[i] = PatternOf(Get(b, sq))
        lva   == CHOOSE sq \in free : \A t \in free :
                     rank(sq) < rank(t) \/ (rank(sq) = rank(t) /\ sq <= t)
        after == prize - Gain(b, to, occ \ {lva}, Flip(stm), PieceValue(Get(b, lva)))
    IN  IF free = {} THEN 0
        ELSE IF Get(b, lva).kind = "King"
        THEN IF of(Flip(stm)) = {} THEN prize ELSE 0
        ELSE IF after > 0 THEN after ELSE 0

SeeValue(p, m) ==
    PieceValue(Get(p.board, m.to))
    - LET occ == PiecesScan(p.board, Black) \cup PiecesScan(p.board, White)
      IN  Gain(p.board, m.to, occ \ {m.to, m.from}, Them(p), MovedValue(p, m))

=============================================================================
