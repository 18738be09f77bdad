---------------------------- MODULE Accumulator ----------------------------
(***************************************************************************)
(* The feature accumulator of attic-eval as a search worker keeps it: a    *)
(* stack that follows do_move and undo_move, each half derived from the    *)
(* one before by the few features a move changes, or rebuilt through the   *)
(* finny table when its own king moves.                                    *)
(*                                                                         *)
(* A half is a sum of weight columns over the biases, under wrapping       *)
(* arithmetic; here it is the number of times each column stands in it.    *)
(* The network is the same for a whole search, and so is the table's token.*)
(***************************************************************************)
EXTENDS ScanRules

CONSTANTS
    EvalStarts,     \* the root positions searched
    EvalPlies,      \* bound on the depth of a line
    EvalNodes,      \* bound on the moves played in a search
    MaxActive       \* features of a position, 40 in the code

VARIABLES
    pos,    \* the position: board, hands, side to move
    line,   \* what to take back: the move, <<>> for a null move, and its position
    acc,    \* the accumulators from the root to the current node
    finny,  \* the table: halves and the features they stand for, by color and king square
    nodes   \* moves played so far

evalVars == <<pos, line, acc, finny, nodes>>

----------------------------------------------------------------------------
(* Features.  A feature is king square code * KingBlock + plane + offset.  *)

SqNb == Files * Ranks
BoardOrder ==
    <<"Pawn", "Lance", "Knight", "Silver", "Gold", "Bishop", "Horse", "Rook", "Dragon">>
PlaceOf(order, x) == CHOOSE i \in DOMAIN order : order[i] = x
Enemy(c, persp) == IF c = persp THEN 0 ELSE 1

(* A hand plane has a slot for every count and an unused one for none. *)
HandWidth(i) == MaxByKind[HandOrder[i]] + 1
HandEnd(n) == FoldLeft(LAMBDA sum, i : sum + 2 * HandWidth(i), 0, [i \in 1..n |-> i])
HandPlane(kind, c, persp) ==
    LET i == PlaceOf(HandOrder, kind) IN HandEnd(i - 1) + Enemy(c, persp) * HandWidth(i)

BoardPlane(piece, persp) ==
    HandEnd(7) + (2 * (PlaceOf(BoardOrder, PatternOf(piece)) - 1) + Enemy(piece.color, persp)) * SqNb

(* Both kings share one plane, behind the others. *)
KingPlane == HandEnd(7) + 18 * SqNb
KingBlock == KingPlane + SqNb

(* The board is turned for White and mirrored when the king stands right of  *)
(* the middle file.                                                         *)
FromPersp(sq, persp) == IF persp = Black THEN sq ELSE SqNb - 1 - sq
NeedsMirror(p, persp) == File(FromPersp(King(p.board, persp), persp)) >= Files \div 2 + 1
Seen(sq, persp, mirror) ==
    LET s == FromPersp(sq, persp)
    IN  IF mirror THEN SquareAt(Files - 1 - File(s), Rank(s)) ELSE s

Encode(p, persp, plane) ==
    KingBlock * Seen(King(p.board, persp), persp, NeedsMirror(p, persp)) + plane

BoardFeature(p, persp, sq, piece) ==
    Encode(p, persp, (IF piece.kind = "King" THEN KingPlane ELSE BoardPlane(piece, persp))
                     + Seen(sq, persp, NeedsMirror(p, persp)))
HandFeature(p, persp, c, kind, count) == Encode(p, persp, HandPlane(kind, c, persp) + count)

(* One feature per piece on the board and in hand, and the zero feature for  *)
(* every piece that is missing.                                             *)
ActiveFeatures(p, persp) ==
    LET onBoard == ForEach(p.board.occupied,
                           LAMBDA sq : <<BoardFeature(p, persp, sq, Get(p.board, sq))>>)
        held(c, kind) == [n \in 1..p.hands[c][kind] |-> HandFeature(p, persp, c, kind, n)]
        hand(c) == FlattenSeq([i \in DOMAIN HandOrder |-> held(c, HandOrder[i])])
        list == onBoard \o hand(Black) \o hand(White)
    IN  list \o [i \in 1..(MaxActive - Len(list)) |-> Encode(p, persp, 0)]

----------------------------------------------------------------------------
(* What a move changes.                                                    *)

OnSquare(sq, piece) == [where |-> "board", sq |-> sq, piece |-> piece]
InHand(c, kind, count) == [where |-> "hand", color |-> c, kind |-> kind, count |-> count]

Before(m) == IF m.promote THEN Piece(m.piece.kind, m.piece.color) ELSE m.piece

(* The slots a move of the position before it empties and fills. *)
Dirty(p, m) ==
    LET cap == Get(p.board, m.to) IN
    IF m.drop
    THEN [removed |-> <<InHand(p.stm, m.piece.kind, p.hands[p.stm][m.piece.kind])>>,
          added |-> <<OnSquare(m.to, m.piece)>>]
    ELSE [removed |-> <<OnSquare(m.from, Before(m))>>
                      \o (IF cap = NoPiece THEN <<>> ELSE <<OnSquare(m.to, cap)>>),
          added |-> <<OnSquare(m.to, m.piece)>>
                    \o (IF cap = NoPiece THEN <<>>
                        ELSE <<InHand(p.stm, cap.kind, p.hands[p.stm][cap.kind] + 1)>>)]

RequiresFullRefresh(m, persp) == ~m.drop /\ m.piece.kind = "King" /\ m.piece.color = persp

EncodeDirty(p, persp, d) ==
    IF d.where = "board" THEN BoardFeature(p, persp, d.sq, d.piece)
    ELSE HandFeature(p, persp, d.color, d.kind, d.count)

(* The features of one half to take out and to add, in the king's frame      *)
(* before the move.                                                         *)
DeltaHalf(p, m, persp) ==
    LET encoded(ds) == [i \in DOMAIN ds |-> EncodeDirty(p, persp, ds[i])]
    IN  [removed |-> encoded(Dirty(p, m).removed), added |-> encoded(Dirty(p, m).added)]

----------------------------------------------------------------------------
(* Halves.                                                                 *)

Zeroed == [f \in {} |-> 0]
Times(half, f) == IF f \in DOMAIN half THEN half[f] ELSE 0

(* n copies of a column added; what cancels is gone. *)
AddColumn(half, f, n) ==
    LET count == Times(half, f) + n
        kept  == IF count = 0 THEN DOMAIN half \ {f} ELSE DOMAIN half \cup {f}
    IN  [g \in kept |-> IF g = f THEN count ELSE half[g]]

AddFeatures(half, features) == FoldLeft(LAMBDA h, f : AddColumn(h, f, 1), half, features)
SubFeatures(half, features) == FoldLeft(LAMBDA h, f : AddColumn(h, f, -1), half, features)

ApplyDiff(half, added, removed) == AddFeatures(SubFeatures(half, removed), added)
RefreshPerspective(features) == AddFeatures(Zeroed, features)
Refresh(p) == [c \in Colors |-> RefreshPerspective(ActiveFeatures(p, c))]

(* The multiset difference of two feature lists: what `a` has more often. *)
Occurrences(s, f) == Cardinality({i \in DOMAIN s : s[i] = f})
Excess(a, b) ==
    FlattenSeq([i \in DOMAIN a |->
        IF Cardinality({j \in 1..i : a[j] = a[i]}) > Occurrences(b, a[i]) THEN <<a[i]>> ELSE <<>>])

----------------------------------------------------------------------------
(* The finny table.                                                        *)

Bucket(p, persp) == <<persp, King(p.board, persp)>>

\* Mutant of RefreshInto: the bucket's feature list is not replaced.
RefreshIntoKept(table, p, persp) ==
    LET b == Bucket(p, persp)
        active == ActiveFeatures(p, persp)
        warm == b \in DOMAIN table
        half == IF warm
                THEN ApplyDiff(table[b].half, Excess(active, table[b].active),
                               Excess(table[b].active, active))
                ELSE RefreshPerspective(active)
        entry == [half |-> half, active |-> IF warm THEN table[b].active ELSE active]
    IN  [t \in DOMAIN table \cup {b} |-> IF t = b THEN entry ELSE table[t]]

(* The half of a perspective rebuilt: diffed against what its bucket holds,  *)
(* from scratch the first time; the bucket then stands for this position.   *)
RefreshInto(table, p, persp) ==
    LET b == Bucket(p, persp)
        active == ActiveFeatures(p, persp)
        half == IF b \in DOMAIN table
                THEN ApplyDiff(table[b].half, Excess(active, table[b].active),
                               Excess(table[b].active, active))
                ELSE RefreshPerspective(active)
        entry == [half |-> half, active |-> active]
    IN  [t \in DOMAIN table \cup {b} |-> IF t = b THEN entry ELSE table[t]]

----------------------------------------------------------------------------
(* The search's stack.                                                     *)

(* derive_into_cached: at most one king has moved, the mover's. *)
DeriveHalf(p, m, persp, table) ==
    IF RequiresFullRefresh(m, persp) THEN table[Bucket(After(p, m), persp)].half
    ELSE LET delta == DeltaHalf(p, m, persp)
         IN  ApplyDiff(acc[Len(acc)][persp], delta.added, delta.removed)

TableAfter(p, m) ==
    IF RequiresFullRefresh(m, p.stm) THEN RefreshInto(finny, After(p, m), p.stm) ELSE finny

(* seed_accumulator at the root, with a table of its own for every search. *)
Seed(p) ==
    /\ pos = p
    /\ line = <<>>
    /\ acc = <<Refresh(p)>>
    /\ finny = [b \in {} |-> Zeroed]
    /\ nodes = 0

EvalInit == \E p \in EvalStarts : Seed(p)

PushMove(m) ==
    /\ Len(line) < EvalPlies /\ nodes < EvalNodes
    /\ nodes' = nodes + 1
    /\ pos' = After(pos, m)
    /\ line' = Append(line, [null |-> FALSE, before |-> pos])
    /\ finny' = TableAfter(pos, m)
    /\ acc' = Append(acc, [c \in Colors |-> DeriveHalf(pos, m, c, finny')])

(* A null move turns the side to move and leaves the accumulator alone. *)
PushNull ==
    /\ Len(line) < EvalPlies /\ nodes < EvalNodes
    /\ ~InCheckScan(pos.board, pos.stm)
    /\ line # <<>> => ~line[Len(line)].null
    /\ nodes' = nodes + 1
    /\ pos' = [pos EXCEPT !.stm = Flip(@)]
    /\ line' = Append(line, [null |-> TRUE, before |-> pos])
    /\ UNCHANGED <<acc, finny>>

Pop ==
    /\ line # <<>>
    /\ pos' = line[Len(line)].before
    /\ line' = SubSeq(line, 1, Len(line) - 1)
    /\ acc' = IF line[Len(line)].null THEN acc ELSE SubSeq(acc, 1, Len(acc) - 1)
    /\ UNCHANGED <<finny, nodes>>

EvalNext == (\E m \in LegalMoves(pos) : PushMove(m)) \/ PushNull \/ Pop

EvalSpec == EvalInit /\ [][EvalNext]_evalVars

----------------------------------------------------------------------------
(* Properties.                                                             *)

(* Wherever the search evaluates, over king moves, captures, promotions,     *)
(* drops, null moves and takebacks, the top of the stack is what a refresh   *)
(* of the position gives.                                                   *)
TopExact == acc[Len(acc)] = Refresh(pos)

(* Every entry of the finny table is the sum of the features beside it. *)
EntriesWhole ==
    \A b \in DOMAIN finny : finny[b].half = RefreshPerspective(finny[b].active)

(* A position has exactly MaxActive features, and no two pieces share one,   *)
(* so that a sum determines the position.                                   *)
FeaturesDistinct ==
    \A c \in Colors :
        LET list == ActiveFeatures(pos, c)
        IN  /\ Len(list) = MaxActive
            /\ \A i, j \in DOMAIN list : i # j /\ list[i] = list[j] => list[i] % KingBlock = 0

AccumulatorExact == TopExact /\ EntriesWhole /\ FeaturesDistinct
=============================================================================
