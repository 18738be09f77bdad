----------------------------- MODULE Histories -----------------------------
(***************************************************************************)
(* The move-ordering and correction histories of attic-search: tables of   *)
(* 16-bit entries that every update pulls towards its bonus, kept within a *)
(* bound of the table's own. A worker owns most of them; the pawn and      *)
(* correction tables are shared by every worker of a NUMA node and updated *)
(* by a load and a store with nothing between them.                        *)
(*                                                                         *)
(* A table is a function from the flat indexes written so far; any other   *)
(* entry has the table's fill. The position is seen through the line that  *)
(* led to it: the piece on the last move's square is the piece moved.      *)
(***************************************************************************)
EXTENDS Integers, Sequences, SequencesExt, FiniteSets

CONSTANTS
    Workers,        \* the workers of a node
    ThreadCount,    \* their number, rounded up to a power of two
    Scripts,        \* per worker, what it may meet: [moves, profiles, outcomes, diffs, again, plies, events]
                    \*   moves: [piece, to, raw, captured, promote]
                    \*   profiles, noted before a child: [moveCount, statScore, inCheck, ttHit]
                    \*   outcomes of a node: [depth, isTT, pv, worse, bonus]
                    \*   diffs: sums of two static evaluations
                    \*   again, a node's own searches: [kind, ttHit], kind "verify" or "singular"
                    \*   plies, events: bounds on its line and on the nodes that learn
    PositionKeys    \* partial keys of positions

VARIABLES
    stack,      \* per worker: the search stack up to the current node's cell
    private,    \* per worker: the entries of its own tables written so far
    shared,     \* the entries of the shared tables written so far
    todo,       \* per worker: updates of shared entries still to make
    loaded,     \* per worker: the entry read and not yet stored, as <<value>>, or <<>>
    fill,       \* what fills the tables at the start of the run
    events      \* per worker: nodes that have updated histories so far

histVars == <<stack, private, shared, todo, loaded, fill, events>>

----------------------------------------------------------------------------
(* Gravity.                                                                *)

(* Division of i32, towards zero. *)
Quot(a, b) == IF a >= 0 THEN a \div b ELSE -((-a) \div b)
AbsOf(x) == IF x < 0 THEN -x ELSE x
Clamp(x, lo, hi) == IF x < lo THEN lo ELSE IF x > hi THEN hi ELSE x
Capped(x, hi) == IF x > hi THEN hi ELSE x

\* Mutant of apply_gravity: the bonus is not clamped.
ApplyGravityUnclamped(entry, bonus, d) == entry + bonus - Quot(entry * AbsOf(bonus), d)

(* The entry pulled towards the bonus, the less the nearer it is to d. *)
apply_gravity(entry, bonus, d) ==
    LET clamped == Clamp(bonus, -d, d)
    IN  entry + clamped - Quot(entry * AbsOf(clamped), d)

----------------------------------------------------------------------------
(* Tables and indexes.                                                     *)

PrivateTables == {"main", "low_ply", "capture", "continuation", "continuation_correction", "tt_move"}
SharedTables == {"pawn", "correction"}

D == [main |-> 7183, low_ply |-> 7183, capture |-> 10692, continuation |-> 30000,
      continuation_correction |-> 1024, tt_move |-> 8192, pawn |-> 8192, correction |-> 1024]

(* A new worker's tables; low_ply is filled for every go. *)
Fresh == [main |-> 0, low_ply |-> 98, capture |-> -678, continuation |-> -523,
          continuation_correction |-> 6, tt_move |-> 0, pawn |-> -1238, correction |-> 0]

BoardSquares == 81
PieceNb == 32
CapturedNb == 16
LowPlySize == 5
PawnSlots == ThreadCount * 8192
CorrSlots == ThreadCount * 65536
StackBase == 7

(* Pieces are [kind, promoted, white], kinds numbered from the pawn to the king. *)
AllPieces == [kind : 0..7, promoted : BOOLEAN, white : BOOLEAN]
RealPieces == {p \in AllPieces : ~(p.promoted /\ p.kind \in {4, 7})}
Nothing == [kind |-> -1, promoted |-> FALSE, white |-> FALSE]
One(b) == IF b THEN 1 ELSE 0
piece_code(p) == p.kind + 8 * One(p.promoted) + 16 * One(p.white)
captured_code(p) == 1 + p.kind + 8 * One(p.promoted)

PlaneOf(pc, to) == piece_code(pc) * BoardSquares + to
CaptureIndex(moved, to, captured) == PlaneOf(moved, to) * CapturedNb + captured_code(captured)
ButterflyIndex(us, m) == us * 65536 + m.raw
LowPlyIndex(ply, m) == ply * 65536 + m.raw
PlaneIndex(inCheck, capture, pc, to) ==
    ((One(inCheck) * 2 + One(capture)) * PieceNb + piece_code(pc)) * BoardSquares + to
PlaneLen == PieceNb * BoardSquares
ContinuationCell(plane, pc, to) == plane * PlaneLen + PlaneOf(pc, to)
SentinelPlane == 0
CorrIndex(key, color, channel) == ((key % CorrSlots) * 2 + color) * 4 + channel
PawnIndex(key, pc, to) == ((key % PawnSlots) * PieceNb + piece_code(pc)) * BoardSquares + to

(* driver.rs sizes the shared tables by next_power_of_two of the workers.   *)
ASSUME ThreadsAssumption ==
    /\ ThreadCount \in Nat \ {0} /\ Cardinality(Workers) <= ThreadCount
    /\ ThreadCount = 1 \/ \E k \in 1..ThreadCount :
                            ThreadCount = 2^k /\ 2^(k - 1) < Cardinality(Workers)

(* What the workers meet. No legal move leaves an unpromoted pawn where it    *)
(* could never move again, so the place of a Black pawn on the first square  *)
(* is no move's.                                                            *)
ASSUME ScriptsAssumption ==
    /\ PositionKeys \subseteq Nat
    /\ \A w \in Workers :
          /\ \A m \in Scripts[w].moves :
                /\ m \in [piece : RealPieces, to : 0..(BoardSquares - 1), raw : Nat,
                          captured : RealPieces \cup {Nothing}, promote : BOOLEAN]
                /\ PlaneOf(m.piece, m.to) # 0
          /\ Scripts[w].profiles \subseteq
                [moveCount : Nat, statScore : Int, inCheck : BOOLEAN, ttHit : BOOLEAN]
          /\ Scripts[w].outcomes \subseteq
                [depth : Int, isTT : BOOLEAN, pv : BOOLEAN, worse : BOOLEAN, bonus : Int]
          /\ Scripts[w].diffs \subseteq Int
          /\ Scripts[w].again \subseteq [kind : {"verify", "singular"}, ttHit : BOOLEAN]

----------------------------------------------------------------------------
(* Updates: what a handler asks for, in the order of the code.             *)

Update(table, index, bonus) == [entry |-> <<table, index>>, bonus |-> bonus]
When(cond, updates) == IF cond THEN updates ELSE <<>>

ConthistWeights == <<1157, 648, 288, 576, 140, 441>>

NoMove == [piece |-> Nothing, to |-> 0, raw |-> 0, captured |-> Nothing, promote |-> FALSE]
NullMove == [NoMove EXCEPT !.raw = 1]
IsOk(cell) == cell.move \notin {NoMove, NullMove}

(* The plies before ss, fewer when its side is in check. *)
UpdateContinuationHistories(st, ss, pc, to, bonus) ==
    FlattenSeq([i \in 1..(IF st[ss].inCheck THEN 2 ELSE 6) |->
        When(IsOk(st[ss - i]),
             <<Update("continuation", ContinuationCell(st[ss - i].contHist, pc, to),
                      Quot(bonus * ConthistWeights[i], 1024) + 88 * One(i < 2))>>)])

Ply(ss) == ss - StackBase - 1
Us(ss) == Ply(ss) % 2

UpdateQuietHistories(st, ss, key, m, bonus) ==
    <<Update("main", ButterflyIndex(Us(ss), m), bonus)>>
    \o When(Ply(ss) < LowPlySize,
            <<Update("low_ply", LowPlyIndex(Ply(ss), m), Quot(bonus * 761, 1024))>>)
    \o UpdateContinuationHistories(st, ss, m.piece, m.to, Quot(bonus * 955, 1024))
    \o <<Update("pawn", PawnIndex(key, m.piece, m.to),
                Quot(bonus * (IF bonus > 0 THEN 850 ELSE 550), 1024))>>

IsCapture(m) == m.captured # Nothing

(* The malus of the i-th quiet shrinks from one to the next. *)
Shrunk(malus, j) == Quot(malus * 977, 1024)
QuietMalus(malus, i) ==
    FoldLeft(Shrunk, Quot(malus * 1113, 1024), [j \in 1..i |-> j])

CaptureUpdate(m, bonus) == <<Update("capture", CaptureIndex(m.piece, m.to, m.captured), bonus)>>

(* update_all_stats: for the best move, against the others searched, and     *)
(* against the early quiet move of the ply before that was just refuted.    *)
UpdateAllStats(st, ss, key, best, quiets, captures, depth, isTT, priorCapture) ==
    LET prev  == st[ss - 1]
        bonus == Capped(128 * depth - 77, 1529) + 353 * One(isTT) + Quot(prev.statScore, 32)
        malus == Capped(882 * depth - 204, 2122)
    IN  (IF IsCapture(best) THEN CaptureUpdate(best, Quot(bonus * 1286, 1024))
         ELSE UpdateQuietHistories(st, ss, key, best, Quot(bonus * 806, 1024))
              \o FlattenSeq([i \in DOMAIN quiets |->
                    UpdateQuietHistories(st, ss, key, quiets[i], -QuietMalus(malus, i))]))
        \o When(IsOk(prev) /\ prev.moveCount = 1 + One(prev.ttHit) /\ ~priorCapture,
                UpdateContinuationHistories(st, ss - 1, prev.move.piece, prev.move.to,
                                            Quot(-malus * 616, 1024)))
        \o FlattenSeq([i \in DOMAIN captures |->
                CaptureUpdate(captures[i], Quot(-malus * 1559, 1024))])

UpdateCorrectionHistory(st, ss, key, bonus) ==
    LET prev == st[ss - 1]
        channel(n, b) == Update("correction", CorrIndex(key, Us(ss), n), b)
        contCorr(back, b) == Update("continuation_correction",
            ContinuationCell(st[ss - back].contCorr, prev.move.piece, prev.move.to), b)
    IN  <<channel(0, bonus), channel(1, Quot(bonus * 153, 128)),
          channel(2, Quot(bonus * 187, 128)), channel(3, Quot(bonus * 187, 128))>>
        \o When(IsOk(prev), <<contCorr(2, Quot(bonus * 126, 128)), contCorr(4, Quot(bonus * 63, 128))>>)

----------------------------------------------------------------------------
(* The search stack. A verification search, and a singular search, of a    *)
(* node are entered on the node's own cell: own has those that run on it.   *)

DefaultCell ==
    [move |-> NoMove, contHist |-> SentinelPlane, contCorr |-> SentinelPlane,
     inCheck |-> FALSE, ttHit |-> FALSE, moveCount |-> 0, statScore |-> 0, fresh |-> TRUE,
     own |-> {}]

Top(w) == Len(stack[w])
Here(w) == stack[w][Top(w)]
CellsBefore(w) == stack[w][Top(w) - 1]
Line(w) == Top(w) - StackBase - 1
PriorCapture(w) == IsOk(CellsBefore(w)) /\ IsCapture(CellsBefore(w).move)
NotPawn(p) == p.kind # 0 \/ p.promoted

FillOf(table) == CASE fill = "fresh" -> Fresh[table] [] fill = "high" -> D[table] [] OTHER -> -D[table]
Read(entries, e) == IF e \in DOMAIN entries THEN entries[e] ELSE FillOf(e[1])
Write(entries, e, v) == [x \in DOMAIN entries \cup {e} |-> IF x = e THEN v ELSE entries[x]]

IsShared(u) == u.entry[1] \in SharedTables
AfterUpdate(entries, u) ==
    Write(entries, u.entry, apply_gravity(Read(entries, u.entry), u.bonus, D[u.entry[1]]))

AfterOwn(entries, u) == IF IsShared(u) THEN entries ELSE AfterUpdate(entries, u)
WithShared(queue, u) == IF IsShared(u) THEN Append(queue, u) ELSE queue

(* A worker makes its updates: its own entries at once, shared ones in turn. *)
Apply(w, updates) ==
    /\ events[w] < Scripts[w].events
    /\ events' = [events EXCEPT ![w] = @ + 1]
    /\ private' = [private EXCEPT ![w] = FoldLeft(AfterOwn, @, updates)]
    /\ todo' = [todo EXCEPT ![w] = FoldLeft(WithShared, <<>>, updates)]

Idle(w) == todo[w] = <<>>

(* The node's cell goes with the node, and stays when a search of its own    *)
(* ends: the singular one first, as it is within the verification.          *)
OwnEnded(cell) ==
    [cell EXCEPT !.own = IF "singular" \in @ THEN @ \ {"singular"} ELSE {}, !.fresh = FALSE]
Leave(w) ==
    IF Here(w).own = {} THEN stack' = [stack EXCEPT ![w] = SubSeq(@, 1, Len(@) - 1)]
    ELSE stack' = [stack EXCEPT ![w][Top(w)] = OwnEnded(@)]

----------------------------------------------------------------------------
(* Playing a line.                                                         *)

NewStack == [i \in 1..(StackBase + 1) |-> DefaultCell]

HistInit ==
    /\ fill \in {"fresh", "high", "low"}
    /\ stack = [w \in Workers |-> NewStack]
    /\ private = [w \in Workers |-> <<>>]
    /\ shared = <<>>
    /\ todo = [w \in Workers |-> <<>>]
    /\ loaded = [w \in Workers |-> <<>>]
    /\ events = [w \in Workers |-> 0]

NewCell(p) == [DefaultCell EXCEPT !.inCheck = p.inCheck, !.ttHit = p.ttHit]

(* A child is entered with the current cell's planes turned to the move, in  *)
(* the main search, in ProbCut and in qsearch alike.                        *)
Enter(w, m, p) ==
    /\ Idle(w) /\ Line(w) < Scripts[w].plies
    /\ m.piece.white = (Us(Top(w)) = 1)
    /\ LET cell == [Here(w) EXCEPT
                      !.move = m, !.moveCount = p.moveCount, !.statScore = p.statScore,
                      !.contHist = PlaneIndex(Here(w).inCheck, IsCapture(m), m.piece, m.to),
                      !.contCorr = PlaneOf(m.piece, m.to), !.fresh = FALSE]
       IN  stack' = [stack EXCEPT ![w] = Append([@ EXCEPT ![Len(@)] = cell], NewCell(p))]
    /\ UNCHANGED <<private, shared, todo, loaded, fill, events>>

PassCell(cell) ==
    [cell EXCEPT !.move = NullMove, !.contHist = SentinelPlane, !.contCorr = SentinelPlane,
                 !.fresh = FALSE]

EnterNull(w, p) ==
    /\ Idle(w) /\ Line(w) < Scripts[w].plies
    /\ ~Here(w).inCheck /\ CellsBefore(w).move # NullMove /\ ~p.inCheck
    /\ stack' = [stack EXCEPT ![w] = Append([@ EXCEPT ![Len(@)] = PassCell(Here(w))], NewCell(p))]
    /\ UNCHANGED <<private, shared, todo, loaded, fill, events>>

(* The node is entered again, on its own cell. There is no verification in   *)
(* check, and within a singular search no search of the node's own.  A       *)
(* worker that has learnt all it may enters no node again.                  *)
Reentered(cell, a) ==
    [cell EXCEPT !.own = @ \cup {a.kind}, !.ttHit = a.ttHit, !.fresh = TRUE]
Reenter(w, a) ==
    /\ Idle(w) /\ Line(w) > 0
    /\ events[w] < Scripts[w].events
    /\ {a.kind, "singular"} \cap Here(w).own = {}
    /\ a.kind = "verify" => ~Here(w).inCheck
    /\ stack' = [stack EXCEPT ![w][Top(w)] = Reentered(@, a)]
    /\ UNCHANGED <<private, shared, todo, loaded, fill, events>>

----------------------------------------------------------------------------
(* Learning from a node.                                                   *)

Return(w, updates) ==
    /\ Idle(w) /\ Line(w) > 0
    /\ Apply(w, updates)
    /\ Leave(w)
    /\ UNCHANGED <<shared, loaded, fill>>

Stay(w, updates) ==
    /\ Idle(w)
    /\ Apply(w, updates)
    /\ UNCHANGED <<shared, loaded, fill>>

(* The table's move cuts at once. *)
TTCut(w, m, o, key) ==
    LET st == stack[w]
        ss == Top(w)
        prev == CellsBefore(w)
    IN  /\ Here(w).fresh /\ "singular" \notin Here(w).own
        /\ m.piece.white = (Us(ss) = 1)
        /\ Return(w, When(~IsCapture(m),
                          UpdateQuietHistories(st, ss, key, m, Capped(130 * o.depth - 71, 1043)))
                     \o When(IsOk(prev) /\ prev.moveCount <= 4 /\ ~PriorCapture(w),
                             UpdateContinuationHistories(st, ss - 1, prev.move.piece, prev.move.to, -2142)))

(* The move before is judged by how much the evaluation turned. *)
EvalDiff(w, sum, key) ==
    LET prev == CellsBefore(w)
        diff == Clamp(-sum, -214, 171) + 60
    IN  /\ Here(w).fresh /\ ~Here(w).inCheck
        /\ IsOk(prev) /\ ~prev.inCheck /\ ~PriorCapture(w)
        /\ Stay(w, <<Update("main", ButterflyIndex(1 - Us(Top(w)), prev.move), diff * 10)>>
                   \o When(~Here(w).ttHit /\ NotPawn(prev.move.piece) /\ ~prev.move.promote,
                           <<Update("pawn", PawnIndex(key, prev.move.piece, prev.move.to), diff * 12)>>))
        /\ stack' = [stack EXCEPT ![w][Top(w)].fresh = FALSE]

(* A singular search that cuts lowers the trust in table moves. *)
MultiCut(w, o) == Return(w, <<Update("tt_move", 0, -Capped(424 + 107 * o.depth, 3375))>>)

(* A reduced move that had to be searched again. *)
Researched(w) ==
    /\ IsOk(Here(w))
    /\ Stay(w, UpdateContinuationHistories(stack[w], Top(w), Here(w).move.piece, Here(w).move.to, 1426))
    /\ UNCHANGED stack

FromBest(w, key, best, other, o) ==
    UpdateAllStats(stack[w], Top(w), key, best,
                   When(~IsCapture(other) /\ other # best, <<other>>),
                   When(IsCapture(other) /\ other # best, <<other>>),
                   o.depth, o.isTT, PriorCapture(w))
    \o When(~o.pv, <<Update("tt_move", 0, IF o.isTT THEN 805 ELSE -787)>>)

(* No move raised alpha: the quiet move before was a good one. *)
FailLowScale(w, o) ==
    LET prev == CellsBefore(w)
        scale == -232 - Quot(prev.statScore, 108) + Capped(59 * o.depth, 454)
                 + 169 * One(prev.moveCount > 8)
                 + 145 * One(o.worse /\ ~Here(w).inCheck) + 154 * One(o.worse /\ ~prev.inCheck)
    IN  IF scale < 0 THEN 0 ELSE scale

FromFailLow(w, key, o) ==
    LET prev == CellsBefore(w)
        scaled == Capped(135 * o.depth - 80, 1400) * FailLowScale(w, o)
    IN  UpdateContinuationHistories(stack[w], Top(w) - 1, prev.move.piece, prev.move.to,
                                    Quot(scaled * 221, 16384))
        \o <<Update("main", ButterflyIndex(1 - Us(Top(w)), prev.move), Quot(scaled * 235, 32768))>>
        \o When(NotPawn(prev.move.piece) /\ ~prev.move.promote,
                <<Update("pawn", PawnIndex(key, prev.move.piece, prev.move.to), Quot(scaled * 290, 8192))>>)

Correction(w, key, o, quiet) ==
    When(~Here(w).inCheck /\ quiet,
         UpdateCorrectionHistory(stack[w], Top(w), key, Quot(1069 * o.bonus, 1024)))

BestFound(w, best, other, o, key) ==
    /\ best.piece.white = (Us(Top(w)) = 1)
    /\ other.piece.white = best.piece.white
    /\ Return(w, FromBest(w, key, best, other, o)
                 \o Correction(w, key, o, ~IsCapture(best)))

FailedLow(w, o, key) ==
    LET prev == CellsBefore(w) IN
    Return(w, (IF ~IsOk(prev) THEN <<>>
               ELSE IF PriorCapture(w) THEN CaptureUpdate(prev.move, 1018)
               ELSE FromFailLow(w, key, o))
              \o Correction(w, key, o, TRUE))

----------------------------------------------------------------------------
(* Shared entries: a relaxed load, then a relaxed store.                    *)

LoadShared(w) ==
    /\ todo[w] # <<>> /\ loaded[w] = <<>>
    /\ loaded' = [loaded EXCEPT ![w] = <<Read(shared, Head(todo[w]).entry)>>]
    /\ UNCHANGED <<stack, private, shared, todo, fill, events>>

StoreShared(w) ==
    /\ loaded[w] # <<>>
    /\ LET u == Head(todo[w])
       IN  shared' = Write(shared, u.entry, apply_gravity(loaded[w][1], u.bonus, D[u.entry[1]]))
    /\ todo' = [todo EXCEPT ![w] = Tail(@)]
    /\ loaded' = [loaded EXCEPT ![w] = <<>>]
    /\ UNCHANGED <<stack, private, fill, events>>

HistNext ==
    \E w \in Workers :
        \/ \E m \in Scripts[w].moves, p \in Scripts[w].profiles : Enter(w, m, p)
        \/ \E p \in Scripts[w].profiles : EnterNull(w, p)
        \/ \E a \in Scripts[w].again : Reenter(w, a)
        \/ \E m \in Scripts[w].moves, o \in Scripts[w].outcomes, key \in PositionKeys : TTCut(w, m, o, key)
        \/ \E sum \in Scripts[w].diffs, key \in PositionKeys : EvalDiff(w, sum, key)
        \/ \E o \in Scripts[w].outcomes : MultiCut(w, o)
        \/ Researched(w)
        \/ \E best, other \in Scripts[w].moves, o \in Scripts[w].outcomes, key \in PositionKeys :
              BestFound(w, best, other, o, key)
        \/ \E o \in Scripts[w].outcomes, key \in PositionKeys : FailedLow(w, o, key)
        \/ LoadShared(w)
        \/ StoreShared(w)

HistSpec == HistInit /\ [][HistNext]_histVars

----------------------------------------------------------------------------
(* Properties.                                                             *)

(* Whatever is learnt, in whatever order two workers load and store a shared *)
(* entry, every entry stays within the bound of its table.                  *)
EntriesBounded ==
    /\ \A w \in Workers : \A e \in DOMAIN private[w] : AbsOf(private[w][e]) <= D[e[1]]
    /\ \A e \in DOMAIN shared : AbsOf(shared[e]) <= D[e[1]]

(* The plane that stands for a null move or for the time before the root is  *)
(* no move's: nothing is ever learnt in it.                                 *)
SentinelKept ==
    \A w \in Workers : \A e \in DOMAIN private[w] :
        e[1] = "continuation" => e[2] >= PlaneLen

(* A correction is a weighted sum of six entries, each in its bound: it      *)
(* moves an evaluation by 480 at most, and no product of it leaves 32 bits.  *)
CorrectionValue(w, key) ==
    LET prev == CellsBefore(w)
        us == Us(Top(w))
        channel(n) == Read(shared, <<"correction", CorrIndex(key, us, n)>>)
        contCorr(back) ==
            Read(private[w], <<"continuation_correction",
                ContinuationCell(stack[w][Top(w) - back].contCorr, prev.move.piece, prev.move.to)>>)
        cnt == IF IsOk(prev) THEN contCorr(2) + contCorr(4) ELSE 8
    IN  12153 * channel(0) + 8620 * channel(1) + 12355 * (channel(2) + channel(3)) + 7982 * cnt

CorrectionSmall ==
    \A w \in Workers, key \in PositionKeys : AbsOf(Quot(CorrectionValue(w, key), 131072)) <= 480

(* Two keys of a table never share an entry. *)
Victims == {p \in RealPieces : ~p.white}
IndexesDistinct ==
    /\ Cardinality({piece_code(p) : p \in RealPieces}) = Cardinality(RealPieces)
    /\ \A p \in RealPieces : piece_code(p) \in 0..(PieceNb - 1)
    /\ Cardinality({captured_code(p) : p \in Victims} \ {0}) = Cardinality(Victims)
    /\ \A p \in Victims : captured_code(p) \in 1..(CapturedNb - 1)
    /\ Cardinality({PlaneIndex(b, c, p, to) : b, c \in BOOLEAN, p \in RealPieces, to \in 0..(BoardSquares - 1)})
       = 4 * BoardSquares * Cardinality(RealPieces)

HistoriesSound == EntriesBounded /\ SentinelKept /\ CorrectionSmall /\ IndexesDistinct
=============================================================================
