--------------------------- MODULE InteriorSearch ---------------------------
(***************************************************************************)
(* The interior search of one worker: QSearch::search below the root call  *)
(* and QSearch::qsearch (qsearch.rs), as a machine over the call stack.    *)
(*                                                                         *)
(* A frame of the stack is one activation of search or qsearch; pc names   *)
(* the place it has reached.  Between two calls nothing else can run in    *)
(* the worker, so an action is the code from one call or return to the     *)
(* next.  What a position is like (in check, its evaluation, a repetition, *)
(* a mate in one, which pruning condition holds) and what the shared table *)
(* answers are choices: the table is written by other workers as well, and *)
(* the properties are about what the search does with the answers.         *)
(*                                                                         *)
(* The numbers are scaled down.  DepthCap is the code's MAX_PLY - 1, kept  *)
(* apart from MaxPly so that depths reach the thresholds of the pruning    *)
(* steps in a tree of few plies.                                           *)
(***************************************************************************)
EXTENDS Integers, Sequences, FiniteSets

CONSTANTS
    Moves,          \* moves a node may have: 1..Moves in the picker's order
    MaxPly,         \* MAX_PLY
    DepthCap,       \* MAX_PLY - 1
    Mate,           \* VALUE_MATE
    Evals,          \* static evaluations, of either sign in the code
    TTValues,       \* valid values the table may answer
    TTDepths,       \* depths the table may answer
    RootDepth,      \* depth of the deepest iteration
    Windows,        \* aspiration windows <<alpha, beta>> of the root call
    TiePly,         \* RootDepth - 2 in the code: from here ties may go to the later move
    Contempt,       \* draw_contempt
    NullReduction,  \* r of the null-move search
    VerifyDepth,    \* from here on a null-move pass is verified (16)
    ProbCutDepth,   \* least depth of ProbCut (3)
    ProbCutReduction, ProbCutMargin, SmallProbCutMargin,
    SingularDepth,  \* least depth of a singular search (6)
    SingularMargin,
    IirDepth,       \* least depth of internal iterative reduction (6)
    CutoffDepth,    \* from here on a cutoff need not match the node type (5)
    DeepDepth,      \* from here on a raise of alpha leaves the depth (14)
    MaxRare         \* bound on the rare events of one search, see Spend

ASSUME SearchAssumption ==
    /\ Moves \in Nat \ {0} /\ MaxPly \in Nat \ {0} /\ DepthCap \in Nat \ {0}
    /\ Mate \in Nat /\ Mate > 2 * MaxPly
    /\ RootDepth \in 1..DepthCap
    /\ \A e \in Evals : -(Mate - MaxPly) < e /\ e < Mate - MaxPly
    /\ TTValues \subseteq -Mate..Mate
    /\ ProbCutMargin \in 0..(MaxPly + 2) /\ SmallProbCutMargin \in Nat /\ MaxRare \in Nat

ASSUME NumbersAssumption ==
    /\ Evals \subseteq Int /\ TTDepths \subseteq Int
    /\ {TiePly, NullReduction, VerifyDepth, ProbCutDepth, ProbCutReduction, SingularDepth,
        CutoffDepth, DeepDepth} \subseteq Int
    /\ IirDepth \in Int /\ IirDepth >= 2

\* A window of the root is around a score a line had, or all there is.
ASSUME WindowsAssumption ==
    \A w \in Windows :
        /\ w[1] \in Int /\ w[2] \in Int /\ w[1] < w[2]
        /\ w[1] >= -(Mate + 1) /\ w[2] <= Mate + 1 /\ w[2] > -Mate

\* DrawValueBlack and DrawValueWhite, at most 30000 of a pawn's 90 in the hundred.
ASSUME ContemptAssumption ==
    Contempt \in Int /\ Contempt + 1 < Mate - MaxPly /\ -Contempt + 1 < Mate - MaxPly

\* (60 + 66) * depth / 55 does not exceed MAX_PLY + 1 up to depth 107; beyond it
\* the window of a singular search would begin below -VALUE_INFINITE for the
\* least values of the table.
ASSUME SingularAssumption == SingularMargin \in 0..(MaxPly + 1)

VARIABLES
    frames,     \* the call stack, the running activation last
    ret,        \* the value just returned, NoReturn while one is computed
    board,      \* the moves made on pos since the root, 0 a null move
    accDepth,   \* acc_depth
    cells,      \* self.stack: excluded_move and pv of each ply
    nmpMinPly,  \* nmp_min_ply
    stopped,
    stored,     \* the table write of the last step, NoStore if it made none
    rare        \* rare events left

vars == <<frames, ret, board, accDepth, cells, nmpMinPly, stopped, stored, rare>>
-----------------------------------------------------------------------------
(* Values. *)

VALUE_INFINITE == Mate + 1
VALUE_NONE == Mate + 2
TBWin == Mate - MaxPly
MaxEval == TBWin - 1

mate_in(ply) == Mate - ply
mated_in(ply) == ply - Mate
is_win(v) == v >= TBWin
is_loss(v) == v <= -TBWin
is_decisive(v) == is_win(v) \/ is_loss(v)

value_to_tt(v, ply) ==
    IF is_win(v) THEN v + ply ELSE IF is_loss(v) THEN v - ply ELSE v

\* Mutant of value_from_tt: the shift goes away from the root.
ValueFromTTAway(v, ply) ==
    IF v = VALUE_NONE THEN v
    ELSE IF is_win(v) THEN v + ply ELSE IF is_loss(v) THEN v - ply ELSE v

value_from_tt(v, ply) ==
    IF v = VALUE_NONE THEN v
    ELSE IF is_win(v) THEN v - ply ELSE IF is_loss(v) THEN v + ply ELSE v

Abs(x) == IF x < 0 THEN -x ELSE x
Larger(a, b) == IF a > b THEN a ELSE b
Smaller(a, b) == IF a < b THEN a ELSE b

\* Integer division of Rust: towards zero.
Trunc(a, b) == IF a < 0 THEN -((-a) \div b) ELSE a \div b

\* draw_value(Draw) + value_draw(nodes): the dither is keyed on the node count.
DrawScores == {c + d : c \in {Contempt, -Contempt}, d \in {-1, 1}}

\* draw_value of the other repetitions, seen from ply.
RepetitionScores(ply) ==
    DrawScores \cup {value_from_tt(v, ply) : v \in {Mate, -Mate, MaxEval, -MaxEval}}

\* Bounds are the bit sets of tt.rs: 0 none, 1 upper, 2 lower, 3 exact.
bound_matches(bound, lower) == bound \in (IF lower THEN {2, 3} ELSE {1, 3})
-----------------------------------------------------------------------------
(* The stack of activations. *)

NoReturn == [value |-> VALUE_NONE, line |-> <<0>>]
NoStore == [value |-> VALUE_NONE, bound |-> 0, aborted |-> FALSE]
Miss == [hit |-> FALSE, value |-> VALUE_NONE, bound |-> 0, depth |-> -2, move |-> 0]

\* A call of search.  again: the call is a re-entry of the node, at the same
\* ply, by a singular or a verification search; check is then already known.
Node(ply, alpha, beta, depth, cut, pv) ==
    [fn |-> "search", pc |-> "enter", ply |-> ply, root |-> FALSE, pv |-> pv,
     cut |-> cut, again |-> FALSE, check |-> FALSE, alpha |-> alpha, beta |-> beta,
     depth |-> depth, prior |-> 0, tt |-> Miss, best |-> -VALUE_INFINITE,
     bestMove |-> 0, n |-> 0, mv |-> 0, nd |-> 0, d |-> 0, val |-> 0,
     line |-> <<>>, tail |-> <<>>]

QNode(ply, alpha, beta, pv) ==
    [Node(ply, alpha, beta, 0, FALSE, pv) EXCEPT !.fn = "qsearch"]

Again(node, check) == [node EXCEPT !.again = TRUE, !.check = check]

Top == frames[Len(frames)]
Running(fn, pc) ==
    /\ frames # <<>> /\ ret = NoReturn
    /\ Top.fn = fn /\ Top.pc = pc
Returned(fn, pc) ==
    /\ frames # <<>> /\ ret # NoReturn
    /\ Top.fn = fn /\ Top.pc = pc

Goto(f) == frames' = [frames EXCEPT ![Len(frames)] = f] /\ ret' = NoReturn
Call(f, node) ==
    frames' = Append([frames EXCEPT ![Len(frames)] = f], node) /\ ret' = NoReturn
Return(v, line) ==
    /\ frames' = SubSeq(frames, 1, Len(frames) - 1)
    /\ ret' = [value |-> v, line |-> line]

\* A write of the node's entry; searched: a value was searched for it.
tt_store(v, bound, searched) ==
    stored' = [value |-> v, bound |-> bound, aborted |-> searched /\ stopped]
NoTTStore == stored' = NoStore

\* A table hit, a repetition, a mate in one, and every pruning step that returns
\* early, calls a search of its own or drops a move is a rare event: one search
\* has at most MaxRare of them, in any order and at any nodes.
Spend == rare > 0 /\ rare' = rare - 1
Free == UNCHANGED rare

\* What the table may answer at this ply.
Probes(ply) ==
    {Miss} \cup
    [hit : {TRUE}, value : {value_from_tt(v, ply) : v \in TTValues \cup {VALUE_NONE}},
     bound : 1..3, depth : TTDepths, move : {0, 1}]

\* do_move with push_accumulator, a null move, and the way back.
DoMove(m) == board' = Append(board, m) /\ accDepth' = accDepth + 1
DoNull == board' = Append(board, 0) /\ UNCHANGED accDepth
UndoMove == board' = SubSeq(board, 1, Len(board) - 1) /\ accDepth' = accDepth - 1
UndoNull == board' = SubSeq(board, 1, Len(board) - 1) /\ UNCHANGED accDepth
NoMove == UNCHANGED <<board, accDepth>>

\* Mutant of ClearChild: the child's line is left as it was.
ClearChildNot(c, ply) == c

\* self.stack[s + 1].pv.clear() and update_pv.
ClearChild(c, ply) == [c EXCEPT ![ply + 1].pv = <<>>]

update_pv(c, ply, m) == [c EXCEPT ![ply].pv = <<m>> \o c[ply + 1].pv]

ExcludedHere(f) == cells[f.ply].excluded
-----------------------------------------------------------------------------
(* search: from the call to the move loop. *)

\* With no depth left the call becomes a qsearch of the same node.
Dive ==
    /\ Running("search", "enter") /\ Top.depth <= 0
    /\ Goto([QNode(Top.ply, Top.alpha, Top.beta, Top.pv) EXCEPT
                !.again = Top.again, !.check = Top.check])
    /\ NoMove /\ NoTTStore /\ Free /\ UNCHANGED <<cells, nmpMinPly, stopped>>

\* check_time, repetition, abort and ply limit, mate distance pruning.
Enter ==
    /\ Running("search", "enter") /\ Top.depth > 0
    /\ stopped' \in {stopped, TRUE}
    /\ \/ /\ ~Top.root /\ ~Top.again /\ Spend
          /\ \E v \in RepetitionScores(Top.ply) : Return(v, <<>>)
       \/ /\ ~Top.root /\ (stopped' \/ Top.ply >= MaxPly) /\ Free
          /\ \E v \in DrawScores : Return(v, <<>>)
       \/ /\ Free
          /\ Top.root \/ ~(stopped' \/ Top.ply >= MaxPly)
          /\ LET alpha == IF Top.root THEN Top.alpha
                          ELSE Larger(mated_in(Top.ply), Top.alpha)
                 beta == IF Top.root THEN Top.beta
                         ELSE Smaller(mate_in(Top.ply + 1), Top.beta)
             IN IF alpha >= beta THEN Return(alpha, <<>>)
                ELSE \E check \in IF Top.again THEN {Top.check} ELSE BOOLEAN :
                        Goto([Top EXCEPT !.pc = "probe", !.check = check,
                                 !.alpha = alpha, !.beta = beta,
                                 !.depth = Smaller(Top.depth, DepthCap)])
    /\ NoMove /\ NoTTStore /\ UNCHANGED <<cells, nmpMinPly>>

CutoffAllowed(f, tt) ==
    /\ ~f.pv /\ ExcludedHere(f) = 0
    /\ tt.value # VALUE_NONE
    /\ tt.depth > f.depth - (IF tt.value <= f.beta THEN 1 ELSE 0)
    /\ bound_matches(tt.bound, tt.value >= f.beta)
    /\ f.cut = (tt.value >= f.beta) \/ f.depth > CutoffDepth

\* The table lookup, its cutoff, the mate in one and the declaration win.  At
\* the root the table's move is the first move of the line being searched.
Probe ==
    /\ Running("search", "probe")
    /\ \E answer \in Probes(Top.ply) :
        LET tt == IF Top.root THEN [answer EXCEPT !.move = 1] ELSE answer
        IN \/ CutoffAllowed(Top, tt) /\ Spend /\ Return(tt.value, <<>>) /\ NoTTStore
           \/ /\ ~CutoffAllowed(Top, tt)
              /\ \/ /\ Spend
                    /\ ~Top.root /\ ~tt.hit /\ ~Top.check /\ ExcludedHere(Top) = 0
                    /\ tt_store(mate_in(Top.ply + 1), 3, FALSE)
                    /\ Return(mate_in(Top.ply + 1), <<>>)
                 \/ /\ Spend
                    /\ tt.move = 0 \/ Top.pv
                    /\ Return(mate_in(Top.ply + 1), <<>>) /\ NoTTStore
                 \/ /\ IF tt.hit THEN Spend ELSE Free
                    /\ Goto([Top EXCEPT !.tt = tt,
                                !.pc = IF Top.check THEN "moves" ELSE "eval"])
                    /\ NoTTStore
    /\ NoMove /\ UNCHANGED <<cells, nmpMinPly, stopped>>

\* Steps 10: a node with no table move may be searched one ply less deep.
Iir(f) ==
    IF f.depth >= IirDepth /\ f.tt.move = 0 /\ f.prior <= 3
       /\ (f.pv \/ f.cut)
    THEN {f.depth - 1, f.depth}
    ELSE {f.depth}

ToProbCut(f) ==
    \E depth \in Iir(f) :
        Goto([f EXCEPT !.pc = "probcut", !.depth = depth, !.mv = 0, !.val = 0])

\* Steps 6 to 9: the static evaluation, the hindsight correction of the depth,
\* razoring, futility, and the null move.
Hindsight(f) ==
    {f.depth} \cup (IF f.prior >= 3 THEN {f.depth + 1} ELSE {})
              \cup (IF f.prior >= 2 /\ f.depth >= 2 THEN {f.depth - 1} ELSE {})

Evaluate ==
    /\ Running("search", "eval")
    /\ IF Top.tt.hit \/ ExcludedHere(Top) # 0 THEN NoTTStore ELSE tt_store(VALUE_NONE, 0, FALSE)
    /\ \E static \in Evals, depth \in Hindsight(Top) :
        LET f == [Top EXCEPT !.depth = depth]
            eval == IF /\ ExcludedHere(f) = 0 /\ f.tt.value # VALUE_NONE
                       /\ bound_matches(f.tt.bound, f.tt.value > static)
                    THEN f.tt.value ELSE static
        IN \/ /\ Spend /\ ~f.pv /\ eval < f.alpha - depth
              /\ Goto(Again(QNode(f.ply, f.alpha, f.beta, FALSE), FALSE))
              /\ NoMove
           \/ /\ Spend /\ ~f.pv
              /\ eval >= f.beta /\ ~is_loss(f.beta) /\ ~is_win(eval)
              /\ Return(Trunc(2 * f.beta + eval, 3), <<>>) /\ NoMove
           \/ /\ Spend /\ f.cut /\ static >= f.beta - depth
              /\ ExcludedHere(f) = 0 /\ f.ply >= nmpMinPly /\ ~is_loss(f.beta)
              /\ DoNull
              /\ Call([f EXCEPT !.pc = "null"],
                      Node(f.ply + 1, -f.beta, 1 - f.beta, depth - NullReduction,
                           FALSE, FALSE))
           \/ ToProbCut(f) /\ NoMove /\ Free
    /\ UNCHANGED <<cells, nmpMinPly, stopped>>

\* A null search that fails high is believed, or verified by searching the node
\* itself with the null move switched off for the next plies.
AfterNull ==
    /\ Returned("search", "null")
    /\ UndoNull
    /\ LET v == -ret.value
           depth == Top.depth - NullReduction
       IN \/ /\ v < Top.beta \/ is_win(v)
             /\ ToProbCut(Top) /\ UNCHANGED nmpMinPly
          \/ /\ v >= Top.beta /\ ~is_win(v)
             /\ nmpMinPly # 0 \/ Top.depth < VerifyDepth
             /\ Return(v, <<>>) /\ UNCHANGED nmpMinPly
          \/ /\ v >= Top.beta /\ ~is_win(v)
             /\ nmpMinPly = 0 /\ Top.depth >= VerifyDepth
             /\ nmpMinPly' = Top.ply + Trunc(3 * depth, 4)
             /\ Call([Top EXCEPT !.pc = "verify", !.val = v],
                     Again(Node(Top.ply, Top.beta - 1, Top.beta, depth, FALSE, FALSE),
                           Top.check))
    /\ NoTTStore /\ Free /\ UNCHANGED <<cells, stopped>>

\* Mutant of AfterVerify: nmp_min_ply stays as it was set.
AfterVerifyNoReset ==
    /\ Returned("search", "verify")
    /\ IF ret.value >= Top.beta THEN Return(Top.val, <<>>) ELSE ToProbCut(Top)
    /\ NoMove /\ NoTTStore /\ Free /\ UNCHANGED <<cells, nmpMinPly, stopped>>

AfterVerify ==
    /\ Returned("search", "verify")
    /\ nmpMinPly' = 0
    /\ IF ret.value >= Top.beta THEN Return(Top.val, <<>>) ELSE ToProbCut(Top)
    /\ NoMove /\ NoTTStore /\ Free /\ UNCHANGED <<cells, stopped>>

\* Step 11: each capture that may beat beta by a margin is tried, first by a
\* qsearch and then by a search of reduced depth.
ProbCutBeta(f) == f.beta + ProbCutMargin
ProbCutOpen(f) ==
    /\ f.depth >= ProbCutDepth /\ ~is_decisive(f.beta)
    /\ ~(f.tt.value # VALUE_NONE /\ f.tt.value < ProbCutBeta(f))

ProbCut ==
    /\ Running("search", "probcut")
    /\ \/ /\ Goto([Top EXCEPT !.pc = "moves", !.mv = 0]) /\ NoMove /\ Free
       \/ /\ ProbCutOpen(Top) /\ Spend
          /\ \E m \in (Top.mv + 1)..Moves \ {ExcludedHere(Top)} :
                /\ DoMove(m)
                /\ Call([Top EXCEPT !.pc = "probcut_q", !.mv = m],
                        QNode(Top.ply + 1, -ProbCutBeta(Top), 1 - ProbCutBeta(Top), FALSE))
    /\ NoTTStore /\ UNCHANGED <<cells, nmpMinPly, stopped>>

\* The capture is taken back; a value over the raised beta is stored, and
\* returned unless it is decisive.
ProbCutDone(v) ==
    /\ UndoMove
    /\ IF v >= ProbCutBeta(Top)
       THEN tt_store(value_to_tt(v, Top.ply), 2, TRUE) ELSE NoTTStore
    /\ IF v >= ProbCutBeta(Top) /\ ~is_decisive(v)
       THEN Return(v - ProbCutMargin, <<>>)
       ELSE Goto([Top EXCEPT !.pc = "probcut"])

AfterProbCut ==
    /\ \/ /\ Returned("search", "probcut_q")
          /\ LET v == -ret.value
                 depth == Top.depth - ProbCutReduction
             IN IF v >= ProbCutBeta(Top) /\ depth > 0
                THEN /\ Call([Top EXCEPT !.pc = "probcut_s"],
                             Node(Top.ply + 1, -ProbCutBeta(Top), 1 - ProbCutBeta(Top),
                                  depth, ~Top.cut, FALSE))
                     /\ NoMove /\ NoTTStore
                ELSE ProbCutDone(v)
       \/ Returned("search", "probcut_s") /\ ProbCutDone(-ret.value)
    /\ Free /\ UNCHANGED <<cells, nmpMinPly, stopped>>

\* Step 12, from the table alone.
SmallProbCut ==
    /\ Running("search", "moves")
    /\ LET tt == Top.tt
           beta == Top.beta + SmallProbCutMargin
       IN IF /\ bound_matches(tt.bound, TRUE) /\ tt.depth >= Top.depth - 4
             /\ tt.value # VALUE_NONE /\ tt.value >= beta
             /\ ~is_decisive(Top.beta) /\ ~is_decisive(tt.value)
          THEN Return(beta, <<>>)
          ELSE Goto([Top EXCEPT !.pc = "next", !.mv = 0])
    /\ NoMove /\ NoTTStore /\ Free /\ UNCHANGED <<cells, nmpMinPly, stopped>>
-----------------------------------------------------------------------------
(* search: the move loop. *)

\* Steps 14: what a pruned move leaves of the best value.
PrunedBest(f) ==
    {f.best} \cup
    (IF f.check THEN {}
     ELSE {v \in Evals : v <= f.alpha /\ f.best <= v /\ ~is_decisive(f.best)})

MayPrune(f) == ~f.root /\ ~is_loss(f.best)

SingularOpen(f, m) ==
    /\ ~f.root /\ m = f.tt.move /\ ExcludedHere(f) = 0
    /\ f.depth >= SingularDepth
    /\ f.tt.value # VALUE_NONE /\ ~is_decisive(f.tt.value)
    /\ bound_matches(f.tt.bound, TRUE) /\ f.tt.depth >= f.depth - 3

\* The next move of the picker: pruned, tried for singularity, or made.
NextMove ==
    /\ Running("search", "next")
    /\ \E m \in (Top.mv + 1)..Moves \ {ExcludedHere(Top)} :
        LET f == [Top EXCEPT !.mv = m, !.n = Top.n + 1, !.nd = Top.depth - 1, !.val = 0]
        IN /\ cells' = IF f.pv THEN ClearChild(cells, f.ply) ELSE cells
           /\ \/ /\ MayPrune(f) /\ Spend
                 /\ \E v \in PrunedBest(f) : Goto([f EXCEPT !.best = v])
              \/ Goto([f EXCEPT !.pc = "make"]) /\ Free
              \/ SingularOpen(f, m) /\ Goto([f EXCEPT !.pc = "exclude"]) /\ Free
    /\ NoMove /\ NoTTStore /\ UNCHANGED <<nmpMinPly, stopped>>

\* Step 15: the node is searched again without its table move.
Singular ==
    /\ Running("search", "exclude")
    /\ cells' = [cells EXCEPT ![Top.ply].excluded = Top.mv]
    /\ LET sb == Top.tt.value - SingularMargin
       IN Call([Top EXCEPT !.pc = "singular"],
               Again(Node(Top.ply, sb - 1, sb, Trunc(Top.nd, 2), Top.cut, FALSE), Top.check))
    /\ NoMove /\ NoTTStore /\ Free /\ UNCHANGED <<nmpMinPly, stopped>>

AfterSingular ==
    /\ Returned("search", "singular")
    /\ cells' = [cells EXCEPT ![Top.ply].excluded = 0]
    /\ LET v == ret.value
           sb == Top.tt.value - SingularMargin
           GoOn(ext, deeper) ==
               Goto([Top EXCEPT !.pc = "make", !.nd = Top.nd + ext,
                        !.depth = Top.depth + deeper])
       IN \/ v < sb /\ \E ext \in 1..3 : GoOn(ext, 1)
          \/ v >= sb /\ v >= Top.beta /\ ~is_decisive(v) /\ Return(v, <<>>)
          \/ /\ v >= sb /\ (v < Top.beta \/ is_decisive(v))
             /\ GoOn(IF Top.tt.value >= Top.beta THEN -3 ELSE IF Top.cut THEN -2 ELSE 0, 0)
    /\ NoMove /\ NoTTStore /\ Free /\ UNCHANGED <<nmpMinPly, stopped>>

ZeroWindow(f, depth, cut) == Node(f.ply + 1, -(f.alpha + 1), -f.alpha, depth, cut, FALSE)

\* The full-window search of a PV node.
PvSearch(f) ==
    /\ cells' = ClearChild(cells, f.ply)
    /\ \E depth \in {f.nd} \cup (IF f.mv = f.tt.move THEN {Larger(f.nd, 1)} ELSE {}) :
        Call([f EXCEPT !.pc = "pv"], Node(f.ply + 1, -f.beta, -f.alpha, depth, FALSE, TRUE))

\* Steps 16 to 18: the move is made and searched, with a reduction, at full
\* depth on the null window, or at once on the window of a PV node.  Of the
\* reduced depths the two ends of the code's clamp are taken.
MakeMove ==
    /\ Running("search", "make")
    /\ DoMove(Top.mv)
    /\ \/ /\ Top.depth >= 2 /\ Top.n > 1
          /\ \E x \in {1, Larger(1, Top.nd + 2)} :
                LET d == x + (IF Top.pv THEN 1 ELSE 0)
                IN Call([Top EXCEPT !.pc = "lmr", !.d = d],
                        [ZeroWindow(Top, d, TRUE) EXCEPT !.prior = Larger(0, Top.nd - d)])
          /\ UNCHANGED cells
       \/ /\ ~(Top.depth >= 2 /\ Top.n > 1) /\ (~Top.pv \/ Top.n > 1)
          /\ \E less \in 0..(IF Top.nd > 2 THEN 2 ELSE 1) :
                Call([Top EXCEPT !.pc = "zero"], ZeroWindow(Top, Top.nd - less, ~Top.cut))
          /\ UNCHANGED cells
       \/ /\ ~(Top.depth >= 2 /\ Top.n > 1) /\ Top.pv /\ Top.n = 1
          /\ PvSearch(Top)
    /\ NoTTStore /\ Free /\ UNCHANGED <<nmpMinPly, stopped>>

\* Where a move goes once its null-window value is known.
ToPvOrFold(f, v) ==
    IF f.pv /\ (f.n = 1 \/ v > f.alpha) THEN PvSearch(f)
    ELSE Goto([f EXCEPT !.pc = "fold", !.val = v, !.tail = <<>>]) /\ UNCHANGED cells

AfterReduced ==
    /\ Returned("search", "lmr")
    /\ LET v == -ret.value
           deeper == IF Top.d < Top.nd /\ v > Top.best + 2 THEN 1 ELSE 0
           shallower == IF v < Top.best + 1 THEN 1 ELSE 0
           f == [Top EXCEPT !.nd = Top.nd + deeper - shallower, !.d = 0]
       IN IF v > Top.alpha
          THEN IF f.nd > Top.d
               THEN Call([f EXCEPT !.pc = "zero"], ZeroWindow(f, f.nd, ~f.cut)) /\ UNCHANGED cells
               ELSE ToPvOrFold(f, v)
          ELSE ToPvOrFold([Top EXCEPT !.d = 0], v)
    /\ NoMove /\ NoTTStore /\ Free /\ UNCHANGED <<nmpMinPly, stopped>>

AfterZero ==
    /\ Returned("search", "zero")
    /\ ToPvOrFold(Top, -ret.value)
    /\ NoMove /\ NoTTStore /\ Free /\ UNCHANGED <<nmpMinPly, stopped>>

AfterPv ==
    /\ Returned("search", "pv")
    /\ Goto([Top EXCEPT !.pc = "fold", !.val = -ret.value, !.tail = ret.line])
    /\ NoMove /\ NoTTStore /\ Free /\ UNCHANGED <<cells, nmpMinPly, stopped>>

\* Steps 19 and 20: the move is taken back and its value folded in, unless the
\* search was stopped meanwhile.  Ties may go to the later move.
MayTie(f) ==
    /\ f.val = f.best /\ f.ply >= TiePly
    /\ ~is_win(Abs(f.val) + 1)

Fold ==
    /\ Running("search", "fold")
    /\ UndoMove
    /\ \E inc \in {0} \cup (IF MayTie(Top) THEN {1} ELSE {}) :
        LET v == Top.val
            better == v + inc > Top.best
            raises == better /\ v + inc > Top.alpha
            f == [Top EXCEPT !.pc = "next", !.val = 0, !.tail = <<>>,
                     !.best = IF better THEN v ELSE @,
                     !.bestMove = IF raises THEN Top.mv ELSE @,
                     !.line = IF raises /\ Top.pv /\ ~Top.root THEN <<Top.mv>> \o Top.tail
                              ELSE @]
        IN IF stopped THEN Return(0, <<>>) /\ UNCHANGED cells
           ELSE /\ cells' = IF raises /\ Top.pv /\ ~Top.root
                            THEN update_pv(cells, Top.ply, Top.mv) ELSE cells
                /\ IF raises /\ v >= Top.beta THEN Goto([f EXCEPT !.pc = "tail"])
                   ELSE IF raises
                   THEN Goto([f EXCEPT !.alpha = v,
                                 !.depth = IF f.depth > 2 /\ f.depth < DeepDepth /\ ~is_decisive(v)
                                           THEN f.depth - 2 ELSE @])
                   ELSE Goto(f)
    /\ NoTTStore /\ Free /\ UNCHANGED <<nmpMinPly, stopped>>

\* The picker has no more moves; the root has at least one.
LoopEnd ==
    /\ Running("search", "next")
    /\ Top.root => Top.n > 0
    /\ Goto([Top EXCEPT !.pc = "tail", !.mv = 0])
    /\ NoMove /\ NoTTStore /\ Free /\ UNCHANGED <<cells, nmpMinPly, stopped>>

\* Steps 21 to 23.
Finish ==
    /\ Running("search", "tail")
    /\ LET excluded == ExcludedHere(Top) # 0
           softened ==
               IF Top.best >= Top.beta /\ ~is_decisive(Top.best) /\ ~is_decisive(Top.alpha)
               THEN Trunc(Top.best * Top.depth + Top.beta, Top.depth + 1) ELSE Top.best
           best == IF Top.n = 0 THEN (IF excluded THEN Top.alpha ELSE mated_in(Top.ply))
                   ELSE softened
           bound == IF best >= Top.beta THEN 2
                    ELSE IF Top.pv /\ Top.bestMove # 0 THEN 3 ELSE 1
       IN /\ IF excluded THEN NoTTStore ELSE tt_store(value_to_tt(best, Top.ply), bound, Top.n > 0)
          /\ Return(best, Top.line)
    /\ NoMove /\ Free /\ UNCHANGED <<cells, nmpMinPly, stopped>>
-----------------------------------------------------------------------------
(* qsearch. *)

QEnter ==
    /\ Running("qsearch", "enter")
    /\ stopped' \in {stopped, TRUE}
    /\ IF stopped' THEN Return(0, <<>>) /\ Free /\ UNCHANGED cells
       ELSE /\ cells' = IF Top.pv THEN [cells EXCEPT ![Top.ply].pv = <<>>] ELSE cells
            /\ \/ /\ ~Top.again /\ Spend
                  /\ \E v \in RepetitionScores(Top.ply) : Return(v, <<>>)
               \/ Top.ply >= MaxPly /\ Free /\ \E v \in DrawScores : Return(v, <<>>)
               \/ /\ Top.ply < MaxPly /\ Free
                  /\ \E check \in IF Top.again THEN {Top.check} ELSE BOOLEAN :
                        Goto([Top EXCEPT !.pc = "probe", !.check = check])
    /\ NoMove /\ NoTTStore /\ UNCHANGED nmpMinPly

\* The table and its cutoff.
QProbe ==
    /\ Running("qsearch", "probe")
    /\ \E tt \in Probes(Top.ply) :
        /\ IF tt.hit THEN Spend ELSE Free
        /\ IF /\ ~Top.pv /\ tt.depth >= 0 /\ tt.value # VALUE_NONE
              /\ bound_matches(tt.bound, tt.value >= Top.beta)
           THEN Return(tt.value, <<>>)
           ELSE Goto([Top EXCEPT !.tt = IF Top.check THEN Miss ELSE tt,
                         !.pc = IF Top.check THEN "next" ELSE "stand"])
    /\ NoMove /\ NoTTStore /\ UNCHANGED <<cells, nmpMinPly, stopped>>

\* The mate in one, tried where the table missed.
QMate ==
    /\ Running("qsearch", "stand") /\ ~Top.tt.hit /\ Spend
    /\ tt_store(mate_in(Top.ply + 1), 3, FALSE)
    /\ Return(mate_in(Top.ply + 1), <<>>)
    /\ NoMove /\ UNCHANGED <<cells, nmpMinPly, stopped>>

\* The evaluation, refined by the table's value, may already reach beta.
StandPat ==
    /\ Running("qsearch", "stand") /\ Free
    /\ \E static \in Evals :
        LET tt == Top.tt
            stand == IF /\ tt.value # VALUE_NONE /\ ~is_decisive(tt.value)
                        /\ bound_matches(tt.bound, tt.value > static)
                     THEN tt.value ELSE static
            high == Trunc(stand + Top.beta, 2)
        IN IF stand >= Top.beta
           THEN /\ Return(high, <<>>)
                /\ IF tt.hit THEN NoTTStore ELSE tt_store(value_to_tt(high, Top.ply), 2, FALSE)
           ELSE /\ Goto([Top EXCEPT !.pc = "next", !.tt = Miss, !.best = stand,
                            !.alpha = Larger(Top.alpha, stand)])
                /\ NoTTStore
    /\ NoMove /\ UNCHANGED <<cells, nmpMinPly, stopped>>

\* The next capture, or evasion: pruned while nothing is lost, or made.
QNextMove ==
    /\ Running("qsearch", "next")
    /\ \E m \in (Top.mv + 1)..Moves :
        LET f == [Top EXCEPT !.mv = m, !.n = Top.n + 1]
        IN \/ /\ ~is_loss(f.best) /\ Spend
              /\ \E v \in {f.best} \cup (IF f.check THEN {}
                                         ELSE {e \in Evals : f.best < e /\ e <= f.alpha}) :
                    Goto([f EXCEPT !.best = v])
              /\ NoMove
           \/ /\ DoMove(m) /\ Free
              /\ Call([f EXCEPT !.pc = "child"],
                      QNode(f.ply + 1, -f.beta, -f.alpha, f.pv))
    /\ NoTTStore /\ UNCHANGED <<cells, nmpMinPly, stopped>>

QAfterChild ==
    /\ Returned("qsearch", "child")
    /\ UndoMove
    /\ LET v == -ret.value
           better == v > Top.best
           raises == better /\ v > Top.alpha
       IN IF stopped THEN Return(Top.best, <<>>) /\ UNCHANGED cells
          ELSE /\ cells' = IF raises /\ Top.pv THEN update_pv(cells, Top.ply, Top.mv) ELSE cells
               /\ Goto([Top EXCEPT
                       !.pc = IF raises /\ v >= Top.beta THEN "tail" ELSE "next",
                       !.best = IF better THEN v ELSE @,
                       !.bestMove = IF raises THEN Top.mv ELSE @,
                       !.line = IF raises /\ Top.pv THEN <<Top.mv>> \o ret.line ELSE @,
                       !.alpha = IF raises /\ v < Top.beta THEN v ELSE @])
    /\ NoTTStore /\ Free /\ UNCHANGED <<nmpMinPly, stopped>>

QTail ==
    /\ \/ Running("qsearch", "tail")
       \/ Running("qsearch", "next")
    /\ IF Top.check /\ Top.n = 0 THEN Return(mated_in(Top.ply), <<>>) /\ NoTTStore
       ELSE LET best == IF ~is_decisive(Top.best) /\ Top.best > Top.beta
                        THEN Trunc(Top.best + Top.beta, 2) ELSE Top.best
            IN /\ tt_store(value_to_tt(best, Top.ply), IF best >= Top.beta THEN 2 ELSE 1, Top.n > 0)
               /\ Return(best, Top.line)
    /\ NoMove /\ Free /\ UNCHANGED <<cells, nmpMinPly, stopped>>
-----------------------------------------------------------------------------
Init ==
    /\ \E w \in Windows, depth \in 1..RootDepth :
        frames = <<[Node(0, w[1], w[2], depth, FALSE, TRUE) EXCEPT !.root = TRUE]>>
    /\ ret = NoReturn
    /\ board = <<>> /\ accDepth = 0
    /\ cells = [ply \in 0..(MaxPly + 2) |-> [excluded |-> 0, pv |-> <<>>]]
    /\ nmpMinPly = 0 /\ stopped = FALSE /\ stored = NoStore /\ rare = MaxRare

Next ==
    \/ Dive \/ Enter \/ Probe \/ Evaluate \/ AfterNull \/ AfterVerify
    \/ ProbCut \/ AfterProbCut \/ SmallProbCut \/ NextMove \/ Singular \/ AfterSingular
    \/ MakeMove \/ AfterReduced \/ AfterZero \/ AfterPv \/ Fold \/ LoopEnd \/ Finish
    \/ QEnter \/ QProbe \/ QMate \/ StandPat \/ QNextMove \/ QAfterChild \/ QTail

Spec == Init /\ [][Next]_vars
-----------------------------------------------------------------------------
(* Properties. *)

\* The plies that are being verified or searched for singularity.
Awaiting(pc) == {f.ply : f \in {frames[i] : i \in {j \in 1..Len(frames) : frames[j].pc = pc}}}

\* The activations whose move is on the board: they wait for a child position,
\* or have its value and are about to take the move back.
DeepPcs == {"null", "probcut_q", "probcut_s", "lmr", "zero", "pv", "fold", "child"}
Waiting == {i \in 1..Len(frames) : frames[i].pc \in DeepPcs}
Made(f) == IF f.pc = "null" THEN 0 ELSE f.mv

\* The moves on the board are those of the waiting activations, in the order of
\* the stack, one to a ply.
BoardFollows ==
    /\ \A i \in Waiting :
        frames[i].ply < Len(board) /\ board[frames[i].ply + 1] = Made(frames[i])
    /\ \A i, j \in Waiting : i < j => frames[i].ply < frames[j].ply
    /\ \A k \in 1..Len(board) : \E i \in Waiting : frames[i].ply + 1 = k

\* (Hazard: position, accumulator and search stack out of step.)  Whatever the
\* order of null moves, verification, singular and ProbCut searches, reductions
\* and aborts, the position of qsearch.rs follows the activations exactly, the
\* accumulator stack is as deep as the board has real moves, the running
\* activation is at the ply the board has, excluded_move is set only while its
\* singular search runs, and nmp_min_ply only while a verification search does.
Unwinds ==
    /\ BoardFollows
    /\ accDepth = Cardinality({k \in 1..Len(board) : board[k] # 0})
    /\ frames # <<>> /\ ret = NoReturn /\ Top.pc # "fold" => Top.ply = Len(board)
    /\ \A ply \in DOMAIN cells : cells[ply].excluded # 0 <=> ply \in Awaiting("singular")
    /\ nmpMinPly # 0 => Awaiting("verify") # {}
    /\ \A i \in 1..Len(frames) : frames[i].ply \in 0..MaxPly

\* (Hazard: a window that collapses or leaves the range.)  The assertions at
\* the head of search hold for every call: the window is not empty and a null
\* window off the PV, and a PV node is never a cut node.
AssertionsHold ==
    \A i \in 1..Len(frames) :
        LET f == frames[i]
        IN /\ -VALUE_INFINITE <= f.alpha /\ f.alpha < f.beta /\ f.beta <= VALUE_INFINITE
           /\ f.pv \/ f.alpha = f.beta - 1
           /\ ~(f.pv /\ f.cut)

\* A fail-high value of qsearch is averaged with beta: a score that is no mate
\* with a bound that is one can give a mate of Reach plies from the root, at any
\* ply.  Up to there a mate has the distance of its ply at least.
Reach == (MaxPly + 1) \div 2
Shortest(ply) == Smaller(ply, Reach)
Scores(ply) == mated_in(Shortest(ply))..mate_in(Shortest(ply))

\* The ply of the activation that has just returned, and of the one that stored.
ReturnPly ==
    IF frames = <<>> THEN 0
    ELSE IF Top.pc \in {"verify", "singular"} THEN Top.ply ELSE Top.ply + 1
StoringPly == IF ret = NoReturn THEN Top.ply ELSE ReturnPly

\* (Hazard: mate scores shifted by the ply.)  As long as the search has not been
\* stopped, every value an activation returns lies between being mated at its
\* ply and mating at its ply, or at Reach from deeper down; every value it stores
\* fits the 16 bits of an entry, and from a ply up to Reach lies between the two
\* mates at the root, so that no reader takes it for VALUE_NONE.
MateRange ==
    ~stopped =>
        /\ ret # NoReturn => ret.value \in Scores(ReturnPly)
        /\ stored.bound # 0 =>
            /\ stored.value \in -(Mate + MaxPly)..(Mate + MaxPly)
            /\ StoringPly <= Reach => stored.value \in -Mate..Mate

\* Windows and values stay within their bounds: both of the above.
WindowsAndValues == AssertionsHold /\ MateRange

\* (Hazard: a stale line.)  The line a PV node keeps in its cell of the shared
\* stack is the one its own searches returned, move by move: no line left by
\* another move, another node of the ply, or a search off the PV gets into it.
\* A node of qsearch clears the cell only after its check for a stop.
PvIsTheLine ==
    \A i \in 1..Len(frames) :
        LET f == frames[i]
        IN /\ f.pv /\ ~f.root
           /\ ~(f.fn = "qsearch" /\ f.pc = "enter")
           => cells[f.ply].pv = f.line

\* The comment at qsearch.rs:1106: "On abort the return value is discarded, the
\* interior caller unwinding on its own check."  So no entry of the table may
\* hold a value that a child returned after the stop, be it the zero of a child
\* that saw the stop at once or what an interrupted child had found so far.
NothingStoredFromAbort == ~stored.aborted
=============================================================================
