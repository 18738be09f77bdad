----------------------------- MODULE RootSearch -----------------------------
(***************************************************************************)
(* One worker's root search: iterative deepening, one search per PV line   *)
(* (MultiPV), the aspiration window of a line, the root's share of search  *)
(* (which moves it tries and what it writes into their RootMove), the      *)
(* rollback of an aborted iteration, and the PV lines shown to the GUI up  *)
(* to the coordinator's last.                                              *)
(*                                                                         *)
(* What a child's search returns is any value, and whether the PV interval *)
(* has elapsed is any answer.  A move's averages, which only place and     *)
(* size its next window, are any pair of Centre and Width once it has been *)
(* searched.  Values are scaled down by the constants.                     *)
(***************************************************************************)
EXTENDS Integers, Sequences, FiniteSets

CONSTANTS
    Move,           \* the legal root moves
    RootMoves,      \* the order they are generated in
    MaxMultiPV,     \* the option MultiPV
    LimitDepth,     \* the depth of the go, below MAX_PLY
    INFINITE,       \* VALUE_INFINITE
    WIN,            \* VALUE_TB_WIN_IN_MAX_PLY
    Value,          \* what a search may return
    Centre, Width   \* where and how wide a move's averages may open its window

ASSUMPTION RootAssumption ==
    /\ RootMoves \in Seq(Move) /\ RootMoves # << >>
    /\ MaxMultiPV \in Nat \ {0} /\ LimitDepth \in Nat \ {0}
    /\ INFINITE \in Nat /\ WIN \in 1 .. INFINITE
    /\ Value \subseteq (1 - INFINITE) .. (INFINITE - 1)
    /\ Centre \subseteq (1 - INFINITE) .. (INFINITE - 1) /\ Centre # {}
    /\ Width \subseteq 1 .. 2 * INFINITE /\ Width # {}

ASSUMPTION DistinctMoves ==
    \A i, j \in 1 .. Len(RootMoves) : RootMoves[i] = RootMoves[j] => i = j

VARIABLES
    rootMoves,      \* the RootMoves, as records
    multiPv, rootDepth,
    pvIdx,          \* the line being searched, counted from 1
    alpha, beta, delta,
    low,            \* alpha as search has raised it
    bestValue,
    tried,          \* the root moves search has searched
    pc,
    completedLines, completedDepth,
    uciPvSent,
    shown,          \* the first move of the last PV shown as the first line
    bestmove

window == <<alpha, beta, delta>>
searching == <<low, bestValue, tried>>
kept == <<completedLines, completedDepth>>
output == <<uciPvSent, shown, bestmove>>
vars == <<rootMoves, multiPv, rootDepth, pvIdx, window, searching, pc, kept, output>>

None == "none"
DRAW == 0

Least(a, b) == IF a < b THEN a ELSE b
Greatest(a, b) == IF a > b THEN a ELSE b
IsWin(v) == v >= WIN
IsLoss(v) == v <= -WIN
IsDecisive(v) == IsWin(v) \/ IsLoss(v)

-----------------------------------------------------------------------------
\* The root moves and their order.

\* `averaged`: average_score is not its sentinel.  `at` is a history field: the depth
\* of the iteration whose search set `score`.
NewRootMove(m) ==
    [mv |-> m, score |-> -INFINITE, previous |-> -INFINITE, averaged |-> FALSE,
     bound |-> "exact", at |-> 0]

Precedes(a, b) ==
    \/ a.score > b.score
    \/ a.score = b.score /\ a.previous > b.previous

\* The stable sort of positions lo .. hi: equal moves keep their order.
SortsBefore(rms, k, i) ==
    \/ Precedes(rms[k], rms[i])
    \/ k < i /\ ~Precedes(rms[i], rms[k])

Ahead(rms, lo, hi, i) == {k \in lo .. hi : SortsBefore(rms, k, i)}
Place(rms, lo, hi, i) == lo + Cardinality(Ahead(rms, lo, hi, i))

Sorted(rms, lo, hi) ==
    [n \in 1 .. Len(rms) |->
        IF n \in lo .. hi
        THEN rms[CHOOSE i \in lo .. hi : Place(rms, lo, hi, i) = n]
        ELSE rms[n]]

Active == pvIdx .. Len(rootMoves)
Open == {rootMoves[i].mv : i \in Active}

-----------------------------------------------------------------------------
Init ==
    /\ rootMoves = [i \in 1 .. Len(RootMoves) |-> NewRootMove(RootMoves[i])]
    /\ multiPv = Least(MaxMultiPV, Len(RootMoves))
    /\ rootDepth = 0 /\ pvIdx = 1
    /\ alpha = 0 /\ beta = 0 /\ delta = 0
    /\ low = 0 /\ bestValue = 0 /\ tried = {}
    /\ pc = "iterate"
    /\ completedLines = << >> /\ completedDepth = 0
    /\ uciPvSent = FALSE /\ shown = None /\ bestmove = None

\* The head of the loop over depths.
Iterate ==
    /\ pc = "iterate" /\ rootDepth < LimitDepth
    /\ rootDepth' = rootDepth + 1
    /\ rootMoves' = [i \in 1 .. Len(rootMoves) |->
                        [rootMoves[i] EXCEPT !.previous = rootMoves[i].score]]
    /\ uciPvSent' = FALSE /\ pvIdx' = 1 /\ pc' = "window"
    /\ UNCHANGED <<multiPv, window, searching, kept, shown, bestmove>>

DepthReached ==
    /\ pc = "iterate" /\ rootDepth = LimitDepth
    /\ pc' = "result"
    /\ UNCHANGED <<rootMoves, multiPv, rootDepth, pvIdx, window, searching, kept, output>>

\* What search starts from.
BeginSearch(a) == low' = a /\ bestValue' = -INFINITE /\ tried' = {} /\ pc' = "search"

\* The centre and half-width of a line's first window: the sentinels of a move never
\* searched open the infinite one.
Windows == IF rootMoves[pvIdx].averaged THEN Centre \X Width
                                        ELSE {<<-INFINITE, 2 * INFINITE>>}

OpenWindow ==
    /\ pc = "window"
    /\ \E w \in Windows :
         /\ delta' = w[2]
         /\ alpha' = Greatest(w[1] - w[2], -INFINITE)
         /\ beta' = Least(w[1] + w[2], INFINITE)
    /\ BeginSearch(alpha')
    /\ UNCHANGED <<rootMoves, multiPv, rootDepth, pvIdx, kept, output>>

\* Step 20 of search<Root>: the first move tried and every move above alpha are
\* recorded, the others sink.
Recorded(rm, v) ==
    [rm EXCEPT
        !.averaged = TRUE, !.score = v, !.at = rootDepth,
        !.bound = IF v >= beta THEN "lower" ELSE IF v <= low THEN "upper" ELSE "exact"]

Sunk(rm) == [rm EXCEPT !.averaged = TRUE, !.score = -INFINITE, !.at = rootDepth]

SearchMove(i, v) ==
    LET first == tried = {}
        m == rootMoves[i].mv
    IN  /\ pc = "search" /\ m \notin tried
        /\ first => i = pvIdx           \* the line's own move is the TT move
        /\ rootMoves' = [rootMoves EXCEPT ![i] =
                            IF first \/ v > low THEN Recorded(@, v) ELSE Sunk(@)]
        /\ tried' = tried \union {m}
        /\ bestValue' = Greatest(bestValue, v)
        /\ low' = IF v < beta THEN Greatest(low, v) ELSE low
        /\ pc' = IF v >= beta \/ tried' = Open THEN "returned" ELSE "search"
        /\ UNCHANGED <<multiPv, rootDepth, pvIdx, window, kept, output>>

\* ProbCut and small ProbCut are not barred from the root: they return at or above
\* beta without a look at any root move.
ProbCut(v) ==
    /\ pc = "search" /\ tried = {}
    /\ ~IsDecisive(beta) /\ ~IsDecisive(v) /\ v >= beta
    /\ bestValue' = v /\ pc' = "returned"
    /\ UNCHANGED <<rootMoves, multiPv, rootDepth, pvIdx, window, low, tried, kept, output>>

\* The locals of a line go out of scope.
LeaveWindow ==
    /\ alpha' = 0 /\ beta' = 0 /\ delta' = 0
    /\ low' = 0 /\ tried' = {}

\* A stop inside a child: search returns without folding the child's value in, the
\* tail is sorted, and the window and line loops are left.
Abort ==
    /\ pc = "search"
    /\ rootMoves' = Sorted(rootMoves, pvIdx, Len(rootMoves))
    /\ bestValue' = DRAW
    /\ LeaveWindow
    /\ pc' = "aborted"
    /\ UNCHANGED <<multiPv, rootDepth, pvIdx, kept, output>>

\* A fail high that is no mate score is blended towards beta, with the depth's weight.
Returned(v) == v \in beta .. bestValue /\ (IsDecisive(bestValue) => v = bestValue)

\* should_output_fail_lh and emit_pv, only with a single line.
MayShowFail == \/ UNCHANGED shown
               \/ multiPv = 1 /\ shown' = rootMoves'[1].mv

\* Mutant of Widened: the window keeps its width.
WidenedNever == delta

\* `delta` grows without bound; beyond twice INFINITE its size makes no difference.
Widened == Least(delta + delta \div 3, 2 * INFINITE)

\* Mutant of FailLow: alpha is lowered before beta takes its old value.
FailLowSwapped ==
    /\ pc = "returned" /\ bestValue <= alpha
    /\ rootMoves' = Sorted(rootMoves, pvIdx, Len(rootMoves))
    /\ MayShowFail
    /\ alpha' = Greatest(bestValue - delta, -INFINITE)
    /\ beta' = alpha'
    /\ delta' = Widened
    /\ BeginSearch(alpha')
    /\ UNCHANGED <<multiPv, rootDepth, pvIdx, kept, uciPvSent, bestmove>>

FailLow ==
    /\ pc = "returned" /\ bestValue <= alpha
    /\ rootMoves' = Sorted(rootMoves, pvIdx, Len(rootMoves))
    /\ MayShowFail
    /\ beta' = alpha
    /\ alpha' = Greatest(bestValue - delta, -INFINITE)
    /\ delta' = Widened
    /\ BeginSearch(alpha')
    /\ UNCHANGED <<multiPv, rootDepth, pvIdx, kept, uciPvSent, bestmove>>

FailHigh ==
    /\ pc = "returned" /\ bestValue >= beta
    /\ rootMoves' = Sorted(rootMoves, pvIdx, Len(rootMoves))
    /\ MayShowFail
    /\ alpha' = Greatest(beta - delta, alpha)
    /\ \E v \in beta .. bestValue : Returned(v) /\ beta' = Least(v + delta, INFINITE)
    /\ delta' = Widened
    /\ BeginSearch(alpha')
    /\ UNCHANGED <<multiPv, rootDepth, pvIdx, kept, uciPvSent, bestmove>>

Inside ==
    /\ pc = "returned" /\ alpha < bestValue /\ bestValue < beta
    /\ rootMoves' = Sorted(rootMoves, pvIdx, Len(rootMoves))
    /\ LeaveWindow
    /\ pc' = "inside"
    /\ UNCHANGED <<multiPv, rootDepth, pvIdx, bestValue, kept, output>>

\* Mutant of EndLine: the head is left in the order the lines were searched in.
EndLineUnsorted ==
    /\ \/ UNCHANGED <<shown, uciPvSent>>
       \/ /\ shown' = rootMoves[1].mv
          /\ uciPvSent' = (pvIdx = multiPv)
    /\ UNCHANGED <<rootMoves, multiPv, rootDepth, window, searching, kept, bestmove>>

\* The end of a line: the head is sorted and the lines may be shown, as the nodes,
\* the interval and, after a stop, the first line's score allow.
EndLine ==
    /\ rootMoves' = Sorted(rootMoves, 1, pvIdx)
    /\ \/ UNCHANGED <<shown, uciPvSent>>
       \/ /\ shown' = rootMoves'[1].mv
          /\ uciPvSent' = (pvIdx = multiPv)
    /\ UNCHANGED <<multiPv, rootDepth, window, searching, kept, bestmove>>

\* Mutant of NextLine: one line too many.
NextLineInclusive ==
    /\ pc = "inside" /\ pvIdx <= multiPv
    /\ EndLine
    /\ pvIdx' = pvIdx + 1 /\ pc' = "window"

NextLine ==
    /\ pc = "inside" /\ pvIdx < multiPv
    /\ EndLine
    /\ pvIdx' = pvIdx + 1 /\ pc' = "window"

LastLine ==
    /\ pc = "inside" /\ pvIdx = multiPv
    /\ EndLine
    /\ pc' = "complete"
    /\ UNCHANGED pvIdx

AbortedLine ==
    /\ pc = "aborted"
    /\ EndLine
    /\ pc' = "result"
    /\ UNCHANGED pvIdx

\* The iteration is complete; a decisive score may end the search here.
CompleteIteration ==
    /\ pc = "complete"
    /\ completedLines' = SubSeq(rootMoves, 1, multiPv)
    /\ completedDepth' = rootDepth
    /\ pc' \in {"iterate"} \union (IF IsDecisive(bestValue) THEN {"result"} ELSE {})
    /\ UNCHANGED <<rootMoves, multiPv, rootDepth, pvIdx, window, searching, output>>

\* run_worker's result: an aborted iteration is rolled back.
Best == IF completedLines = << >> THEN rootMoves[1] ELSE completedLines[1]

\* The coordinator answers, after a last PV, which it writes unless uciPvSent says it
\* has been sent and no ponder move was added to it.
Result ==
    /\ pc = "result"
    /\ bestmove' = Best.mv
    /\ \/ shown' = Best.mv
       \/ uciPvSent /\ UNCHANGED shown
    /\ pc' = "done"
    /\ UNCHANGED <<rootMoves, multiPv, rootDepth, pvIdx, window, searching, kept, uciPvSent>>

Step ==
    \/ Iterate \/ DepthReached \/ OpenWindow
    \/ \E i \in Active, v \in Value : SearchMove(i, v)
    \/ \E v \in Value : ProbCut(v)
    \/ FailLow \/ FailHigh \/ Inside
    \/ NextLine \/ LastLine \/ AbortedLine
    \/ CompleteIteration \/ Result

Next == Step \/ Abort

Spec == Init /\ [][Next]_vars

\* The worker's thread runs and every search of a child returns; nobody has to stop it.
FairSpec == Spec /\ WF_vars(Step)

-----------------------------------------------------------------------------
\* The types; the root moves are always the generated ones, in some order.
TypeOK ==
    /\ \A i \in 1 .. Len(rootMoves) :
         /\ rootMoves[i].score \in -INFINITE .. INFINITE - 1
         /\ rootMoves[i].at \in 0 .. rootDepth
    /\ Len(rootMoves) = Len(RootMoves)
    /\ \A i \in 1 .. Len(RootMoves) :
         \E k \in 1 .. Len(rootMoves) : rootMoves[k].mv = RootMoves[i]
    /\ pvIdx \in 1 .. multiPv
    /\ shown \in Move \union {None} /\ bestmove \in Move \union {None}

\* Every window search is called with is open and within the infinite one (the
\* debug_assert at the top of search), through all fails and resorts.
WindowOpen ==
    pc = "search" => -INFINITE <= alpha /\ alpha < beta /\ beta <= INFINITE

\* When a line is done its first move has the value the search returned, exactly, and
\* scores above every move left for later lines, whatever the attempts before the
\* last one left in the list.
HeadHasTheValue ==
    pc = "inside" =>
        LET head == rootMoves[pvIdx]
        IN  /\ head.score = bestValue /\ head.bound = "exact"
            /\ \A k \in pvIdx + 1 .. Len(rootMoves) : rootMoves[k].score < head.score

\* The lines of the last completed iteration, which an abort falls back on, are as
\* many as asked for, of different moves, best first, and each was scored, exactly,
\* in that iteration.
CompletedLinesExact ==
    LET n == Len(completedLines)
    IN  /\ n = (IF completedDepth = 0 THEN 0 ELSE multiPv)
        /\ \A i \in 1 .. n :
             /\ completedLines[i].at = completedDepth
             /\ completedLines[i].bound = "exact"
             /\ completedLines[i].score > -INFINITE
        /\ \A i, j \in 1 .. n : i < j =>
             /\ completedLines[i].mv # completedLines[j].mv
             /\ completedLines[i].score >= completedLines[j].score

\* The lines are exact, both the one a search has just come back with and those
\* an abort falls back on.
LinesExact == HeadHasTheValue /\ CompletedLinesExact

\* A line's window cannot be widened for ever: whatever the attempts return, one of
\* them ends inside its window, or the search is stopped.
AspirationEnds == pc = "search" ~> pc \in {"inside", "aborted"}

\* What the GUI is shown last agrees with the move it is given: the PV of `bestmove`
\* (the assertion of the session tests).
FinalPVAgrees == pc = "done" => shown = bestmove
=============================================================================
