----------------------------- MODULE TimeBudget -----------------------------
(***************************************************************************)
(* One go under a clock: the budget that TimeManagement plans for it and   *)
(* the end time that is fixed once it has run for a while.                 *)
(***************************************************************************)
EXTENDS TimeManagement

CONSTANTS
    Inputs,     \* the clocks and options a go may come with
    Hits,       \* when a ponderhit may come, 0 without ponder
    Elapsed     \* how long after it the search may decide to stop

\* Any numbers: the clocks are the GUI's, and a clock may be overdrawn.
ASSUME InputsAssumption ==
    \A in \in Inputs :
        /\ {in.time, in.inc, in.byoyomi, in.movetime, in.rtime, in.jitter, in.delay, in.delay2,
            in.minThink, in.slowMover, in.ply, in.maxMoves} \subseteq Int
        /\ in.fullSecond \in BOOLEAN

ASSUME ClocksAssumption == Hits \subseteq Nat /\ Elapsed \subseteq Int

VARIABLES
    input,      \* the TimeInput
    budget,     \* what was planned for it
    decided,    \* elapsed time at which the search decided to stop, -1 before
    hitAfter,   \* when our own clock began to run
    endTime     \* the end time fixed

budgetVars == <<input, budget, decided, hitAfter, endTime>>

BudgetInit ==
    /\ input \in Inputs
    /\ budget = InitBudget(input)
    /\ decided = -1 /\ hitAfter = 0 /\ endTime = 0

(* The search decides to stop; set_search_end fixes the end time. *)
Decide ==
    /\ decided = -1
    /\ hitAfter' \in Hits
    /\ decided' \in {d + hitAfter' : d \in Elapsed}
    /\ endTime' = SearchEnd(budget, decided', hitAfter')
    /\ UNCHANGED <<input, budget>>

BudgetSpec == BudgetInit /\ [][Decide]_budgetVars

----------------------------------------------------------------------------
(* Properties.                                                             *)

Planned == input.rtime = 0 /\ input.movetime = 0 /\ ~budget.mtgError
Spent == endTime - hitAfter

(* "Never exceed remain_time" (timeman.rs): however the plan was made, final *)
(* push and last move before the draw horizon included, no budget exceeds    *)
(* what is left on the clock. (mtg_error's fixed half second may.)          *)
BudgetWithinClock ==
    Planned => /\ budget.minimum <= budget.remain
               /\ budget.optimum <= budget.remain
               /\ budget.maximum <= budget.remain

(* The end time leaves the worst-case network margin: counted from the moment *)
(* our clock began to run, with NetworkDelay2 added, it stays within the main *)
(* clock and the byoyomi, unless these are spent already.                   *)
EndLeavesMargin ==
    Planned /\ decided # -1
    /\ input.time + input.byoyomi - input.delay2 >= AtLeast(Second \div 10, 1)
        => Spent + input.delay2 <= input.time + input.byoyomi

(* Under RoundUpToFullSecond no part of a second is left unused: what is      *)
(* spent, network delay added, is a whole number of seconds, or the minimum   *)
(* thinking time, or all there is.                                          *)
WholeSeconds ==
    budget.fullSecond /\ decided # -1 =>
        \/ (Spent + budget.delay) % Second = 0 \/ Spent = budget.remain
        \/ (Spent + budget.delay - budget.minThink) % Second = 0

(* Deciding to stop never means having to have stopped already: with a delay  *)
(* of at most a second, a rounded end time lies ahead unless the clock is     *)
(* exhausted.                                                               *)
EndNotPassed ==
    budget.fullSecond /\ budget.delay <= Second /\ decided # -1
        => endTime >= decided \/ Spent = budget.remain

(* Budget and end time stay within the clock, and rounding them to seconds    *)
(* neither wastes time nor asks for time gone by.                           *)
BudgetRight == BudgetWithinClock /\ EndLeavesMargin /\ WholeSeconds /\ EndNotPassed

=============================================================================
