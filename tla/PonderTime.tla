----------------------------- MODULE PonderTime -----------------------------
(***************************************************************************)
(* The clock of one pondering or time-managed search: the main worker of   *)
(* attic-search/src/qsearch.rs (check_time, and the budget block that ends *)
(* every iteration of run_worker) against the driver thread, whose stop    *)
(* and ponderhit arrive at any moment through the shared stop flag and the *)
(* PonderSignal.  The budget itself is TimeManagement's.                   *)
(*                                                                         *)
(* check_time is one step: the flags it loads only ever change one way, so *)
(* each of its loads agrees with the first.  The budget block is not: it   *)
(* looks at the PonderSignal twice, in sync_ponderhit and in is_pondering. *)
(***************************************************************************)
EXTENDS TimeManagement

CONSTANTS MaxTime,    \* the clock stops here: every budget is spent by then
          MaxHit,     \* latest instant of a ponderhit
          MaxDepth,   \* iterations: limit_depth
          Budgets,    \* the budgets a go may come with
          Movetimes   \* the go movetime values tried, 0 for none

ASSUME MaxTimeAssumption ==
    /\ MaxTime \in Nat /\ MaxHit \in Nat /\ MaxDepth \in Nat \ {0}
    /\ \A b \in Budgets : MaxHit + b.remain < MaxTime
ASSUME BudgetsAssumption ==
    Budgets \subseteq [minimum : Nat, optimum : Nat, maximum : Nat, remain : Nat,
                       minThink : Nat, delay : Nat, fullSecond : BOOLEAN,
                       finalPush : BOOLEAN, mtgError : BOOLEAN]
ASSUME MovetimesAssumption == Movetimes \subseteq Nat

VARIABLES
    now,          \* ms since the go
    tm,           \* the TimeControl's budget
    movetime,     \* go movetime: no dynamic time management; 0 if absent
    ponderGo,     \* this is a go ponder
    active,       \* PonderSignal::active
    hitAt,        \* PonderSignal::hit_at, -1 for None
    stop,         \* the shared stop flag
    guiStop,      \* the GUI raised it
    wpc,          \* "search", "sync", "read", "budget" or "done"
    depth,        \* completed_depth
    stopped,      \* self.stopped
    synced,       \* ponderhit_synced
    hitTime,      \* tm.ponderhit_time, 0 = start_time
    searchEnd,    \* tm.search_end, 0 = not decided
    stopOnHit,    \* stop_on_ponderhit
    pondering     \* the budget block's local copy of the flag

signalVars == <<active, hitAt, stop, guiStop>>
goVars == <<tm, movetime, ponderGo>>
workerVars == <<wpc, depth, stopped, synced, hitTime, searchEnd, stopOnHit, pondering>>
clockVars == <<now, goVars, signalVars, workerVars>>

ClockInit ==
    /\ now = 0
    /\ tm \in Budgets /\ movetime \in Movetimes /\ ponderGo \in BOOLEAN
    /\ active = ponderGo /\ hitAt = -1
    /\ stop = FALSE /\ guiStop = FALSE
    /\ wpc = "search" /\ depth = 0 /\ stopped = FALSE
    /\ synced = FALSE /\ hitTime = 0 /\ searchEnd = 0
    /\ stopOnHit = FALSE /\ pondering = FALSE

Tick ==
    /\ now < MaxTime
    /\ now' = now + 1
    /\ UNCHANGED <<goVars, signalVars, workerVars>>

-----------------------------------------------------------------------------
\* The driver thread.

\* PonderSignal::ponderhit stamps the instant, then clears the flag.  The
\* plain ponderhit of a GUI comes once.
Stamp ==
    /\ ponderGo /\ active /\ hitAt = -1 /\ now <= MaxHit
    /\ hitAt' = now
    /\ UNCHANGED <<now, goVars, active, stop, guiStop, workerVars>>

Clear ==
    /\ active /\ hitAt # -1
    /\ active' = FALSE
    /\ UNCHANGED <<now, goVars, hitAt, stop, guiStop, workerVars>>

Stop ==
    /\ stop' = TRUE /\ guiStop' = TRUE
    /\ UNCHANGED <<now, goVars, active, hitAt, workerVars>>

-----------------------------------------------------------------------------
\* check_time, one checkpoint.

timeManaged == movetime = 0

\* sync_ponderhit: the first time the flag is seen clear, take over the stamp.
Sync ==
    /\ synced' = (synced \/ (ponderGo /\ ~active))
    /\ hitTime' = IF ~synced /\ ponderGo /\ ~active THEN hitAt ELSE hitTime

\* Mutant of AbortDue: a checkpoint must hit the end time exactly.
AbortExactly ==
    /\ depth >= 1
    /\ \/ movetime # 0 /\ now >= movetime
       \/ searchEnd # 0 /\ searchEnd = now

\* The stop flag is honoured before anything else.
CheckStopFlag ==
    /\ wpc = "search" /\ stop
    /\ stopped' = TRUE
    /\ wpc' = "done"
    /\ UNCHANGED <<now, goVars, signalVars, depth, synced, hitTime, searchEnd,
                   stopOnHit, pondering>>

Checking == wpc = "search" /\ ~stop /\ ~active

\* movetime is up, or the end time fixed earlier has come.
AbortDue ==
    /\ depth >= 1
    /\ \/ movetime # 0 /\ now >= movetime
       \/ searchEnd # 0 /\ searchEnd <= now

\* Past the maximum, or past a budget that ran out while pondering.
FixDue ==
    /\ depth >= 1 /\ timeManaged /\ searchEnd = 0
    /\ now > tm.maximum \/ stopOnHit

\* request_abort.
CheckAbort ==
    /\ Checking /\ AbortDue
    /\ Sync
    /\ stopped' = TRUE /\ stop' = TRUE
    /\ wpc' = "done"
    /\ UNCHANGED <<now, goVars, active, hitAt, guiStop, depth, searchEnd,
                   stopOnHit, pondering>>

\* Mutant of CheckFix: the end is fixed without looking at the stamp.
CheckFixUnsynced ==
    /\ Checking /\ FixDue
    /\ searchEnd' = SearchEnd(tm, now, hitTime)
    /\ UNCHANGED <<now, goVars, signalVars, wpc, depth, stopped, synced, hitTime,
                   stopOnHit, pondering>>

\* Fix the end time, rounded up, instead of stopping now.
CheckFix ==
    /\ Checking /\ FixDue
    /\ Sync
    /\ searchEnd' = SearchEnd(tm, now, hitTime')
    /\ UNCHANGED <<now, goVars, signalVars, wpc, depth, stopped, stopOnHit, pondering>>

\* Nothing to decide yet; a stamp is taken over all the same.
CheckNothing ==
    /\ Checking /\ ~AbortDue /\ ~FixDue
    /\ Sync
    /\ UNCHANGED <<now, goVars, signalVars, wpc, depth, stopped, searchEnd,
                   stopOnHit, pondering>>

-----------------------------------------------------------------------------
\* run_worker.

\* An aspiration window failed low: the position got worse, think on.
FailLow ==
    /\ wpc = "search" /\ stopOnHit
    /\ stopOnHit' = FALSE
    /\ UNCHANGED <<now, goVars, signalVars, wpc, depth, stopped, synced, hitTime,
                   searchEnd, pondering>>

\* Mutant of Continue: one iteration past limit_depth.
ContinuePastLimit == IF depth' > MaxDepth THEN "done" ELSE "search"

\* The loop condition of the iterative deepening.
Continue == IF depth' >= MaxDepth THEN "done" ELSE "search"

\* An iteration completes; the budget block follows when the time is managed
\* and no end is decided yet.
Iterate ==
    /\ wpc = "search"
    /\ depth' = depth + 1
    /\ wpc' = IF timeManaged /\ searchEnd = 0 /\ ~stopOnHit THEN "sync" ELSE Continue
    /\ UNCHANGED <<now, goVars, signalVars, stopped, synced, hitTime, searchEnd,
                   stopOnHit, pondering>>

\* A mate is proved: the iterative deepening breaks before the budget block.
MateFound ==
    /\ wpc = "search"
    /\ depth' = depth + 1
    /\ wpc' = "done"
    /\ UNCHANGED <<now, goVars, signalVars, stopped, synced, hitTime, searchEnd,
                   stopOnHit, pondering>>

BudgetSync ==
    /\ wpc = "sync"
    /\ Sync
    /\ wpc' = "read"
    /\ UNCHANGED <<now, goVars, signalVars, depth, stopped, searchEnd, stopOnHit,
                   pondering>>

BudgetRead ==
    /\ wpc = "read"
    /\ pondering' = active
    /\ wpc' = "budget"
    /\ UNCHANGED <<now, goVars, signalVars, depth, stopped, synced, hitTime,
                   searchEnd, stopOnHit>>

\* total_time depends on scores and nodes and may be anything up to the
\* maximum that caps it: the budget may be over at any time, and is past it.
BudgetOver ==
    /\ wpc = "budget"
    /\ now > 0
    /\ IF pondering
       THEN stopOnHit' = TRUE /\ UNCHANGED searchEnd
       ELSE searchEnd' = SearchEnd(tm, now, hitTime) /\ UNCHANGED stopOnHit
    /\ UNCHANGED depth
    /\ wpc' = Continue
    /\ UNCHANGED <<now, goVars, signalVars, stopped, synced, hitTime, pondering>>

BudgetLeft ==
    /\ wpc = "budget"
    /\ now <= tm.maximum
    /\ UNCHANGED depth
    /\ wpc' = Continue
    /\ UNCHANGED <<now, goVars, signalVars, stopped, synced, hitTime, searchEnd,
                   stopOnHit, pondering>>

Worker ==
    \/ CheckStopFlag \/ CheckAbort \/ CheckFix \/ CheckNothing
    \/ FailLow \/ Iterate \/ MateFound \/ BudgetSync \/ BudgetRead \/ BudgetOver \/ BudgetLeft

ClockNext == Tick \/ Stamp \/ Clear \/ Stop \/ Worker

ClockSpec == ClockInit /\ [][ClockNext]_clockVars

\* Time passes, the driver finishes what it began, and the worker reaches its
\* checkpoints; iterations need never complete.
FairClockSpec ==
    /\ ClockSpec
    /\ WF_clockVars(Tick) /\ WF_clockVars(Clear)
    /\ WF_clockVars(CheckStopFlag) /\ WF_clockVars(CheckAbort) /\ WF_clockVars(CheckFix)
    /\ WF_clockVars(BudgetSync \/ BudgetRead \/ BudgetOver \/ BudgetLeft)

-----------------------------------------------------------------------------
\* Types of the worker's, the signal's and the driver's variables.
TypeOK ==
    /\ now \in 0..MaxTime
    /\ tm \in Budgets /\ movetime \in Movetimes /\ ponderGo \in BOOLEAN
    /\ active \in BOOLEAN /\ hitAt \in -1..MaxHit
    /\ stop \in BOOLEAN /\ guiStop \in BOOLEAN
    /\ wpc \in {"search", "sync", "read", "budget", "done"}
    /\ depth \in 0..MaxDepth /\ stopped \in BOOLEAN
    /\ synced \in BOOLEAN /\ hitTime \in 0..MaxHit /\ searchEnd \in Int
    /\ stopOnHit \in BOOLEAN /\ pondering \in BOOLEAN

\* When our own clock began to run.
OwnStart == IF hitAt = -1 THEN 0 ELSE hitAt

\* Wherever the decision fell, at a checkpoint or in the budget block, before
\* or after the stamp was taken over, the end time fixed for the search lets it
\* use no more than the remaining time of its own clock.
DeadlineWithinClock == searchEnd # 0 => searchEnd - OwnStart <= tm.remain

\* An end time, once fixed, is never moved: neither a later checkpoint nor the
\* budget block of a later iteration grants more time or takes some back.
EndFixedOnce == [][searchEnd # 0 => searchEnd' = searchEnd]_clockVars

\* An end time fixed while pondering would run on the opponent's clock: only
\* after the ponderhit has cleared the flag is one fixed, although the budget
\* block decides on a copy of the flag it took earlier.
NoEndWhilePondering == [][searchEnd' # searchEnd => ~active]_clockVars

\* At a checkpoint the minimum and the rounding count from the ponderhit.
CheckpointCountsFromHit ==
    [][wpc = "search" /\ searchEnd' # searchEnd /\ ponderGo => hitTime' = hitAt]_clockVars

\* How the end time may change: once, after pondering, and counted from the
\* ponderhit when a checkpoint fixes it.
EndTimeRules == EndFixedOnce /\ NoEndWhilePondering /\ CheckpointCountsFromHit

\* A search told to stop ends, and one that stops pondering, or never pondered,
\* ends by itself once it has an iteration to show: no fail low, no late
\* ponderhit and no rounding keeps it going for ever.
SearchEnds == (stop \/ (~active /\ depth >= 1)) ~> (wpc = "done")
=============================================================================
