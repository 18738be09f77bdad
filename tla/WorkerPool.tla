----------------------------- MODULE WorkerPool -----------------------------
(***************************************************************************)
(* What the driver's worker pool promises, without threads: searches run   *)
(* one at a time, each one hands back the results of all the workers it    *)
(* started, and the transposition table is reshaped, and the pool rebuilt, *)
(* only while no search exists.  HelperPool implements it with slots,      *)
(* condition variables and reference counts.                               *)
(***************************************************************************)
EXTENDS Naturals

CONSTANTS MaxHelpers,   \* upper bound on helper threads (Threads - 1)
          MaxGo         \* bound on the number of searches started

VARIABLES
    search,   \* "none", "starting", "searching" or "finished" (not yet joined)
    go,       \* number of searches started so far
    workers,  \* helpers in the pool
    rebuilding, \* the pool is being torn down and built anew
    reported, \* helpers whose result the latest search has collected
    table     \* parity of the number of exclusive accesses to the table

vars == <<search, go, workers, rebuilding, reported, table>>

Init ==
    /\ search = "none"
    /\ go = 0
    /\ workers \in 0..MaxHelpers
    /\ rebuilding = FALSE
    /\ reported = {}
    /\ table = 0

\* A search starts on a quiet, complete pool.
Begin ==
    /\ search = "none" /\ ~rebuilding
    /\ go < MaxGo
    /\ search' = "starting"
    /\ go' = go + 1
    /\ reported' = {}
    /\ UNCHANGED <<workers, rebuilding, table>>

\* Answered without searching: no helper is started.
Skip ==
    /\ search = "starting"
    /\ search' = "finished"
    /\ UNCHANGED <<go, workers, rebuilding, reported, table>>

Dispatch ==
    /\ search = "starting"
    /\ search' = "searching"
    /\ UNCHANGED <<go, workers, rebuilding, reported, table>>

\* One more helper's result comes in.
Report ==
    /\ search = "searching"
    /\ \E h \in (1..workers) \ reported : reported' = reported \cup {h}
    /\ UNCHANGED <<search, go, workers, rebuilding, table>>

\* A search ends with the result of every helper.
Finish ==
    /\ search = "searching"
    /\ reported = 1..workers
    /\ search' = "finished"
    /\ UNCHANGED <<go, workers, rebuilding, reported, table>>

Join ==
    /\ search = "finished"
    /\ search' = "none"
    /\ UNCHANGED <<go, workers, rebuilding, reported, table>>

\* The sole owner of the table resizes or clears it.
Reshape ==
    /\ search = "none" /\ ~rebuilding
    /\ table' = 1 - table
    /\ UNCHANGED <<search, go, workers, rebuilding, reported>>

TearDown ==
    /\ search = "none" /\ ~rebuilding
    /\ rebuilding' = TRUE
    /\ UNCHANGED <<search, go, workers, reported, table>>

\* Helpers leave, and new ones are spawned.
Resize ==
    /\ search = "none" /\ rebuilding
    /\ workers' \in 0..MaxHelpers
    /\ rebuilding' \in BOOLEAN
    /\ UNCHANGED <<search, go, reported, table>>

Next ==
    \/ Begin \/ Skip \/ Dispatch \/ Report \/ Finish \/ Join
    \/ Reshape \/ TearDown \/ Resize

Spec == Init /\ [][Next]_vars
=============================================================================
