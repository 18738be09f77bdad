----------------------------- MODULE HelperPool -----------------------------
(***************************************************************************)
(* The worker pool of attic-protocol/src/driver.rs: the driver thread, the *)
(* coordinator thread it spawns for every go, and the persistent helper    *)
(* threads, which talk through one mutex-and-condvar slot per helper.      *)
(*                                                                         *)
(* A critical section of a slot mutex is one step; the notify_all that     *)
(* follows it outside the lock is a step of its own, and cv.wait is a      *)
(* sleep that a notify, or nothing at all (a spurious wakeup), ends.       *)
(* Every Arc clone of the transposition table is tracked, because          *)
(* Arc::get_mut(&mut self.tt) panics while one is alive.                   *)
(***************************************************************************)
EXTENDS Naturals

CONSTANTS MaxHelpers,   \* upper bound on helper threads (Threads - 1)
          MaxGo         \* bound on the number of searches started

ASSUME MaxHelpersAssumption == MaxHelpers \in Nat
ASSUME MaxGoAssumption == MaxGo \in Nat

Helpers == 1..MaxHelpers

SlotStates == {"Parked", "Assigned", "Running", "Finished", "Exit"}

\* The commands that make the driver wait for a running search.
Commands == {"go", "hash", "threads", "newgame", "quit"}

VARIABLES
    size,     \* pool.slots.len(): helpers of the current pool
    threads,  \* the Threads option, less the main worker
    slot,     \* slot[h]: the SlotState behind helper h's mutex
    job,      \* job[h]: the go whose HelperJob or result helper h last received
    clone,    \* clone[h]: that job still owns its Arc clone of the table
    hpc,      \* hpc[h]: where helper_loop stands
    cpc,      \* where the coordinator stands; "none" = no ActiveSearch
    ck,       \* the slot index its assign / collect loop has reached
    reported, \* the helpers whose results the latest search has collected
    stopped,  \* the searches whose stop flag is set
    go,       \* number of searches started: the latest one's name
    dpc,      \* where the driver stands
    dk,       \* the slot index ThreadPool::shutdown has reached
    cmd,      \* the command the driver is executing
    table     \* parity of the successful get_mut accesses to the table

poolVars == <<size, threads>>
slotVars == <<slot, job, clone, hpc>>
coordVars == <<cpc, ck, reported>>
driverVars == <<dpc, dk, cmd, table>>
handoverVars == <<size, threads, slot, job, clone, hpc, cpc, ck, reported, stopped,
                  go, dpc, dk, cmd, table>>

\* The coordinator's own clone lives from the spawn to the end of its thread.
CoordinatorHoldsTable == cpc \notin {"none", "done"}
TableShared == CoordinatorHoldsTable \/ \E h \in Helpers : clone[h]

PoolInit ==
    /\ size \in 0..MaxHelpers
    /\ threads = size
    /\ slot = [h \in Helpers |-> "Parked"]
    /\ job = [h \in Helpers |-> 0]
    /\ clone = [h \in Helpers |-> FALSE]
    /\ hpc = [h \in Helpers |-> IF h <= size THEN "check" ELSE "gone"]
    /\ cpc = "none"
    /\ ck = 1
    /\ reported = {}
    /\ stopped = {}
    /\ go = 0
    /\ dpc = "idle"
    /\ dk = 1
    /\ cmd = "threads"
    /\ table = 0

-----------------------------------------------------------------------------
\* helper_loop(slot), one thread per helper.

\* Nothing to do yet: cv.wait releases the mutex and sleeps.
HelperWait(h) ==
    /\ hpc[h] = "check"
    /\ slot[h] \notin {"Assigned", "Exit"}
    /\ hpc' = [hpc EXCEPT ![h] = "asleep"]
    /\ UNCHANGED <<poolVars, slot, job, clone, coordVars, stopped, go, driverVars>>

HelperSpuriousWakeup(h) ==
    /\ hpc[h] = "asleep"
    /\ hpc' = [hpc EXCEPT ![h] = "check"]
    /\ UNCHANGED <<poolVars, slot, job, clone, coordVars, stopped, go, driverVars>>

HelperTake(h) ==
    /\ hpc[h] = "check"
    /\ slot[h] = "Assigned"
    /\ slot' = [slot EXCEPT ![h] = "Running"]
    /\ hpc' = [hpc EXCEPT ![h] = "run"]
    /\ UNCHANGED <<poolVars, job, clone, coordVars, stopped, go, driverVars>>

HelperExit(h) ==
    /\ hpc[h] = "check"
    /\ slot[h] = "Exit"
    /\ hpc' = [hpc EXCEPT ![h] = "gone"]
    /\ UNCHANGED <<poolVars, slot, job, clone, coordVars, stopped, go, driverVars>>

\* run_worker returns: at the depth limit, or because the stop flag is set.
HelperSearched(h) ==
    /\ hpc[h] = "run"
    /\ hpc' = [hpc EXCEPT ![h] = "drop"]
    /\ UNCHANGED <<poolVars, slot, job, clone, coordVars, stopped, go, driverVars>>

\* Mutant of HelperDrop: the clones outlive the published result.
HelperKeep(h) ==
    /\ hpc[h] = "drop"
    /\ hpc' = [hpc EXCEPT ![h] = "publish"]
    /\ UNCHANGED <<poolVars, slot, job, clone, coordVars, stopped, go, driverVars>>

\* drop(job.tt) and its three siblings.
HelperDrop(h) ==
    /\ hpc[h] = "drop"
    /\ clone' = [clone EXCEPT ![h] = FALSE]
    /\ hpc' = [hpc EXCEPT ![h] = "publish"]
    /\ UNCHANGED <<poolVars, slot, job, coordVars, stopped, go, driverVars>>

HelperPublish(h) ==
    /\ hpc[h] = "publish"
    /\ slot' = [slot EXCEPT ![h] = "Finished"]
    /\ hpc' = [hpc EXCEPT ![h] = "notify"]
    /\ UNCHANGED <<poolVars, job, clone, coordVars, stopped, go, driverVars>>

\* notify_all on its own condvar reaches a coordinator asleep in collect.
HelperNotify(h) ==
    /\ hpc[h] = "notify"
    /\ hpc' = [hpc EXCEPT ![h] = "check"]
    /\ cpc' = IF cpc = "asleep" /\ ck = h THEN "collect" ELSE cpc
    /\ UNCHANGED <<poolVars, slot, job, clone, ck, reported, stopped, go, driverVars>>

Helper(h) ==
    \/ HelperWait(h) \/ HelperSpuriousWakeup(h) \/ HelperTake(h) \/ HelperExit(h)
    \/ HelperSearched(h) \/ HelperDrop(h) \/ HelperPublish(h) \/ HelperNotify(h)

-----------------------------------------------------------------------------
\* run_coordinated(job), one thread per go.

\* notify_all on slot h's condvar, by the coordinator or the driver.
Wake(h) == hpc' = [hpc EXCEPT ![h] = IF @ = "asleep" THEN "check" ELSE @]

\* No legal move, a declaration win or a book hit: the thread returns before
\* any helper is dispatched (a held book hit waits for its release here).
CoordSkip ==
    /\ cpc = "start"
    /\ cpc' = "done"
    /\ UNCHANGED <<poolVars, slotVars, ck, reported, stopped, go, driverVars>>

CoordDispatch ==
    /\ cpc = "start"
    /\ cpc' = "assign"
    /\ ck' = 1
    /\ UNCHANGED <<poolVars, slotVars, reported, stopped, go, driverVars>>

\* HelperSlot::assign stores unconditionally; the job carries a fresh clone.
CoordAssign ==
    /\ cpc = "assign" /\ ck <= size
    /\ slot' = [slot EXCEPT ![ck] = "Assigned"]
    /\ job' = [job EXCEPT ![ck] = go]
    /\ clone' = [clone EXCEPT ![ck] = TRUE]
    /\ cpc' = "assigned"
    /\ UNCHANGED <<poolVars, hpc, ck, reported, stopped, go, driverVars>>

\* Mutant of CoordAssignNotify: the notify_all is forgotten.
CoordAssignSilently ==
    /\ cpc = "assigned"
    /\ cpc' = "assign"
    /\ ck' = ck + 1
    /\ UNCHANGED <<poolVars, slotVars, reported, stopped, go, driverVars>>

CoordAssignNotify ==
    /\ cpc = "assigned"
    /\ Wake(ck)
    /\ cpc' = "assign"
    /\ ck' = ck + 1
    /\ UNCHANGED <<poolVars, slot, job, clone, reported, stopped, go, driverVars>>

CoordSearch ==
    /\ cpc = "assign" /\ ck > size
    /\ cpc' = "main"
    /\ UNCHANGED <<poolVars, slotVars, ck, reported, stopped, go, driverVars>>

\* The main worker's search and the hold loop are over; stop the helpers.
CoordStop ==
    /\ cpc = "main"
    /\ stopped' = stopped \cup {go}
    /\ cpc' = "collect"
    /\ ck' = 1
    /\ UNCHANGED <<poolVars, slotVars, reported, go, driverVars>>

CoordWait ==
    /\ cpc = "collect" /\ ck <= size
    /\ slot[ck] # "Finished"
    /\ cpc' = "asleep"
    /\ UNCHANGED <<poolVars, slotVars, ck, reported, stopped, go, driverVars>>

CoordSpuriousWakeup ==
    /\ cpc = "asleep"
    /\ cpc' = "collect"
    /\ UNCHANGED <<poolVars, slotVars, ck, reported, stopped, go, driverVars>>

CoordCollect ==
    /\ cpc = "collect" /\ ck <= size
    /\ slot[ck] = "Finished"
    /\ slot' = [slot EXCEPT ![ck] = "Parked"]
    /\ reported' = reported \cup {ck}
    /\ ck' = ck + 1
    /\ UNCHANGED <<poolVars, job, clone, hpc, cpc, stopped, go, driverVars>>

\* Vote, reply, drop the clones and end the thread.
CoordReturn ==
    /\ cpc = "collect" /\ ck > size
    /\ cpc' = "done"
    /\ UNCHANGED <<poolVars, slotVars, ck, reported, stopped, go, driverVars>>

Coordinator ==
    \/ CoordSkip \/ CoordDispatch \/ CoordAssign \/ CoordAssignNotify
    \/ CoordSearch \/ CoordStop \/ CoordWait \/ CoordSpuriousWakeup
    \/ CoordCollect \/ CoordReturn

-----------------------------------------------------------------------------
\* UsiDriver, the main thread.

\* handle_stop / handle_gameover: set the flag, wait for nothing.
DriverStop ==
    /\ dpc = "idle" /\ cpc # "none"
    /\ stopped' = stopped \cup {go}
    /\ UNCHANGED <<poolVars, slotVars, coordVars, go, driverVars>>

\* Every other command here begins with finish_search_join; setoption Threads
\* has already stored its new value by then.
DriverCommand(c) ==
    /\ dpc = "idle"
    /\ c = "go" => go < MaxGo
    /\ cmd' = c
    /\ IF c = "threads" THEN threads' \in 0..MaxHelpers ELSE UNCHANGED threads
    /\ stopped' = IF cpc = "none" THEN stopped ELSE stopped \cup {go}
    /\ dpc' = "join"
    /\ UNCHANGED <<size, slotVars, coordVars, go, dk, table>>

\* Mutant of DriverJoin: a Threads or NumaPolicy change does not wait.
DriverJoinEager ==
    /\ dpc = "join" /\ (cpc \in {"none", "done"} \/ cmd = "threads")
    /\ cpc' = IF cpc = "done" THEN "none" ELSE cpc
    /\ dpc' = CASE cmd \in {"hash", "newgame"} -> "getmut"
                [] cmd = "go"                  -> "spawn"
                [] OTHER                       -> "rebuild"
    /\ UNCHANGED <<poolVars, slotVars, ck, reported, stopped, go, dk, cmd, table>>

DriverJoin ==
    /\ dpc = "join" /\ cpc \in {"none", "done"}
    /\ cpc' = "none"
    /\ dpc' = CASE cmd \in {"hash", "newgame"} -> "getmut"
                [] cmd = "go"                  -> "spawn"
                [] OTHER                       -> "rebuild"
    /\ UNCHANGED <<poolVars, slotVars, ck, reported, stopped, go, dk, cmd, table>>

\* handle_go: clone the Arcs, lend the slots, spawn the coordinator.
DriverSpawn ==
    /\ dpc = "spawn"
    /\ go' = go + 1
    /\ reported' = {}
    /\ cpc' = "start"
    /\ dpc' = "idle"
    /\ UNCHANGED <<poolVars, slotVars, ck, stopped, dk, cmd, table>>

\* resize_tt_to_hash_option, and the clear of handle_usinewgame, which goes on
\* to rebuild the pool.  expect panics when get_mut is refused.
DriverGetMut ==
    /\ dpc = "getmut"
    /\ IF TableShared
       THEN dpc' = "panic" /\ UNCHANGED table
       ELSE /\ table' = 1 - table
            /\ dpc' = IF cmd = "newgame" THEN "rebuild" ELSE "idle"
    /\ UNCHANGED <<poolVars, slotVars, coordVars, stopped, go, dk, cmd>>

\* rebuild_pool, or the ThreadPool being dropped, enters ThreadPool::shutdown.
PoolShutdown ==
    /\ dpc = "rebuild"
    /\ dpc' = "exit"
    /\ dk' = 1
    /\ UNCHANGED <<poolVars, slotVars, coordVars, stopped, go, cmd, table>>

\* Slot by slot: store Exit, then notify.
PoolExit ==
    /\ dpc = "exit" /\ dk <= size
    /\ slot' = [slot EXCEPT ![dk] = "Exit"]
    /\ dpc' = "exitNotify"
    /\ UNCHANGED <<poolVars, job, clone, hpc, coordVars, stopped, go, dk, cmd, table>>

PoolExitNotify ==
    /\ dpc = "exitNotify"
    /\ Wake(dk)
    /\ dpc' = "exit"
    /\ dk' = dk + 1
    /\ UNCHANGED <<poolVars, slot, job, clone, coordVars, stopped, go, cmd, table>>

\* Join every helper and drop the slots; a quit ends here.
PoolJoinHelpers ==
    /\ dpc = "exit" /\ dk > size
    /\ \A h \in 1..size : hpc[h] = "gone"
    /\ size' = 0
    /\ dpc' = IF cmd = "quit" THEN "exited" ELSE "build"
    /\ UNCHANGED <<threads, slotVars, coordVars, stopped, go, dk, cmd, table>>

\* Mutant of PoolBuild: one helper too many.
PoolBuildInclusive ==
    /\ dpc = "build"
    /\ size' = threads + 1
    /\ slot' = [h \in Helpers |-> IF h <= threads + 1 THEN "Parked" ELSE slot[h]]
    /\ hpc' = [h \in Helpers |-> IF h <= threads + 1 THEN "check" ELSE hpc[h]]
    /\ dpc' = "idle"
    /\ UNCHANGED <<threads, job, clone, coordVars, stopped, go, dk, cmd, table>>

\* set_with_binding spawns the requested number of helpers on new slots.
PoolBuild ==
    /\ dpc = "build"
    /\ size' = threads
    /\ slot' = [h \in Helpers |-> IF h <= threads THEN "Parked" ELSE slot[h]]
    /\ hpc' = [h \in Helpers |-> IF h <= threads THEN "check" ELSE hpc[h]]
    /\ dpc' = "idle"
    /\ UNCHANGED <<threads, job, clone, coordVars, stopped, go, dk, cmd, table>>

\* The process is gone.
Exited == dpc = "exited" /\ UNCHANGED handoverVars

DriverWork ==
    \/ DriverJoin \/ DriverSpawn \/ DriverGetMut
    \/ PoolShutdown \/ PoolExit \/ PoolExitNotify \/ PoolJoinHelpers \/ PoolBuild

PoolNext ==
    \/ \E h \in Helpers : Helper(h)
    \/ Coordinator
    \/ DriverStop
    \/ \E c \in Commands : DriverCommand(c)
    \/ DriverWork
    \/ Exited

PoolSpec == PoolInit /\ [][PoolNext]_handoverVars

-----------------------------------------------------------------------------
(***************************************************************************)
(* Fairness.  Every thread runs: a step that is not waiting for a command  *)
(* is eventually taken.  A search is only obliged to end once its stop     *)
(* flag is set, and spurious wakeups are never obliged to happen.          *)
(***************************************************************************)
HelperProgress(h) ==
    \/ HelperWait(h) \/ HelperTake(h) \/ HelperExit(h)
    \/ (job[h] \in stopped /\ HelperSearched(h))
    \/ HelperDrop(h) \/ HelperPublish(h) \/ HelperNotify(h)

CoordProgress ==
    \/ (go \in stopped /\ (CoordSkip \/ CoordDispatch \/ CoordStop))
    \/ CoordAssign \/ CoordAssignNotify \/ CoordSearch
    \/ CoordWait \/ CoordCollect \/ CoordReturn

Fairness ==
    /\ \A h \in Helpers : WF_handoverVars(HelperProgress(h))
    /\ WF_handoverVars(CoordProgress)
    /\ WF_handoverVars(DriverWork)

FairPoolSpec == PoolSpec /\ Fairness
-----------------------------------------------------------------------------
\* Types of every variable (the Rust types of HelperSlot, ThreadPool and
\* ActiveSearch, and the program counters).
PoolTypeOK ==
    /\ size \in 0..MaxHelpers /\ threads \in 0..MaxHelpers
    /\ slot \in [Helpers -> SlotStates]
    /\ job \in [Helpers -> 0..MaxGo]
    /\ clone \in [Helpers -> BOOLEAN]
    /\ hpc \in [Helpers -> {"check", "asleep", "run", "drop", "publish", "notify", "gone"}]
    /\ cpc \in {"none", "start", "assign", "assigned", "main", "collect", "asleep", "done"}
    /\ ck \in 1..MaxHelpers + 1
    /\ reported \in SUBSET Helpers
    /\ stopped \in SUBSET (1..MaxGo)
    /\ go \in 0..MaxGo
    /\ dpc \in {"idle", "join", "spawn", "getmut", "panic", "rebuild", "exit",
                "exitNotify", "build", "exited"}
    /\ dk \in 1..MaxHelpers + 1
    /\ cmd \in Commands
    /\ table \in {0, 1}

\* When a command reaches Arc::get_mut, no clone of the table is alive in a
\* slot, in a helper or in the coordinator: the expect never panics, although
\* the driver has joined only the coordinator and no helper.
SoleOwner == dpc = "getmut" => ~TableShared

\* Everything a go collects is its own: at the moment the coordinator takes a
\* Finished result, the result was produced by a job of this very go, and no
\* clone of the table survives in it.
FreshResult ==
    (cpc = "collect" /\ ck <= size /\ slot[ck] = "Finished")
        => job[ck] = go /\ ~clone[ck]

\* Handing the table and the results over between the three kinds of threads is
\* safe: the driver's get_mut always finds the sole owner, and a collected
\* result always belongs to the go that collects it.
HandoverSafe == SoleOwner /\ FreshResult

\* No wakeup is lost: a thread asleep on a condvar whose condition already
\* holds has a notify_all of that condvar still on its way.
NoLostWakeup ==
    /\ \A h \in 1..size :
         hpc[h] = "asleep" /\ slot[h] \in {"Assigned", "Exit"}
            => \/ cpc = "assigned" /\ ck = h
               \/ dpc = "exitNotify" /\ dk = h
    /\ cpc = "asleep" /\ slot[ck] = "Finished" => hpc[ck] = "notify"

SlotMoves(h) ==
    \/ slot[h] = "Parked" /\ slot'[h] \in {"Assigned", "Exit"}
    \/ slot[h] = "Assigned" /\ slot'[h] = "Running"
    \/ slot[h] = "Running" /\ slot'[h] = "Finished"
    \/ slot[h] = "Finished" /\ slot'[h] = "Parked"

\* The doc of SlotState: a slot only ever moves Parked -> Assigned -> Running
\* -> Finished -> Parked, and to Exit from Parked alone, so that no late
\* Finished overwrites an Exit and no Assigned job is dropped unread.
SlotProtocol == [][\A h \in 1..size : slot'[h] # slot[h] => SlotMoves(h)]_handoverVars

\* The pool is never torn down or resized under a search: the coordinator's
\* cloned slot list stays valid for the whole go.
PoolStableUnderSearch ==
    [][cpc # "none" =>
          /\ size' = size
          /\ \A h \in Helpers : hpc'[h] = "gone" <=> hpc[h] = "gone"]_handoverVars

\* What driver, coordinator and helpers do to the pool in any order keeps each
\* slot in its cycle and the pool in place while a search uses it.
PoolProtocol == SlotProtocol /\ PoolStableUnderSearch

\* A command that waits for the search is carried out: whatever the
\* interleaving, finish_search_join, the get_mut and the teardown of the pool
\* come to an end.
CommandsComplete == (dpc = "join") ~> (dpc \in {"idle", "exited"})

\* A stopped search ends: every helper hands its result back and the
\* coordinator returns, with nothing but spurious wakeups not to be relied on.
StoppedSearchEnds ==
    \A g \in 1..MaxGo : (go = g /\ g \in stopped) ~> (go # g \/ cpc \in {"none", "done"})

\* Every wait on a condvar or a join ends: the commands' and the searches'.
EveryWaitEnds == CommandsComplete /\ StoppedSearchEnds

-----------------------------------------------------------------------------
\* The refinement: an abstract search is dispatched with the first helper of a
\* pool that has one, and its results come in as they are collected.
Pool == INSTANCE WorkerPool WITH
    search <- CASE cpc = "none"  -> "none"
                [] cpc = "start" -> "starting"
                [] cpc = "done"  -> "finished"
                [] OTHER         -> "searching",
    workers <- size,
    rebuilding <- dpc \in {"exit", "exitNotify", "build", "exited"}

\* The threads, slots and reference counts of the code implement WorkerPool.
ImplementsWorkerPool == Pool!Spec
=============================================================================
