------------------------------ MODULE GoProofs ------------------------------
(***************************************************************************)
(* Theorems about the workers of a go and the search at its root.          *)
(*                                                                         *)
(* HelperPool, for every MaxHelpers and MaxGo. The safety properties are   *)
(* not inductive: that no clone of the table is left when the driver       *)
(* reaches get_mut follows from where the coordinator stood when it        *)
(* returned, which in turn fixes what every slot can hold. IInv says so:   *)
(* which helpers the coordinator still waits for (InFlight), and, from     *)
(* that, what each slot, each helper and each clone may be.                *)
(*                                                                         *)
(* RootSearch, for every list of root moves, every MultiPV, depth and set  *)
(* of values.                                                              *)
(***************************************************************************)
EXTENDS HelperPool, RootSearch, FiniteSetTheorems, TLAPS

-----------------------------------------------------------------------------
(* The pool.                                                               *)

\* The helpers holding a job, or a result not yet collected, of the latest go.
InFlight(h) ==
    /\ h <= size
    /\ \/ cpc = "assign" /\ h < ck
       \/ cpc = "assigned" /\ h <= ck
       \/ cpc = "main"
       \/ cpc \in {"collect", "asleep"} /\ h >= ck

\* The clone and the program counter of a helper follow its slot.
HelperInv(h) ==
    /\ h > size => hpc[h] = "gone" /\ ~clone[h]
    /\ h <= size => (slot[h] = "Running" <=> hpc[h] \in {"run", "drop", "publish"})
    /\ clone[h] => slot[h] = "Assigned" \/ hpc[h] \in {"run", "drop"}
    /\ h <= size /\ hpc[h] = "gone" => slot[h] = "Exit"

\* A slot's state follows the coordinator and the driver.
SlotInv(h) ==
    h <= size =>
      /\ InFlight(h) => slot[h] \in {"Assigned", "Running", "Finished"} /\ job[h] = go
      /\ ~InFlight(h) => slot[h] \in {"Parked", "Exit"}
      /\ slot[h] = "Exit" => \/ dpc = "exit" /\ h < dk
                             \/ dpc = "exitNotify" /\ h <= dk

\* Where the coordinator can stand.
CoordInv ==
    /\ cpc \in {"assign", "collect"} => ck <= size + 1
    /\ cpc \in {"assigned", "asleep"} => ck <= size
    /\ cpc # "none" => go >= 1
    /\ cpc \in {"start", "assign", "assigned", "main"} => reported = {}
    /\ cpc \in {"collect", "asleep"} => reported = 1..(ck - 1)
    /\ dpc \notin {"idle", "join"} => cpc = "none"

\* Where the driver can stand.
DriverInv ==
    /\ dpc = "exit" => dk <= size + 1
    /\ dpc = "exitNotify" => dk <= size
    /\ dpc = "build" => size = 0
    /\ dpc = "spawn" \/ (dpc = "join" /\ cmd = "go") => go < MaxGo

IInv ==
    /\ PoolTypeOK
    /\ \A h \in Helpers : HelperInv(h)
    /\ \A h \in Helpers : SlotInv(h)
    /\ CoordInv
    /\ DriverInv
    /\ NoLostWakeup

-----------------------------------------------------------------------------
\* The pool starts with the invariant.
LEMMA InitEstablishesIInv == PoolInit => IInv
<1> SUFFICES ASSUME PoolInit PROVE IInv
  OBVIOUS
<1> USE MaxHelpersAssumption, MaxGoAssumption DEF PoolInit, Helpers
<1>1. PoolTypeOK
  BY DEF PoolTypeOK, SlotStates, Commands
<1>2. ASSUME NEW h \in Helpers PROVE HelperInv(h) /\ SlotInv(h)
  BY DEF HelperInv, SlotInv, InFlight
<1>3. CoordInv /\ DriverInv
  BY DEF CoordInv, DriverInv
<1>4. ASSUME NEW h \in 1..size PROVE hpc[h] # "asleep"
  BY DEF HelperInv
<1>5. NoLostWakeup
  BY <1>4 DEF NoLostWakeup
<1> QED
  BY <1>1, <1>2, <1>3, <1>5 DEF IInv

\* One step per action of helper_loop.
LEMMA HelperKeepsIInv ==
    ASSUME IInv, NEW h \in Helpers, Helper(h)
    PROVE  IInv'
<1> USE MaxHelpersAssumption, MaxGoAssumption
    DEF Helpers, SlotStates, Commands, IInv, PoolTypeOK, HelperInv, SlotInv, CoordInv, DriverInv, NoLostWakeup, InFlight,
        poolVars, slotVars, coordVars, driverVars
<1>1. CASE HelperWait(h)
  BY <1>1 DEF HelperWait
<1>2. CASE HelperSpuriousWakeup(h)
  BY <1>2 DEF HelperSpuriousWakeup
<1>3. CASE HelperTake(h)
  BY <1>3 DEF HelperTake
<1>4. CASE HelperExit(h)
  BY <1>4 DEF HelperExit
<1>5. CASE HelperSearched(h)
  BY <1>5 DEF HelperSearched
<1>6. CASE HelperDrop(h)
  BY <1>6 DEF HelperDrop
<1>7. CASE HelperPublish(h)
  <2>1. hpc[h] = "publish" /\ h <= size /\ slot[h] = "Running" /\ InFlight(h)
    BY <1>7 DEF HelperPublish
  <2>2. ~clone[h]
    BY <2>1
  <2>3. ASSUME NEW i \in Helpers PROVE HelperInv(i)' /\ SlotInv(i)'
    <3>1. CASE i = h
      BY <1>7, <2>1, <2>2, <3>1 DEF HelperPublish
    <3>2. CASE i # h
      BY <1>7, <3>2 DEF HelperPublish
    <3> QED
      BY <3>1, <3>2
  <2>4. PoolTypeOK' /\ CoordInv' /\ DriverInv'
    BY <1>7 DEF HelperPublish
  <2>5. NoLostWakeup'
    BY <1>7 DEF HelperPublish
  <2> QED
    BY <2>3, <2>4, <2>5
<1>8. CASE HelperNotify(h)
  <2>1. ASSUME NEW i \in Helpers PROVE HelperInv(i)'
    BY <1>8 DEF HelperNotify
  <2>2. ASSUME NEW i \in Helpers PROVE SlotInv(i)'
    BY <1>8 DEF HelperNotify
  <2>3. PoolTypeOK' /\ CoordInv' /\ DriverInv'
    BY <1>8 DEF HelperNotify
  <2>4. NoLostWakeup'
    BY <1>8 DEF HelperNotify
  <2> QED
    BY <2>1, <2>2, <2>3, <2>4
<1> QED
  BY <1>1, <1>2, <1>3, <1>4, <1>5, <1>6, <1>7, <1>8 DEF Helper

\* One step per action of run_coordinated.
LEMMA CoordinatorKeepsIInv ==
    ASSUME IInv, Coordinator
    PROVE  IInv'
<1> USE MaxHelpersAssumption, MaxGoAssumption
    DEF Helpers, SlotStates, Commands, IInv, PoolTypeOK, HelperInv, SlotInv, CoordInv, DriverInv, NoLostWakeup, InFlight,
        poolVars, slotVars, coordVars, driverVars, Wake
<1>1. CASE CoordSkip
  BY <1>1 DEF CoordSkip
<1>2. CASE CoordDispatch
  BY <1>2 DEF CoordDispatch
<1>3. CASE CoordAssign
  BY <1>3 DEF CoordAssign
<1>4. CASE CoordAssignNotify
  BY <1>4 DEF CoordAssignNotify
<1>5. CASE CoordSearch
  BY <1>5 DEF CoordSearch
<1>6. CASE CoordStop
  BY <1>6 DEF CoordStop
<1>7. CASE CoordWait
  BY <1>7 DEF CoordWait
<1>8. CASE CoordSpuriousWakeup
  BY <1>8 DEF CoordSpuriousWakeup
<1>9. CASE CoordCollect
  BY <1>9 DEF CoordCollect
<1>10. CASE CoordReturn
  BY <1>10 DEF CoordReturn
<1> QED
  BY <1>1, <1>2, <1>3, <1>4, <1>5, <1>6, <1>7, <1>8, <1>9, <1>10 DEF Coordinator

\* One step per action of the driver and of the pool it owns.
LEMMA DriverKeepsIInv ==
    ASSUME IInv, DriverStop \/ (\E c \in Commands : DriverCommand(c)) \/ DriverWork \/ Exited
    PROVE  IInv'
<1> USE MaxHelpersAssumption, MaxGoAssumption
    DEF Helpers, SlotStates, Commands, IInv, PoolTypeOK, HelperInv, SlotInv, CoordInv, DriverInv, NoLostWakeup, InFlight,
        poolVars, slotVars, coordVars, driverVars, Wake, handoverVars
<1>1. CASE DriverStop
  BY <1>1 DEF DriverStop
<1>2. ASSUME NEW c \in Commands, DriverCommand(c) PROVE IInv'
  BY <1>2 DEF DriverCommand
<1>3. CASE DriverJoin
  BY <1>3 DEF DriverJoin
<1>4. CASE DriverSpawn
  BY <1>4 DEF DriverSpawn
<1>5. CASE DriverGetMut
  BY <1>5 DEF DriverGetMut
<1>6. CASE PoolShutdown
  BY <1>6 DEF PoolShutdown
<1>7. CASE PoolExit
  BY <1>7 DEF PoolExit
<1>8. CASE PoolExitNotify
  BY <1>8 DEF PoolExitNotify
<1>9. CASE PoolJoinHelpers
  BY <1>9 DEF PoolJoinHelpers
<1>10. CASE PoolBuild
  BY <1>10 DEF PoolBuild
<1>11. CASE Exited
  BY <1>11 DEF Exited
<1> QED
  BY <1>1, <1>2, <1>3, <1>4, <1>5, <1>6, <1>7, <1>8, <1>9, <1>10, <1>11 DEF DriverWork

\* Every step of a helper, the coordinator or the driver keeps it.
LEMMA NextKeepsIInv == IInv /\ [PoolNext]_handoverVars => IInv'
<1> SUFFICES ASSUME IInv, [PoolNext]_handoverVars PROVE IInv'
  OBVIOUS
<1>1. CASE UNCHANGED handoverVars
  BY <1>1 DEF handoverVars, IInv, PoolTypeOK, HelperInv, SlotInv, InFlight, CoordInv, DriverInv, NoLostWakeup
<1>2. CASE PoolNext
  BY <1>2, HelperKeepsIInv, CoordinatorKeepsIInv, DriverKeepsIInv DEF PoolNext
<1> QED
  BY <1>1, <1>2

\* The handover keeps its invariant in every behaviour.
THEOREM Inductive == PoolSpec => []IInv
  BY InitEstablishesIInv, NextKeepsIInv, PTL DEF PoolSpec

-----------------------------------------------------------------------------
\* Every variable keeps its type: in particular no slot index runs past the
\* pool (ck, dk) and no search is started beyond the bound.
THEOREM PoolTypeCorrect == PoolSpec => []PoolTypeOK
<1>1. IInv => PoolTypeOK
  BY DEF IInv
<1> QED
  BY <1>1, Inductive, PTL

\* Arc::get_mut in resize_tt_to_hash_option and handle_usinewgame is never
\* refused: joining the coordinator is enough to know that every clone is gone,
\* since it has collected every helper and a helper drops before it publishes.
THEOREM TableHasSoleOwner == PoolSpec => []SoleOwner
<1>1. IInv => SoleOwner
  <2> SUFFICES ASSUME IInv, dpc = "getmut", NEW h \in Helpers, clone[h] PROVE FALSE
    BY DEF IInv, SoleOwner, TableShared, CoordinatorHoldsTable, CoordInv
  <2>1. h <= size /\ ~InFlight(h)
    BY DEF IInv, PoolTypeOK, HelperInv, CoordInv, InFlight, Helpers
  <2>2. slot[h] \in {"Parked", "Exit"}
    BY <2>1 DEF IInv, SlotInv
  <2> QED
    BY <2>1, <2>2 DEF IInv, HelperInv
<1> QED
  BY <1>1, Inductive, PTL

\* A result the coordinator takes belongs to the go it runs.
THEOREM ResultsAreFresh == PoolSpec => []FreshResult
<1>1. IInv => FreshResult
  BY MaxHelpersAssumption
  DEF IInv, PoolTypeOK, Helpers, HelperInv, SlotInv, InFlight, FreshResult
<1> QED
  BY <1>1, Inductive, PTL

\* Both handovers, of the table to the driver and of a result to the
\* coordinator, are safe.
THEOREM HandoverIsSafe == PoolSpec => []HandoverSafe
  BY TableHasSoleOwner, ResultsAreFresh, PTL DEF HandoverSafe

\* No notify_all is missed, by a helper or by the coordinator.
THEOREM NoWakeupIsLost == PoolSpec => []NoLostWakeup
<1>1. IInv => NoLostWakeup
  BY DEF IInv
<1> QED
  BY <1>1, Inductive, PTL

-----------------------------------------------------------------------------
\* Under the invariant a slot is assigned, and told to exit, only when Parked.
LEMMA SlotStep ==
    ASSUME IInv, [PoolNext]_handoverVars, NEW h \in 1..size, slot'[h] # slot[h]
    PROVE  SlotMoves(h)
<1> USE MaxHelpersAssumption DEF IInv, PoolTypeOK, Helpers, SlotMoves, poolVars, slotVars
<1>1. h \in Helpers
  OBVIOUS
<1>2. ASSUME NEW i \in Helpers, Helper(i) PROVE SlotMoves(h)
  <2>1. HelperTake(i) \/ HelperPublish(i)
    BY <1>1, <1>2 DEF Helper, HelperWait, HelperSpuriousWakeup, HelperExit,
       HelperSearched, HelperDrop, HelperNotify
  <2> QED
    BY <1>1, <2>1 DEF HelperTake, HelperPublish, HelperInv
<1>3. CASE Coordinator
  <2>1. CoordAssign \/ CoordCollect
    BY <1>3 DEF Coordinator, CoordSkip, CoordDispatch, CoordAssignNotify, CoordSearch,
       CoordStop, CoordWait, CoordSpuriousWakeup, CoordReturn
  <2>2. CASE CoordAssign
    <3>1. ck = h /\ ~InFlight(h) /\ dpc \in {"idle", "join"}
      BY <1>1, <2>2 DEF CoordAssign, InFlight, CoordInv
    <3>2. slot[h] = "Parked"
      BY <1>1, <3>1 DEF SlotInv
    <3> QED
      BY <1>1, <2>2, <3>1, <3>2 DEF CoordAssign
  <2>3. CASE CoordCollect
    BY <1>1, <2>3 DEF CoordCollect
  <2> QED
    BY <2>1, <2>2, <2>3
<1>4. CASE DriverWork
  <2>1. PoolExit \/ PoolBuild
    BY <1>4 DEF DriverWork, DriverJoin, DriverSpawn, DriverGetMut, PoolShutdown,
       PoolExitNotify, PoolJoinHelpers
  <2>2. CASE PoolExit
    <3>1. dk = h /\ ~InFlight(h) /\ dpc = "exit"
      BY <1>1, <2>2 DEF PoolExit, InFlight, CoordInv
    <3>2. slot[h] = "Parked"
      BY <1>1, <3>1 DEF SlotInv
    <3> QED
      BY <1>1, <2>2, <3>1, <3>2 DEF PoolExit
  <2>3. CASE PoolBuild
    BY <2>3 DEF PoolBuild, DriverInv
  <2> QED
    BY <2>1, <2>2, <2>3
<1> QED
  BY <1>2, <1>3, <1>4 DEF PoolNext, handoverVars, DriverStop, DriverCommand, Exited

\* No slot leaves its cycle: a result is never overwritten by Exit, nor an
\* assigned job by another one.
THEOREM SlotsFollowTheProtocol == PoolSpec => SlotProtocol
<1>1. IInv /\ [PoolNext]_handoverVars => [\A h \in 1..size : slot'[h] # slot[h] => SlotMoves(h)]_handoverVars
  BY SlotStep
<1> QED
  BY <1>1, Inductive, PTL DEF PoolSpec, SlotProtocol

-----------------------------------------------------------------------------
\* Under the invariant a helper leaves, and the pool changes its size, only
\* when there is no coordinator.
LEMMA PoolStep ==
    ASSUME IInv, PoolNext, cpc # "none"
    PROVE  /\ size' = size
           /\ \A h \in Helpers : hpc'[h] = "gone" <=> hpc[h] = "gone"
<1> USE DEF poolVars, slotVars
<1>1. hpc \in [Helpers -> {"check", "asleep", "run", "drop", "publish", "notify", "gone"}]
  BY DEF IInv, PoolTypeOK
<1>2. dpc \in {"idle", "join"}
  BY DEF IInv, CoordInv
<1>3. ASSUME NEW i \in Helpers, Helper(i)
      PROVE  size' = size /\ \A h \in Helpers : hpc'[h] = "gone" <=> hpc[h] = "gone"
  <2>1. ~HelperExit(i)
    BY <1>2 DEF HelperExit, IInv, HelperInv, SlotInv, PoolTypeOK, Helpers
  <2> QED
    BY <1>1, <1>3, <2>1 DEF Helper, HelperWait, HelperSpuriousWakeup, HelperTake,
       HelperSearched, HelperDrop, HelperPublish, HelperNotify
<1>4. CASE Coordinator
  BY <1>1, <1>4 DEF Coordinator, Wake, CoordSkip, CoordDispatch, CoordAssign,
     CoordAssignNotify, CoordSearch, CoordStop, CoordWait, CoordSpuriousWakeup,
     CoordCollect, CoordReturn
<1>5. CASE DriverStop \/ \E c \in Commands : DriverCommand(c)
  BY <1>5 DEF DriverStop, DriverCommand
<1>6. CASE DriverWork
  BY <1>2, <1>6 DEF DriverWork, DriverJoin, DriverSpawn, DriverGetMut, PoolShutdown,
     PoolExit, PoolExitNotify, PoolJoinHelpers, PoolBuild
<1>7. CASE Exited
  BY <1>7 DEF Exited, handoverVars
<1> QED
  BY <1>3, <1>4, <1>5, <1>6, <1>7 DEF PoolNext

\* While a search exists the pool keeps its helpers, whatever else happens.
THEOREM PoolIsStableUnderSearch == PoolSpec => PoolStableUnderSearch
<1>1. IInv /\ [PoolNext]_handoverVars =>
        [cpc # "none" => /\ size' = size
                         /\ \A h \in Helpers : hpc'[h] = "gone" <=> hpc[h] = "gone"]_handoverVars
  BY PoolStep
<1> QED
  BY <1>1, Inductive, PTL DEF PoolSpec, PoolStableUnderSearch

\* Slots keep their cycle and the pool its helpers, in every interleaving.
THEOREM PoolKeepsItsProtocol == PoolSpec => PoolProtocol
  BY SlotsFollowTheProtocol, PoolIsStableUnderSearch DEF PoolProtocol

-----------------------------------------------------------------------------
\* Each step of the threads is a step of WorkerPool, or leaves it alone.
LEMMA StepRefines ==
    ASSUME IInv, [PoolNext]_handoverVars
    PROVE  [Pool!Next]_Pool!vars
<1> USE DEF Pool!vars, poolVars, slotVars, coordVars, driverVars
<1>1. CASE UNCHANGED handoverVars
  BY <1>1 DEF handoverVars
<1>2. ASSUME NEW h \in Helpers, Helper(h) PROVE UNCHANGED Pool!vars
  BY <1>2 DEF Helper, HelperWait, HelperSpuriousWakeup, HelperTake, HelperExit,
     HelperSearched, HelperDrop, HelperPublish, HelperNotify
<1>3. CASE CoordSkip
  BY <1>3 DEF CoordSkip, IInv, CoordInv, Pool!Next, Pool!Skip
<1>4. CASE CoordDispatch
  BY <1>4 DEF CoordDispatch, Pool!Next, Pool!Dispatch
<1>5. CASE CoordAssign \/ CoordAssignNotify \/ CoordSearch \/ CoordStop \/ CoordWait
           \/ CoordSpuriousWakeup
  BY <1>5 DEF CoordAssign, CoordAssignNotify, CoordSearch, CoordStop, CoordWait,
     CoordSpuriousWakeup
<1>6. CASE CoordCollect
  <2>1. ck \in (1..size) \ reported
    BY <1>6 DEF CoordCollect, IInv, PoolTypeOK, CoordInv
  <2> QED
    BY <1>6, <2>1 DEF CoordCollect, Pool!Next, Pool!Report
<1>7. CASE CoordReturn
  <2>1. reported = 1..size
    BY <1>7 DEF CoordReturn, IInv, PoolTypeOK, CoordInv
  <2> QED
    BY <1>7, <2>1 DEF CoordReturn, Pool!Next, Pool!Finish
<1>8. CASE DriverStop \/ \E c \in Commands : DriverCommand(c)
  BY <1>8 DEF DriverStop, DriverCommand
<1>9. CASE DriverJoin
  BY <1>9 DEF DriverJoin, Pool!Next, Pool!Join
<1>10. CASE DriverSpawn
  BY <1>10 DEF DriverSpawn, IInv, CoordInv, DriverInv, Pool!Next, Pool!Begin
<1>11. CASE DriverGetMut
  BY <1>11 DEF DriverGetMut, IInv, CoordInv, Pool!Next, Pool!Reshape
<1>12. CASE PoolShutdown
  BY <1>12 DEF PoolShutdown, IInv, CoordInv, Pool!Next, Pool!TearDown
<1>13. CASE PoolExit \/ PoolExitNotify
  BY <1>13 DEF PoolExit, PoolExitNotify
<1>14. CASE PoolJoinHelpers \/ PoolBuild
  BY <1>14, MaxHelpersAssumption
  DEF PoolJoinHelpers, PoolBuild, IInv, PoolTypeOK, CoordInv, Pool!Next, Pool!Resize
<1>15. CASE Exited
  BY <1>15 DEF Exited, handoverVars
<1> QED
  BY <1>1, <1>2, <1>3, <1>4, <1>5, <1>6, <1>7, <1>8, <1>9, <1>10, <1>11, <1>12,
     <1>13, <1>14, <1>15 DEF PoolNext, Coordinator, DriverWork

\* The slots, condition variables and reference counts of the code implement
\* the pool that runs one search at a time and collects every helper's result.
THEOREM Refinement == PoolSpec => ImplementsWorkerPool
<1>1. PoolInit => Pool!Init
  BY DEF PoolInit, Pool!Init
<1>2. IInv /\ [PoolNext]_handoverVars => [Pool!Next]_Pool!vars
  BY StepRefines
<1> QED
  BY <1>1, <1>2, Inductive, PTL DEF PoolSpec, ImplementsWorkerPool, Pool!Spec

-----------------------------------------------------------------------------
(* The root.                                                               *)

RootMove ==
    [mv : Move, score : -INFINITE .. INFINITE - 1, previous : -INFINITE .. INFINITE - 1,
     averaged : BOOLEAN, bound : {"exact", "lower", "upper"}, at : Nat]

-----------------------------------------------------------------------------
\* The values, centres and widths are numbers within infinity.
LEMMA Numbers ==
    /\ INFINITE \in Nat \ {0}
    /\ \A v \in Value : v \in Int /\ -INFINITE < v /\ v < INFINITE
    /\ \A c \in Centre : c \in Int /\ -INFINITE < c /\ c < INFINITE
    /\ \A d \in Width : d \in Nat \ {0}
BY RootAssumption

\* The sort.

\* SortsBefore is a strict total order on positions.
LEMMA SortOrder ==
    ASSUME NEW rms, NEW lo \in Nat, NEW hi \in Nat,
           \A i \in lo .. hi : rms[i].score \in Int /\ rms[i].previous \in Int
    PROVE  /\ \A i \in lo .. hi : ~SortsBefore(rms, i, i)
           /\ \A i, j \in lo .. hi : i # j => SortsBefore(rms, i, j) \/ SortsBefore(rms, j, i)
           /\ \A i, j, k \in lo .. hi : SortsBefore(rms, i, j) /\ SortsBefore(rms, j, k)
                                     => SortsBefore(rms, i, k)
BY DEF SortsBefore, Precedes

\* A position is sorted to one of the range, behind every position that sorts before it.
LEMMA PlaceInRange ==
    ASSUME NEW rms, NEW lo \in Nat, NEW hi \in Nat,
           \A i \in lo .. hi : rms[i].score \in Int /\ rms[i].previous \in Int,
           NEW i \in lo .. hi
    PROVE  /\ Place(rms, lo, hi, i) \in lo .. hi
           /\ \A k \in lo .. hi : SortsBefore(rms, k, i)
                                      => Place(rms, lo, hi, k) < Place(rms, lo, hi, i)
<1> DEFINE J == lo .. hi
           A(k) == Ahead(rms, lo, hi, k)
<1>1. IsFiniteSet(J) /\ Cardinality(J) = hi - lo + 1
  BY FS_Interval
<1>2. \A k \in J : A(k) \in SUBSET J /\ k \notin A(k)
  BY SortOrder DEF Ahead
<1>3. \A k \in J : IsFiniteSet(A(k)) /\ Cardinality(A(k)) \in Nat
  BY <1>1, <1>2, FS_Subset, FS_CardinalityType
<1>4. Cardinality(A(i)) <= hi - lo
  <2>1. /\ IsFiniteSet(J \ {i}) /\ Cardinality(J \ {i}) = hi - lo
    <3>1. /\ IsFiniteSet(J \ {i})
          /\ Cardinality(J \ {i}) = Cardinality(J) - 1
      BY <1>1, FS_RemoveElement
    <3> QED BY <1>1, <3>1
  <2>2. A(i) \in SUBSET (J \ {i})
    BY <1>2
  <2> QED BY <2>1, <2>2, FS_Subset
<1>5. ASSUME NEW k \in J, SortsBefore(rms, k, i)
      PROVE  Cardinality(A(k)) < Cardinality(A(i))
  <2>1. A(k) \union {k} \in SUBSET A(i)
    BY <1>5, SortOrder DEF Ahead
  <2>2. Cardinality(A(k) \union {k}) = Cardinality(A(k)) + 1
    BY <1>2, <1>3, FS_AddElement
  <2>3. Cardinality(A(k) \union {k}) <= Cardinality(A(i))
    BY <2>1, <1>3, FS_Subset
  <2> QED BY <1>3, <2>2, <2>3
<1> QED BY <1>3, <1>4, <1>5 DEF Place

\* No two positions share a place.
LEMMA PlaceInjective ==
    ASSUME NEW rms, NEW lo \in Nat, NEW hi \in Nat,
           \A i \in lo .. hi : rms[i].score \in Int /\ rms[i].previous \in Int
    PROVE  \A i, j \in lo .. hi :
               Place(rms, lo, hi, i) = Place(rms, lo, hi, j) => i = j
<1> SUFFICES ASSUME NEW i \in lo .. hi, NEW j \in lo .. hi,
                    Place(rms, lo, hi, i) = Place(rms, lo, hi, j), i # j
             PROVE  FALSE
  OBVIOUS
<1>1. SortsBefore(rms, i, j) \/ SortsBefore(rms, j, i)
  BY SortOrder
<1>2. \/ Place(rms, lo, hi, i) < Place(rms, lo, hi, j)
      \/ Place(rms, lo, hi, j) < Place(rms, lo, hi, i)
  BY <1>1, PlaceInRange
<1>3. Place(rms, lo, hi, i) \in lo .. hi
  BY PlaceInRange
<1> QED BY <1>2, <1>3

\* Every place of the range is some position's.
LEMMA PlaceOnto ==
    ASSUME NEW rms, NEW lo \in Nat, NEW hi \in Nat,
           \A i \in lo .. hi : rms[i].score \in Int /\ rms[i].previous \in Int
    PROVE  \A n \in lo .. hi : \E i \in lo .. hi : Place(rms, lo, hi, i) = n
<1> DEFINE J == lo .. hi
           f == [i \in J |-> Place(rms, lo, hi, i)]
<1>1. IsFiniteSet(J)
  BY FS_Interval
<1>2. f \in [J -> J]
  BY PlaceInRange
<1>3. f \in Injection(J, J)
  BY <1>2, PlaceInjective DEF Injection, IsInjective
<1>4. f \in Surjection(J, J)
  BY <1>1, <1>3, FS_Injection
<1> QED BY <1>4 DEF Surjection

\* s is rms with positions lo .. hi permuted, the others as they were, and no move
\* behind one it precedes.
SortOf(s, rms, lo, hi) ==
    /\ s \in Seq(RootMove) /\ Len(s) = Len(rms)
    /\ \A n \in lo .. hi : \E i \in lo .. hi : s[n] = rms[i]
    /\ \A i \in lo .. hi : \E n \in lo .. hi : s[n] = rms[i]
    /\ \A n \in 1 .. Len(rms) : n \notin lo .. hi => s[n] = rms[n]
    /\ \A m, n \in lo .. hi : m < n => ~Precedes(s[n], s[m])
    /\ \A i, j \in 1 .. Len(rms) : i # j =>
           \E k, l \in 1 .. Len(rms) : k # l /\ s[i] = rms[k] /\ s[j] = rms[l]

\* Sorting a range of lines rearranges it and leaves the rest.
LEMMA SortedPermutes ==
    ASSUME NEW rms \in Seq(RootMove), NEW lo \in Nat \ {0}, NEW hi \in Nat,
           hi <= Len(rms)
    PROVE  SortOf(Sorted(rms, lo, hi), rms, lo, hi)
<1> DEFINE s == Sorted(rms, lo, hi)
           P(i) == Place(rms, lo, hi, i)
           p == [n \in 1 .. Len(rms) |->
                    IF n \in lo .. hi THEN CHOOSE i \in lo .. hi : P(i) = n ELSE n]
<1>0. Len(rms) \in Nat /\ \A i \in lo .. hi : i \in 1 .. Len(rms)
  OBVIOUS
<1>1. \A i \in 1 .. Len(rms) : rms[i] \in RootMove
  OBVIOUS
<1>2. \A i \in lo .. hi : rms[i].score \in Int /\ rms[i].previous \in Int
  <2> SUFFICES ASSUME NEW i \in lo .. hi
               PROVE  rms[i].score \in Int /\ rms[i].previous \in Int
    OBVIOUS
  <2>1. rms[i] \in RootMove
    BY <1>0, <1>1
  <2> HIDE DEF s, P, p
  <2> QED BY <2>1, Numbers DEF RootMove
<1>3. \A n \in lo .. hi : p[n] \in lo .. hi /\ P(p[n]) = n
  <2> SUFFICES ASSUME NEW n \in lo .. hi
               PROVE  p[n] \in lo .. hi /\ P(p[n]) = n
    OBVIOUS
  <2>1. p[n] = CHOOSE i \in lo .. hi : P(i) = n
    BY <1>0
  <2>2. \E i \in lo .. hi : P(i) = n
    BY <1>2, PlaceOnto
  <2> QED BY <2>1, <2>2
<1>4. \A n \in 1 .. Len(rms) : n \notin lo .. hi => p[n] = n
  OBVIOUS
<1>5. \A n \in 1 .. Len(rms) : p[n] \in 1 .. Len(rms) /\ s[n] = rms[p[n]]
  <2> SUFFICES ASSUME NEW n \in 1 .. Len(rms)
               PROVE  p[n] \in 1 .. Len(rms) /\ s[n] = rms[p[n]]
    OBVIOUS
  <2>1. p[n] \in 1 .. Len(rms)
    BY <1>0, <1>3, <1>4
  <2> QED BY <2>1 DEF Sorted
<1>6. s \in Seq(RootMove) /\ Len(s) = Len(rms)
  <2>1. /\ DOMAIN s = 1 .. Len(rms)
        /\ s = [n \in 1 .. Len(rms) |-> s[n]]
    BY DEF Sorted
  <2> HIDE DEF s, p
  <2>2. \A n \in 1 .. Len(rms) : s[n] \in RootMove
    BY <1>1, <1>5
  <2> QED BY <1>0, <2>1, <2>2
<1>7. \A i \in lo .. hi : P(i) \in lo .. hi /\ p[P(i)] = i
  <2> SUFFICES ASSUME NEW i \in lo .. hi
               PROVE  P(i) \in lo .. hi /\ p[P(i)] = i
    OBVIOUS
  <2>1. P(i) \in lo .. hi
    BY <1>2, PlaceInRange
  <2>2. p[P(i)] \in lo .. hi /\ P(p[P(i)]) = P(i)
    BY <1>3, <2>1
  <2> HIDE DEF p
  <2>3. p[P(i)] = i
    BY <1>2, <2>2, PlaceInjective
  <2> QED BY <2>1, <2>3
<1> HIDE DEF s, p, P
<1>8. \A m, n \in lo .. hi : m < n => ~Precedes(s[n], s[m])
  <2> SUFFICES ASSUME NEW m \in lo .. hi, NEW n \in lo .. hi, m < n,
                      Precedes(s[n], s[m])
               PROVE  FALSE
    OBVIOUS
  <2>1. SortsBefore(rms, p[n], p[m])
    BY <1>5 DEF SortsBefore
  <2>2. P(p[n]) < P(p[m])
    BY <1>2, <1>3, <2>1, PlaceInRange DEF P
  <2> QED BY <1>3, <2>2
<1>9. \A i, j \in 1 .. Len(rms) : p[i] = p[j] => i = j
  BY <1>3, <1>4
<1>10. \A n \in lo .. hi : \E i \in lo .. hi : s[n] = rms[i]
  BY <1>3, <1>5
<1>11. \A i \in lo .. hi : \E n \in lo .. hi : s[n] = rms[i]
  BY <1>5, <1>7
<1>12. \A n \in 1 .. Len(rms) : n \notin lo .. hi => s[n] = rms[n]
  BY <1>4, <1>5
<1>13. \A i, j \in 1 .. Len(rms) : i # j =>
           \E k, l \in 1 .. Len(rms) : k # l /\ s[i] = rms[k] /\ s[j] = rms[l]
  BY <1>5, <1>9
<1> QED BY <1>6, <1>8, <1>10, <1>11, <1>12, <1>13 DEF SortOf, s

-----------------------------------------------------------------------------
\* The window.

WindowInv ==
    pc \in {"search", "returned"} =>
        /\ alpha \in Int /\ beta \in Int
        /\ -INFINITE <= alpha /\ alpha < beta /\ beta <= INFINITE
        /\ delta \in Nat \ {0}
        /\ bestValue \in -INFINITE .. INFINITE - 1
        /\ pc = "returned" => -INFINITE < bestValue

\* Every step keeps the window open, and its value in range once returned.
LEMMA WindowStep ==
    ASSUME WindowInv, [Next]_vars
    PROVE  WindowInv'
<1> USE Numbers
<1>1. ASSUME OpenWindow PROVE WindowInv'
  <2>1. PICK w \in Windows : /\ delta' = w[2]
                             /\ alpha' = Greatest(w[1] - w[2], -INFINITE)
                             /\ beta' = Least(w[1] + w[2], INFINITE)
    BY <1>1 DEF OpenWindow
  <2>2. /\ w[1] \in Int /\ -INFINITE <= w[1] /\ w[1] < INFINITE
        /\ w[2] \in Nat \ {0}
    BY DEF Windows
  <2>3. bestValue' = -INFINITE /\ pc' = "search"
    BY <1>1 DEF OpenWindow, BeginSearch
  <2> QED BY <2>1, <2>2, <2>3 DEF WindowInv, Greatest, Least
<1>2. ASSUME NEW i \in Active, NEW v \in Value, SearchMove(i, v) PROVE WindowInv'
  <2>1. /\ pc = "search" /\ UNCHANGED window
        /\ bestValue' = Greatest(bestValue, v)
    BY <1>2 DEF SearchMove
  <2> QED BY <2>1 DEF WindowInv, window, Greatest
<1>3. ASSUME NEW v \in Value, ProbCut(v) PROVE WindowInv'
  BY <1>3 DEF ProbCut, WindowInv, window
<1>4. ASSUME FailLow PROVE WindowInv'
  <2>1. /\ pc = "returned" /\ bestValue <= alpha
        /\ beta' = alpha /\ alpha' = Greatest(bestValue - delta, -INFINITE)
        /\ delta' = Widened /\ bestValue' = -INFINITE
    BY <1>4 DEF FailLow, BeginSearch
  <2>2. /\ alpha \in Int /\ -INFINITE < alpha /\ alpha <= INFINITE
        /\ bestValue \in Int /\ delta \in Nat \ {0}
    BY <2>1 DEF WindowInv
  <2>3. alpha' \in Int /\ -INFINITE <= alpha' /\ alpha' < alpha
    BY <2>1, <2>2 DEF Greatest
  <2>4. Widened \in Nat \ {0}
    BY <2>2 DEF Widened, Least
  <2>5. /\ beta' \in Int /\ alpha' < beta' /\ beta' <= INFINITE
        /\ delta' \in Nat \ {0} /\ bestValue' \in -INFINITE .. INFINITE - 1
    BY <2>1, <2>2, <2>3, <2>4
  <2>6. pc' = "search"
    BY <1>4 DEF FailLow, BeginSearch
  <2> QED BY <2>3, <2>5, <2>6 DEF WindowInv
<1>5. ASSUME FailHigh PROVE WindowInv'
  <2>1. /\ pc = "returned" /\ bestValue >= beta
        /\ alpha' = Greatest(beta - delta, alpha)
        /\ delta' = Widened /\ bestValue' = -INFINITE /\ pc' = "search"
    BY <1>5 DEF FailHigh, BeginSearch
  <2>2. PICK v \in beta .. bestValue : beta' = Least(v + delta, INFINITE)
    BY <1>5 DEF FailHigh
  <2> QED BY <2>1, <2>2 DEF WindowInv, Greatest, Least, Widened
<1>6. ASSUME \/ Iterate \/ DepthReached \/ Inside \/ NextLine \/ LastLine
             \/ AbortedLine \/ CompleteIteration \/ Result \/ Abort
      PROVE  WindowInv'
  BY <1>6 DEF Iterate, DepthReached, Inside, NextLine, LastLine, AbortedLine,
              CompleteIteration, Result, Abort, WindowInv
<1>7. ASSUME UNCHANGED vars PROVE WindowInv'
  BY <1>7 DEF vars, window, searching, WindowInv
<1> QED BY <1>1, <1>2, <1>3, <1>4, <1>5, <1>6, <1>7 DEF Next, Step

\* So it is in every behaviour.
LEMMA WindowAlways == Spec => []WindowInv
<1>1. Init => WindowInv
  BY DEF Init, WindowInv
<1> QED BY <1>1, WindowStep, PTL DEF Spec

\* Whatever the searches return, the window of every search is open and within the
\* infinite one: the debug_assert at the top of search.
THEOREM WindowOpenAlways == Spec => []WindowOpen
<1>1. WindowInv => WindowOpen
  BY DEF WindowInv, WindowOpen
<1> QED BY <1>1, WindowAlways, PTL

-----------------------------------------------------------------------------
\* The list.

Positions == 1 .. Len(RootMoves)

\* The generated moves, each once, scored no later than iteration d.
Listed(rms, d) ==
    /\ rms \in Seq(RootMove) /\ Len(rms) = Len(RootMoves)
    /\ \A i \in Positions : rms[i].at <= d
    /\ \A i \in Positions : \E k \in Positions : rms[k].mv = RootMoves[i]
    /\ \A i, j \in Positions : rms[i].mv = rms[j].mv => i = j

\* The first n moves are scored, exactly, by iteration d; they are in order.
Exact(rms, n, d) ==
    \A i \in 1 .. n : rms[i].score > -INFINITE /\ rms[i].bound = "exact" /\ rms[i].at = d
Descending(rms, n) ==
    \A i, j \in 1 .. n : i < j => rms[i].score >= rms[j].score

\* There is a root move.
LEMMA SomePosition == Len(RootMoves) \in Nat \ {0}
<1>1. RootMoves \in Seq(Move) /\ RootMoves # << >>
  BY RootAssumption
<1> QED BY <1>1

\* Each line of a list is a root move with what the list says of it.
LEMMA ListedTyped ==
    ASSUME NEW rms, NEW d, Listed(rms, d), NEW i \in Positions
    PROVE  /\ rms[i] \in RootMove
           /\ rms[i].mv \in Move /\ rms[i].at \in Nat /\ rms[i].averaged \in BOOLEAN
           /\ rms[i].score \in Int /\ -INFINITE <= rms[i].score
           /\ rms[i].score < INFINITE
<1>1. rms[i] \in RootMove
  BY DEF Listed, Positions
<1> QED BY <1>1, Numbers DEF RootMove

\* Sorting keeps the list a list.
LEMMA SortedListed ==
    ASSUME NEW rms, NEW d, Listed(rms, d), NEW lo \in Positions, NEW hi \in Positions
    PROVE  Listed(Sorted(rms, lo, hi), d)
<1> DEFINE s == Sorted(rms, lo, hi)
<1>0. /\ rms \in Seq(RootMove) /\ Len(rms) = Len(RootMoves)
      /\ lo \in Nat \ {0} /\ hi \in Nat /\ hi <= Len(rms)
      /\ lo .. hi \subseteq Positions
  <2>1. rms \in Seq(RootMove) /\ Len(rms) = Len(RootMoves)
    BY DEF Listed
  <2>2. /\ lo \in Nat \ {0} /\ hi \in Nat /\ hi <= Len(RootMoves)
        /\ \A i \in lo .. hi : i \in Positions
    BY SomePosition DEF Positions
  <2> QED BY <2>1, <2>2
<1>1. SortOf(s, rms, lo, hi)
  BY <1>0, SortedPermutes
<1> HIDE DEF s
<1>2. \A n \in Positions : \E i \in Positions : s[n] = rms[i]
  BY <1>0, <1>1 DEF Positions, SortOf
<1>3. \A i \in Positions : \E n \in Positions : s[n] = rms[i]
  BY <1>0, <1>1 DEF Positions, SortOf
<1>7. \A i, j \in Positions : i # j =>
          \E k, l \in Positions : k # l /\ s[i] = rms[k] /\ s[j] = rms[l]
  BY <1>0, <1>1 DEF Positions, SortOf
<1>4. \A i \in Positions : s[i].at <= d
  BY <1>2 DEF Listed
<1>5. \A i \in Positions : \E k \in Positions : s[k].mv = RootMoves[i]
  <2> SUFFICES ASSUME NEW i \in Positions
               PROVE  \E k \in Positions : s[k].mv = RootMoves[i]
    OBVIOUS
  <2>1. PICK k \in Positions : rms[k].mv = RootMoves[i]
    BY DEF Listed
  <2>2. PICK n \in Positions : s[n] = rms[k]
    BY <1>3
  <2> QED BY <2>1, <2>2
<1>6. \A i, j \in Positions : s[i].mv = s[j].mv => i = j
  <2> SUFFICES ASSUME NEW i \in Positions, NEW j \in Positions, i # j
               PROVE  s[i].mv # s[j].mv
    OBVIOUS
  <2>1. PICK k \in Positions, l \in Positions : k # l /\ s[i] = rms[k] /\ s[j] = rms[l]
    BY <1>7
  <2> QED BY <2>1 DEF Listed
<1>8. s \in Seq(RootMove) /\ Len(s) = Len(RootMoves)
  BY <1>0, <1>1 DEF SortOf
<1> QED BY <1>4, <1>5, <1>6, <1>8 DEF Listed, s

\* Sorting the tail leaves the finished lines alone.
LEMMA TailSorted ==
    ASSUME NEW rms, NEW d, Listed(rms, d), NEW p \in Positions
    PROVE  LET s == Sorted(rms, p, Len(rms))
           IN  /\ Listed(s, d)
               /\ \A i \in 1 .. p - 1 : s[i] = rms[i]
<1>1. Len(rms) = Len(RootMoves) /\ Len(rms) \in Positions
  BY SomePosition DEF Listed, Positions
<1>2. Listed(Sorted(rms, p, Len(rms)), d)
  BY <1>1, SortedListed
<1>3. \A i \in 1 .. p - 1 : Sorted(rms, p, Len(rms))[i] = rms[i]
  BY <1>1 DEF Sorted, Positions
<1> QED BY <1>2, <1>3

\* Sorting the head puts exact lines in order.
LEMMA HeadSorted ==
    ASSUME NEW rms, NEW d, Listed(rms, d), NEW p \in Positions, Exact(rms, p, d)
    PROVE  LET s == Sorted(rms, 1, p)
           IN  Listed(s, d) /\ Exact(s, p, d) /\ Descending(s, p)
<1> DEFINE s == Sorted(rms, 1, p)
<1>0. /\ rms \in Seq(RootMove) /\ Len(rms) = Len(RootMoves)
      /\ p \in Nat /\ p <= Len(rms) /\ 1 \in Positions /\ 1 .. p \subseteq Positions
  BY SomePosition DEF Listed, Positions
<1>1. Listed(s, d)
  BY <1>0, SortedListed
<1>2. SortOf(s, rms, 1, p)
  BY <1>0, SortedPermutes
<1> HIDE DEF s
<1>3. Exact(s, p, d)
  <2>1. \A n \in 1 .. p : \E i \in 1 .. p : s[n] = rms[i]
    BY <1>2 DEF SortOf
  <2> QED BY <2>1 DEF Exact
<1>4. \A i \in 1 .. p : s[i].score \in Int
  BY <1>0, <1>1, ListedTyped
<1>5. Descending(s, p)
  <2>1. \A m, n \in 1 .. p : m < n => ~Precedes(s[n], s[m])
    BY <1>2 DEF SortOf
  <2> QED BY <1>4, <2>1 DEF Descending, Precedes
<1> QED BY <1>1, <1>3, <1>5 DEF s

-----------------------------------------------------------------------------
\* The invariant.

\* The finished lines: all before the current one, then it too, then all of them.
ListInv ==
    /\ rootDepth \in Nat /\ multiPv \in Positions /\ pvIdx \in 1 .. multiPv
    /\ Listed(rootMoves, rootDepth)
    /\ pc \in {"window", "search", "returned", "inside", "complete"} => rootDepth > 0
    /\ pc \in {"window", "search", "returned", "inside"} =>
         Exact(rootMoves, pvIdx - 1, rootDepth) /\ Descending(rootMoves, pvIdx - 1)
    /\ pc = "complete" =>
         Exact(rootMoves, multiPv, rootDepth) /\ Descending(rootMoves, multiPv)

\* The moves this attempt has searched; of them one has the value, once that is inside
\* the window.
Searched(k) == k \in Positions /\ pvIdx <= k /\ rootMoves[k].mv \in tried

Winner(w) ==
    /\ Searched(w)
    /\ rootMoves[w].score = bestValue /\ rootMoves[w].bound = "exact"
    /\ rootMoves[w].at = rootDepth
    /\ \A k : Searched(k) /\ k # w => rootMoves[k].score < bestValue

AttemptInv ==
    /\ low \in Int
    /\ \A k : Searched(k) => rootMoves[k].score <= bestValue
    /\ alpha < bestValue /\ bestValue < beta => \E w : Winner(w)
    /\ pc = "search" => low = Greatest(alpha, bestValue) /\ bestValue < beta
    /\ pc = "search" /\ tried = {} => bestValue = -INFINITE
    /\ pc = "returned" /\ bestValue < beta =>
         \A k \in Positions : pvIdx <= k => Searched(k)

ScoresInv == pc \in {"search", "returned"} => AttemptInv

\* When a line is done its head is the winner.
HeadInv ==
    pc = "inside" =>
        /\ bestValue > -INFINITE
        /\ rootMoves[pvIdx].score = bestValue /\ rootMoves[pvIdx].bound = "exact"
        /\ rootMoves[pvIdx].at = rootDepth
        /\ \A k \in Positions : pvIdx < k => rootMoves[k].score < bestValue

CompletedInv ==
    /\ completedLines \in Seq(RootMove) /\ completedDepth \in Nat
    /\ CompletedLinesExact

OutputInv == shown \in Move \union {None} /\ bestmove \in Move \union {None}

Inv == WindowInv /\ ListInv /\ ScoresInv /\ HeadInv /\ CompletedInv /\ OutputInv

\* A search starts with the invariant.
LEMMA InitInv == Init => Inv
<1> SUFFICES ASSUME Init PROVE Inv
  OBVIOUS
<1>1. Len(RootMoves) \in Nat \ {0} /\ \A i \in Positions : RootMoves[i] \in Move
  BY SomePosition, RootAssumption DEF Positions
<1>2. \A i \in Positions : NewRootMove(RootMoves[i]) \in RootMove
  BY <1>1, Numbers DEF NewRootMove, RootMove
<1>3. /\ rootMoves \in Seq(RootMove) /\ Len(rootMoves) = Len(RootMoves)
      /\ \A i \in Positions : rootMoves[i] = NewRootMove(RootMoves[i])
  BY <1>1, <1>2 DEF Init, Positions
<1>4. \A i \in Positions : rootMoves[i].mv = RootMoves[i] /\ rootMoves[i].at = 0
  <2>1. \A m : NewRootMove(m).mv = m /\ NewRootMove(m).at = 0
    BY DEF NewRootMove
  <2> QED BY <1>3, <2>1
<1>5. Listed(rootMoves, rootDepth)
  BY <1>3, <1>4, DistinctMoves DEF Listed, Positions, Init
<1>6. multiPv \in Positions /\ pvIdx \in 1 .. multiPv
  BY <1>1, RootAssumption DEF Init, Least, Positions
<1>7. completedLines \in Seq(RootMove) /\ Len(completedLines) = 0
  BY DEF Init
<1>8. CompletedLinesExact
  BY <1>7 DEF CompletedLinesExact, Init
<1> QED BY <1>5, <1>6, <1>7, <1>8
        DEF Init, Inv, WindowInv, ListInv, ScoresInv, HeadInv, CompletedInv, OutputInv

\* One root move searched.
LEMMA SearchMoveStep ==
    ASSUME Inv, NEW i \in Active, NEW v \in Value, SearchMove(i, v)
    PROVE  ListInv' /\ ScoresInv'
<1> USE DEF Inv
<1>1. /\ pc = "search" /\ i \in Positions /\ pvIdx <= i
      /\ pvIdx \in Nat /\ rootDepth \in Nat /\ rootDepth > 0
      /\ Listed(rootMoves, rootDepth) /\ AttemptInv
      /\ UNCHANGED <<multiPv, rootDepth, pvIdx, alpha, beta>>
      /\ tried' = tried \union {rootMoves[i].mv} /\ rootMoves[i].mv \notin tried
      /\ bestValue' = Greatest(bestValue, v)
  <2>1. /\ pc = "search" /\ rootDepth \in Nat /\ rootDepth > 0
        /\ Listed(rootMoves, rootDepth) /\ AttemptInv
        /\ multiPv \in Positions /\ pvIdx \in 1 .. multiPv
    BY DEF SearchMove, ListInv, ScoresInv
  <2>2. i \in pvIdx .. Len(RootMoves)
    BY <2>1 DEF Active, Listed
  <2>3. i \in Positions /\ pvIdx <= i /\ pvIdx \in Nat
    BY <2>1, <2>2, SomePosition DEF Positions
  <2>4. /\ UNCHANGED <<multiPv, rootDepth, pvIdx, alpha, beta>>
        /\ tried' = tried \union {rootMoves[i].mv} /\ rootMoves[i].mv \notin tried
        /\ bestValue' = Greatest(bestValue, v)
    BY DEF SearchMove, window
  <2> QED BY <2>1, <2>3, <2>4
<1>2. /\ alpha \in Int /\ beta \in Int /\ bestValue \in Int /\ v \in Int /\ low \in Int
      /\ -INFINITE <= bestValue /\ -INFINITE < v /\ v < INFINITE /\ INFINITE \in Nat
      /\ -INFINITE <= alpha /\ alpha < beta
      /\ low = Greatest(alpha, bestValue) /\ bestValue < beta
  BY <1>1, Numbers DEF WindowInv, AttemptInv
<1> DEFINE rm == rootMoves[i]
           recorded == tried = {} \/ v > low
<1>3. /\ rm \in RootMove /\ rm.mv \in Move
      /\ rootMoves' = [rootMoves EXCEPT ![i] = IF recorded THEN Recorded(rm, v) ELSE Sunk(rm)]
  BY <1>1, ListedTyped DEF SearchMove
<1>4. /\ rootMoves'[i] = IF recorded THEN Recorded(rm, v) ELSE Sunk(rm)
      /\ \A k \in Positions : k # i => rootMoves'[k] = rootMoves[k]
      /\ Len(rootMoves') = Len(RootMoves)
  BY <1>1, <1>3 DEF Listed, Positions
<1>5. /\ Recorded(rm, v) \in RootMove /\ Sunk(rm) \in RootMove
      /\ Recorded(rm, v).mv = rm.mv /\ Sunk(rm).mv = rm.mv
      /\ Recorded(rm, v).at = rootDepth /\ Sunk(rm).at = rootDepth
      /\ Recorded(rm, v).score = v /\ Sunk(rm).score = -INFINITE
      /\ low < v /\ v < beta => Recorded(rm, v).bound = "exact"
  <2>1. rootDepth \in Nat /\ -INFINITE \in -INFINITE .. INFINITE - 1
        /\ v \in -INFINITE .. INFINITE - 1
    BY <1>1, <1>2
  <2>2. Recorded(rm, v).bound \in {"exact", "lower", "upper"}
    BY <1>3 DEF Recorded, RootMove
  <2>3. Recorded(rm, v) \in RootMove /\ Sunk(rm) \in RootMove
    BY <1>3, <2>1 DEF Recorded, Sunk, RootMove
  <2>4. /\ Recorded(rm, v).mv = rm.mv /\ Sunk(rm).mv = rm.mv
        /\ Recorded(rm, v).at = rootDepth /\ Sunk(rm).at = rootDepth
        /\ Recorded(rm, v).score = v /\ Sunk(rm).score = -INFINITE
    BY <1>3 DEF Recorded, Sunk, RootMove
  <2>5. low < v /\ v < beta => Recorded(rm, v).bound = "exact"
    BY <1>2, <1>3 DEF Recorded, RootMove
  <2> QED BY <2>3, <2>4, <2>5
<1>6. /\ rootMoves'[i] \in RootMove /\ rootMoves'[i].mv = rm.mv
      /\ rootMoves'[i].at = rootDepth
      /\ rootMoves'[i].score = IF recorded THEN v ELSE -INFINITE
      /\ recorded /\ low < v /\ v < beta => rootMoves'[i].bound = "exact"
  BY <1>4, <1>5
<1> HIDE DEF rm, recorded
<1>7. \A k \in Positions : rootMoves'[k].mv = rootMoves[k].mv
  BY <1>4, <1>6 DEF rm
<1>8. Listed(rootMoves', rootDepth)
  <2>1. rootMoves' \in Seq(RootMove)
    <3>1. rootMoves \in Seq(RootMove) /\ i \in 1 .. Len(rootMoves)
      BY <1>1 DEF Listed, Positions
    <3> DEFINE new == IF recorded THEN Recorded(rm, v) ELSE Sunk(rm)
    <3>2. new \in RootMove
      BY <1>5
    <3> HIDE DEF new
    <3>3. [rootMoves EXCEPT ![i] = new] \in Seq(RootMove)
      BY <3>1, <3>2
    <3> QED BY <1>3, <3>3 DEF new
  <2>2. \A k \in Positions : rootMoves'[k].at <= rootDepth
    BY <1>1, <1>4, <1>6 DEF Listed
  <2>3. \A k \in Positions : \E l \in Positions : rootMoves'[l].mv = RootMoves[k]
    BY <1>1, <1>7 DEF Listed
  <2>4. \A k, l \in Positions : rootMoves'[k].mv = rootMoves'[l].mv => k = l
    BY <1>1, <1>7 DEF Listed
  <2> QED BY <1>4, <2>1, <2>2, <2>3, <2>4 DEF Listed
<1>9. /\ Exact(rootMoves', pvIdx - 1, rootDepth)
      /\ Descending(rootMoves', pvIdx - 1)
  <2>1. \A k \in 1 .. pvIdx - 1 : rootMoves'[k] = rootMoves[k]
    BY <1>1, <1>4, SomePosition DEF Positions
  <2>2. Exact(rootMoves, pvIdx - 1, rootDepth) /\ Descending(rootMoves, pvIdx - 1)
    BY <1>1 DEF ListInv
  <2> QED BY <2>1, <2>2 DEF Exact, Descending
<1>10. ListInv'
  BY <1>1, <1>8, <1>9 DEF ListInv, SearchMove
<1>11. \A k : (Searched(k))' <=> Searched(k) \/ k = i
  <2>1. \A k \in Positions : rootMoves[k].mv = rm.mv => k = i
    BY <1>1 DEF Listed, rm
  <2> QED BY <1>1, <1>7, <2>1 DEF Searched, rm
<1>12. \A k : Searched(k) => /\ k # i /\ k \in Positions /\ rootMoves'[k] = rootMoves[k]
                             /\ rootMoves[k].score <= bestValue
                             /\ rootMoves[k].score \in Int
  BY <1>1, <1>4, ListedTyped DEF Searched, AttemptInv
<1>13. tried = {} => bestValue = -INFINITE /\ \A k : ~Searched(k)
  BY <1>1 DEF AttemptInv, Searched
<1>14. \A k : Searched(k)' => rootMoves'[k].score <= bestValue'
  BY <1>1, <1>2, <1>6, <1>11, <1>12 DEF Greatest, recorded
<1>15. ASSUME alpha < bestValue', bestValue' < beta
       PROVE  \E w : Winner(w)'
  <2>1. CASE v > low
    <3>1. bestValue' = v /\ v < beta /\ bestValue < v
      BY <1>1, <1>2, <1>15, <2>1 DEF Greatest
    <3>2. Winner(i)'
      BY <1>1, <1>2, <1>6, <1>11, <1>12, <2>1, <3>1 DEF Winner, recorded
    <3> QED BY <3>2
  <2>2. CASE ~(v > low)
    <3>1. bestValue' = bestValue /\ alpha < bestValue /\ tried # {}
      BY <1>1, <1>2, <1>13, <1>15, <2>2 DEF Greatest
    <3>2. PICK w : Winner(w)
      BY <1>1, <1>2, <3>1 DEF AttemptInv
    <3>3. rootMoves'[i].score < bestValue
      BY <1>2, <1>6, <2>2, <3>1 DEF recorded
    <3>4. Winner(w)'
      BY <1>1, <1>11, <1>12, <3>1, <3>2, <3>3 DEF Winner
    <3> QED BY <3>4
  <2> QED BY <2>1, <2>2
<1>16. /\ low' \in Int
       /\ pc' = "search" => low' = Greatest(alpha, bestValue') /\ bestValue' < beta
       /\ tried' # {}
  BY <1>1, <1>2 DEF SearchMove, Greatest
<1>17. ASSUME pc' = "returned", bestValue' < beta, NEW k \in Positions, pvIdx <= k
       PROVE  Searched(k)'
  <2>1. tried' = Open
    BY <1>1, <1>2, <1>17 DEF SearchMove, Greatest
  <2>2. rootMoves[k].mv \in Open
    <3>1. k \in pvIdx .. Len(rootMoves)
      BY <1>1, <1>17, SomePosition DEF Listed, Positions
    <3> QED BY <3>1 DEF Open, Active
  <2> QED BY <1>1, <1>7, <1>17, <2>1, <2>2 DEF Searched
<1>18. AttemptInv'
  BY <1>1, <1>14, <1>15, <1>16, <1>17 DEF AttemptInv
<1> QED BY <1>10, <1>18 DEF ScoresInv

\* An attempt begins.
LEMMA FreshAttempt ==
    ASSUME BeginSearch(alpha'), WindowInv'
    PROVE  ScoresInv'
<1>1. /\ low' = alpha' /\ bestValue' = -INFINITE /\ tried' = {} /\ pc' = "search"
      /\ alpha' \in Int /\ beta' \in Int /\ -INFINITE <= alpha' /\ alpha' < beta'
  BY DEF BeginSearch, WindowInv
<1>2. \A k : ~Searched(k)'
  BY <1>1 DEF Searched
<1>3. low' = Greatest(alpha', bestValue') /\ bestValue' < beta'
  BY <1>1, Numbers DEF Greatest
<1>4. ~(alpha' < bestValue')
  BY <1>1, Numbers
<1>5. AttemptInv'
  BY <1>1, <1>2, <1>3, <1>4 DEF AttemptInv
<1> QED BY <1>5 DEF ScoresInv

\* The tail sorted at the end of an attempt.
LEMMA TailStep ==
    ASSUME Inv, pc \in {"search", "returned"},
           rootMoves' = Sorted(rootMoves, pvIdx, Len(rootMoves)),
           UNCHANGED <<multiPv, rootDepth, pvIdx>>,
           pc' # "complete"
    PROVE  ListInv'
<1>1. /\ Listed(rootMoves, rootDepth) /\ pvIdx \in Positions
      /\ Exact(rootMoves, pvIdx - 1, rootDepth) /\ Descending(rootMoves, pvIdx - 1)
      /\ rootDepth > 0 /\ pvIdx \in Nat
  BY SomePosition DEF Inv, ListInv, Positions
<1>2. /\ Listed(rootMoves', rootDepth)
      /\ \A k \in 1 .. pvIdx - 1 : rootMoves'[k] = rootMoves[k]
  BY <1>1, TailSorted
<1>3. /\ Exact(rootMoves', pvIdx - 1, rootDepth)
      /\ Descending(rootMoves', pvIdx - 1)
  BY <1>1, <1>2 DEF Exact, Descending
<1> QED BY <1>1, <1>2, <1>3 DEF Inv, ListInv

\* What an attempt that ended inside the window leaves at the head of the tail.
LEMMA InsideStep ==
    ASSUME Inv, Inside
    PROVE  HeadInv'
<1> DEFINE n == Len(rootMoves)
           s == Sorted(rootMoves, pvIdx, n)
<1>1. /\ pc = "returned" /\ rootMoves' = s /\ UNCHANGED <<rootDepth, pvIdx, bestValue>>
      /\ alpha < bestValue /\ bestValue < beta /\ AttemptInv
      /\ alpha \in Int /\ -INFINITE <= alpha /\ bestValue \in Int
  BY DEF Inside, Inv, ScoresInv, WindowInv
<1>2. /\ Listed(rootMoves, rootDepth) /\ pvIdx \in Positions /\ pvIdx \in Nat \ {0}
      /\ rootMoves \in Seq(RootMove) /\ n = Len(RootMoves) /\ n \in Nat
      /\ pvIdx <= n
  BY SomePosition DEF Inv, ListInv, Positions, Listed
<1>3. PICK w : Winner(w)
  BY <1>1 DEF AttemptInv
<1>4. \A k \in pvIdx .. n :
        /\ k \in Positions /\ rootMoves[k].score \in Int
        /\ k # w => rootMoves[k].score < bestValue
  <2> SUFFICES ASSUME NEW k \in pvIdx .. n
               PROVE  /\ k \in Positions /\ rootMoves[k].score \in Int
                      /\ k # w => rootMoves[k].score < bestValue
    OBVIOUS
  <2>1. k \in Positions /\ pvIdx <= k
    BY <1>2 DEF Positions
  <2>2. Searched(k)
    BY <1>1, <2>1 DEF AttemptInv
  <2> QED BY <1>2, <1>3, <2>1, <2>2, ListedTyped DEF Winner
<1>5. w \in pvIdx .. n /\ rootMoves[w].score = bestValue
  BY <1>2, <1>3 DEF Winner, Searched, Positions
<1>6. SortOf(s, rootMoves, pvIdx, n)
  BY <1>2, SortedPermutes
<1>7. Listed(s, rootDepth)
  BY <1>2, TailSorted
<1> HIDE DEF s, n
<1>8. \A k \in pvIdx .. n : s[k].score \in Int
  BY <1>2, <1>4, <1>7, ListedTyped
<1>9. PICK m \in pvIdx .. n : s[m] = rootMoves[w]
  BY <1>5, <1>6 DEF SortOf
<1>10. \A k \in pvIdx .. n : \E i \in pvIdx .. n : s[k] = rootMoves[i]
  BY <1>6 DEF SortOf
<1>11. m = pvIdx
  <2> SUFFICES ASSUME m # pvIdx PROVE FALSE
    OBVIOUS
  <2>1. pvIdx \in pvIdx .. n /\ pvIdx < m
    BY <1>2, <1>9
  <2>2. ~Precedes(s[m], s[pvIdx])
    BY <1>6, <1>9, <2>1 DEF SortOf
  <2>3. s[pvIdx].score >= bestValue
    BY <1>1, <1>5, <1>8, <1>9, <2>1, <2>2 DEF Precedes
  <2>4. PICK i \in pvIdx .. n : s[pvIdx] = rootMoves[i]
    BY <1>10, <2>1
  <2>5. i = w
    BY <1>1, <1>4, <2>3, <2>4
  <2>6. s[m].mv = s[pvIdx].mv
    BY <1>9, <2>4, <2>5
  <2> QED BY <1>2, <1>4, <1>7, <1>9, <2>1, <2>6 DEF Listed
<1>12. /\ s[pvIdx].score = bestValue /\ s[pvIdx].bound = "exact"
       /\ s[pvIdx].at = rootDepth
  BY <1>3, <1>9, <1>11 DEF Winner
<1>13. ASSUME NEW k \in Positions, pvIdx < k
       PROVE  s[k].score < bestValue
  <2>1. k \in pvIdx .. n /\ pvIdx \in pvIdx .. n
    BY <1>2, <1>13 DEF Positions
  <2>2. PICK i \in pvIdx .. n : s[k] = rootMoves[i]
    BY <1>10, <2>1
  <2>3. i # w
    <3>1. s[k].mv # s[pvIdx].mv
      BY <1>2, <1>7, <1>13 DEF Listed
    <3> QED BY <1>9, <1>11, <2>2, <3>1
  <2> QED BY <1>4, <2>2, <2>3
<1> QED BY <1>1, <1>2, <1>12, <1>13, Numbers DEF HeadInv

\* The end of a line that was not aborted.
LEMMA LineStep ==
    ASSUME Inv, NextLine \/ LastLine
    PROVE  ListInv'
<1>1. /\ pc = "inside" /\ rootMoves' = Sorted(rootMoves, 1, pvIdx)
      /\ UNCHANGED <<multiPv, rootDepth>>
  BY DEF NextLine, LastLine, EndLine
<1>2. /\ Listed(rootMoves, rootDepth) /\ rootDepth \in Nat /\ rootDepth > 0
      /\ multiPv \in Positions /\ multiPv \in Nat /\ pvIdx \in 1 .. multiPv
      /\ pvIdx \in Positions /\ pvIdx \in Nat \ {0}
      /\ Exact(rootMoves, pvIdx - 1, rootDepth)
  BY <1>1, SomePosition DEF Inv, ListInv, Positions
<1>3. Exact(rootMoves, pvIdx, rootDepth)
  <2> SUFFICES ASSUME NEW i \in 1 .. pvIdx
               PROVE  /\ rootMoves[i].score > -INFINITE /\ rootMoves[i].bound = "exact"
                      /\ rootMoves[i].at = rootDepth
    BY DEF Exact
  <2>1. i \in 1 .. pvIdx - 1 \/ i = pvIdx
    BY <1>2
  <2> QED BY <1>1, <1>2, <2>1 DEF Exact, Inv, HeadInv
<1>4. /\ Listed(rootMoves', rootDepth) /\ Exact(rootMoves', pvIdx, rootDepth)
      /\ Descending(rootMoves', pvIdx)
  BY <1>1, <1>2, <1>3, HeadSorted
<1>5. CASE NextLine
  <2>1. pc' = "window" /\ pvIdx' = pvIdx + 1 /\ pvIdx' \in 1 .. multiPv /\ pvIdx' - 1 = pvIdx
    BY <1>2, <1>5 DEF NextLine
  <2> QED BY <1>1, <1>2, <1>4, <2>1 DEF ListInv
<1>6. CASE LastLine
  <2>1. pc' = "complete" /\ pvIdx' = pvIdx /\ pvIdx = multiPv
    BY <1>6 DEF LastLine
  <2> QED BY <1>1, <1>2, <1>4, <2>1 DEF ListInv
<1> QED BY <1>5, <1>6

\* Sorting after a stop keeps the list.
LEMMA AbortedStep ==
    ASSUME Inv, AbortedLine
    PROVE  ListInv'
<1>1. /\ rootMoves' = Sorted(rootMoves, 1, pvIdx) /\ pc' = "result"
      /\ UNCHANGED <<multiPv, rootDepth, pvIdx>>
  BY DEF AbortedLine, EndLine
<1>2. /\ Listed(rootMoves, rootDepth) /\ pvIdx \in Positions /\ 1 \in Positions
  BY SomePosition DEF Inv, ListInv, Positions
<1>3. Listed(rootMoves', rootDepth)
  BY <1>1, <1>2, SortedListed
<1> QED BY <1>1, <1>3 DEF Inv, ListInv

\* The next iteration keeps the list, its scores now the previous ones.
LEMMA IterateStep ==
    ASSUME Inv, Iterate
    PROVE  ListInv'
<1>1. /\ pc' = "window" /\ rootDepth' = rootDepth + 1 /\ pvIdx' = 1
      /\ rootMoves' = [i \in 1 .. Len(rootMoves) |->
                          [rootMoves[i] EXCEPT !.previous = rootMoves[i].score]]
      /\ UNCHANGED multiPv
  BY DEF Iterate
<1>2. /\ Listed(rootMoves, rootDepth) /\ rootDepth \in Nat
      /\ multiPv \in Positions /\ multiPv \in Nat \ {0}
      /\ Len(rootMoves) = Len(RootMoves)
  BY SomePosition DEF Inv, ListInv, Positions, Listed
<1>3. \A i \in Positions :
        /\ rootMoves'[i] \in RootMove
        /\ rootMoves'[i].mv = rootMoves[i].mv /\ rootMoves'[i].at = rootMoves[i].at
  <2> SUFFICES ASSUME NEW i \in Positions
               PROVE  /\ rootMoves'[i] \in RootMove
                      /\ rootMoves'[i].mv = rootMoves[i].mv
                      /\ rootMoves'[i].at = rootMoves[i].at
    OBVIOUS
  <2>1. rootMoves'[i] = [rootMoves[i] EXCEPT !.previous = rootMoves[i].score]
    BY <1>1, <1>2 DEF Positions
  <2>2. rootMoves[i] \in RootMove
    BY <1>2, ListedTyped
  <2> QED BY <2>1, <2>2 DEF RootMove
<1>4. rootMoves' \in Seq(RootMove) /\ Len(rootMoves') = Len(RootMoves)
  <2>1. /\ DOMAIN rootMoves' = 1 .. Len(RootMoves)
        /\ rootMoves' = [i \in 1 .. Len(RootMoves) |-> rootMoves'[i]]
    BY <1>1, <1>2
  <2> QED BY <1>3, <2>1, SomePosition DEF Positions
<1>5. \A i \in Positions : rootMoves'[i].at <= rootDepth'
  <2> SUFFICES ASSUME NEW i \in Positions PROVE rootMoves'[i].at <= rootDepth'
    OBVIOUS
  <2>1. rootMoves[i].at \in Nat /\ rootMoves[i].at <= rootDepth
    BY <1>2, ListedTyped DEF Listed
  <2>2. rootMoves'[i].at = rootMoves[i].at /\ rootDepth' = rootDepth + 1
    BY <1>1, <1>3
  <2> QED BY <1>2, <2>1, <2>2
<1>6. \A i \in Positions : \E k \in Positions : rootMoves'[k].mv = RootMoves[i]
  BY <1>2, <1>3 DEF Listed
<1>7. \A i, j \in Positions : rootMoves'[i].mv = rootMoves'[j].mv => i = j
  BY <1>2, <1>3 DEF Listed
<1>8. Listed(rootMoves', rootDepth')
  BY <1>4, <1>5, <1>6, <1>7 DEF Listed
<1>9. Exact(rootMoves', pvIdx' - 1, rootDepth') /\ Descending(rootMoves', pvIdx' - 1)
  BY <1>1 DEF Exact, Descending
<1> QED BY <1>1, <1>2, <1>8, <1>9 DEF ListInv

\* A completed iteration's lines are what the list's finished lines are.
LEMMA CompleteStep ==
    ASSUME Inv, CompleteIteration
    PROVE  CompletedInv'
<1>1. /\ pc = "complete" /\ completedLines' = SubSeq(rootMoves, 1, multiPv)
      /\ completedDepth' = rootDepth /\ UNCHANGED multiPv
  BY DEF CompleteIteration
<1>2. /\ Listed(rootMoves, rootDepth) /\ rootDepth \in Nat /\ rootDepth > 0
      /\ multiPv \in Positions /\ multiPv \in Nat /\ multiPv <= Len(rootMoves)
      /\ Exact(rootMoves, multiPv, rootDepth) /\ Descending(rootMoves, multiPv)
      /\ rootMoves \in Seq(RootMove)
  BY <1>1, SomePosition DEF Inv, ListInv, Positions, Listed
<1>3. /\ completedLines' \in Seq(RootMove) /\ Len(completedLines') = multiPv
      /\ \A i \in 1 .. multiPv : completedLines'[i] = rootMoves[i]
  BY <1>1, <1>2
<1>4. \A i, j \in 1 .. multiPv : i < j => rootMoves[i].mv # rootMoves[j].mv
  <2> SUFFICES ASSUME NEW i \in 1 .. multiPv, NEW j \in 1 .. multiPv, i < j
               PROVE  rootMoves[i].mv # rootMoves[j].mv
    OBVIOUS
  <2>1. i \in Positions /\ j \in Positions /\ i # j
    BY <1>2 DEF Positions
  <2> QED BY <1>2, <2>1 DEF Listed
<1>5. CompletedLinesExact'
  BY <1>1, <1>2, <1>3, <1>4 DEF CompletedLinesExact, Exact, Descending
<1> QED BY <1>1, <1>2, <1>3, <1>5 DEF CompletedInv

\* What is shown and answered is a root move.
LEMMA OutputStep ==
    ASSUME Inv, ListInv', [Next]_vars
    PROVE  OutputInv'
<1>1. rootMoves[1].mv \in Move /\ rootMoves'[1].mv \in Move
  <2>1. 1 \in Positions
    BY SomePosition DEF Positions
  <2> QED BY <2>1, ListedTyped DEF Inv, ListInv
<1>2. completedLines # << >> => completedLines[1].mv \in Move
  <2>1. completedLines \in Seq(RootMove)
    BY DEF Inv, CompletedInv
  <2>2. completedLines # << >> => completedLines[1] \in RootMove
    BY <2>1
  <2> QED BY <2>2 DEF RootMove
<1>3. ASSUME Result PROVE OutputInv'
  BY <1>1, <1>2, <1>3 DEF Result, Best, Inv, OutputInv
<1>4. ASSUME FailLow \/ FailHigh PROVE OutputInv'
  BY <1>1, <1>4 DEF FailLow, FailHigh, MayShowFail, Inv, OutputInv
<1>5. ASSUME NextLine \/ LastLine \/ AbortedLine PROVE OutputInv'
  BY <1>1, <1>5 DEF NextLine, LastLine, AbortedLine, EndLine, Inv, OutputInv
<1>6. ASSUME \/ DepthReached \/ OpenWindow \/ Inside \/ CompleteIteration \/ Abort
             \/ UNCHANGED vars \/ (\E v \in Value : ProbCut(v))
             \/ (\E i \in Active, v \in Value : SearchMove(i, v)) \/ Iterate
      PROVE  OutputInv'
  BY <1>6 DEF DepthReached, OpenWindow, Inside, CompleteIteration, Abort, vars, ProbCut,
              SearchMove, Iterate, output, Inv, OutputInv
<1> QED BY <1>3, <1>4, <1>5, <1>6 DEF Next, Step

\* What the other steps leave as it is.
LEMMA ListKept ==
    ASSUME Inv,
           \/ DepthReached \/ OpenWindow \/ CompleteIteration \/ Result \/ UNCHANGED vars
           \/ \E v \in Value : ProbCut(v)
    PROVE  ListInv'
<1>1. UNCHANGED <<rootMoves, multiPv, rootDepth, pvIdx>>
  BY DEF DepthReached, OpenWindow, CompleteIteration, Result, vars, ProbCut
<1>2. \/ pc' \in {"result", "iterate", "done"}
      \/ pc' \in {"search", "returned"} /\ pc \in {"window", "search"}
      \/ pc' = pc
  BY DEF DepthReached, OpenWindow, CompleteIteration, Result, vars, ProbCut, BeginSearch
<1> QED BY <1>1, <1>2 DEF Inv, ListInv

\* An attempt decided before its first move keeps the scores.
LEMMA ScoresKept ==
    ASSUME Inv, NEW v \in Value, ProbCut(v)
    PROVE  ScoresInv'
<1>1. /\ pc = "search" /\ pc' = "returned" /\ tried = {} /\ bestValue' = v /\ v >= beta
      /\ UNCHANGED <<rootMoves, rootDepth, pvIdx, alpha, beta, low, tried>>
      /\ AttemptInv /\ v \in Int /\ beta \in Int
  BY Numbers DEF ProbCut, window, Inv, ScoresInv, WindowInv
<1>2. \A k : ~Searched(k)'
  BY <1>1 DEF Searched
<1>3. ~(bestValue' < beta')
  BY <1>1
<1>4. AttemptInv'
  BY <1>1, <1>2, <1>3 DEF AttemptInv
<1> QED BY <1>4 DEF ScoresInv

\* Every step keeps the whole invariant.
LEMMA StepInv ==
    ASSUME Inv, [Next]_vars
    PROVE  Inv'
<1>1. WindowInv'
  BY WindowStep DEF Inv
<1>2. CASE \E i \in Active, v \in Value : SearchMove(i, v)
  <2>1. ListInv' /\ ScoresInv'
    BY <1>2, SearchMoveStep
  <2>2. /\ UNCHANGED <<multiPv, completedLines, completedDepth>>
        /\ pc' # "inside"
    BY <1>2 DEF SearchMove, kept
  <2> QED BY <1>1, <2>1, <2>2, OutputStep
          DEF Inv, HeadInv, CompletedInv, CompletedLinesExact
<1>3. CASE \E v \in Value : ProbCut(v)
  <2>1. ListInv' /\ ScoresInv'
    BY <1>3, ListKept, ScoresKept
  <2>2. /\ UNCHANGED <<multiPv, completedLines, completedDepth>>
        /\ pc' # "inside"
    BY <1>3 DEF ProbCut, kept
  <2> QED BY <1>1, <2>1, <2>2, OutputStep
          DEF Inv, HeadInv, CompletedInv, CompletedLinesExact
<1>4. CASE OpenWindow
  <2>1. ListInv'
    BY <1>4, ListKept
  <2>2. ScoresInv'
    BY <1>1, <1>4, FreshAttempt DEF OpenWindow
  <2>3. /\ UNCHANGED <<multiPv, completedLines, completedDepth>>
        /\ pc' # "inside"
    BY <1>4 DEF OpenWindow, BeginSearch, kept
  <2> QED BY <1>1, <2>1, <2>2, <2>3, OutputStep
          DEF Inv, HeadInv, CompletedInv, CompletedLinesExact
<1>5. CASE FailLow \/ FailHigh
  <2>1. ListInv'
    BY <1>5, TailStep DEF FailLow, FailHigh, BeginSearch
  <2>2. ScoresInv'
    BY <1>1, <1>5, FreshAttempt DEF FailLow, FailHigh
  <2>3. /\ UNCHANGED <<multiPv, completedLines, completedDepth>>
        /\ pc' # "inside"
    BY <1>5 DEF FailLow, FailHigh, BeginSearch, kept
  <2> QED BY <1>1, <2>1, <2>2, <2>3, OutputStep
          DEF Inv, HeadInv, CompletedInv, CompletedLinesExact
<1>6. CASE Inside \/ Abort
  <2>1. ListInv'
    BY <1>6, TailStep DEF Inside, Abort
  <2>2. HeadInv'
    BY <1>6, InsideStep DEF Abort, HeadInv
  <2>3. /\ UNCHANGED <<multiPv, completedLines, completedDepth>>
        /\ pc' \in {"inside", "aborted"}
    BY <1>6 DEF Inside, Abort, kept
  <2> QED BY <1>1, <2>1, <2>2, <2>3, OutputStep
          DEF Inv, ScoresInv, CompletedInv, CompletedLinesExact
<1>7. CASE NextLine \/ LastLine \/ AbortedLine \/ Iterate \/ DepthReached \/ Result
  <2>1. ListInv'
    BY <1>7, LineStep, AbortedStep, IterateStep, ListKept
  <2>2. /\ UNCHANGED <<multiPv, completedLines, completedDepth>>
        /\ pc' \in {"window", "complete", "result", "done"}
    BY <1>7 DEF NextLine, LastLine, AbortedLine, EndLine, Iterate, DepthReached, Result, kept
  <2> QED BY <1>1, <2>1, <2>2, OutputStep
          DEF Inv, ScoresInv, HeadInv, CompletedInv, CompletedLinesExact
<1>8. CASE CompleteIteration
  <2>1. ListInv' /\ CompletedInv'
    BY <1>8, ListKept, CompleteStep
  <2>2. pc' \in {"iterate", "result"}
    BY <1>8 DEF CompleteIteration
  <2> QED BY <1>1, <2>1, <2>2, OutputStep DEF Inv, ScoresInv, HeadInv
<1>9. CASE UNCHANGED vars
  <2>1. ListInv'
    BY <1>9, ListKept
  <2> QED BY <1>1, <1>9, <2>1, OutputStep
          DEF Inv, ScoresInv, AttemptInv, Winner, Searched, HeadInv, CompletedInv,
              CompletedLinesExact, vars, window, searching, kept
<1> QED BY <1>2, <1>3, <1>4, <1>5, <1>6, <1>7, <1>8, <1>9 DEF Next, Step

\* The inductive invariant: what the current attempt has searched is scored no better
\* than its value, one move has that value once it is inside the window, and the
\* finished lines are exact and of this iteration.
THEOREM InvAlways == Spec => []Inv
BY InitInv, StepInv, PTL DEF Spec

\* The types hold, and the root moves are always the generated ones.
THEOREM TypeCorrect == Spec => []TypeOK
<1>1. Inv => TypeOK
  <2> SUFFICES ASSUME Inv PROVE TypeOK
    OBVIOUS
  <2>1. Listed(rootMoves, rootDepth) /\ pvIdx \in 1 .. multiPv /\ OutputInv
        /\ Len(rootMoves) = Len(RootMoves) /\ rootDepth \in Nat
    BY DEF Inv, ListInv, Listed
  <2>2. \A i \in Positions : /\ rootMoves[i].score \in -INFINITE .. INFINITE - 1
                             /\ rootMoves[i].at \in 0 .. rootDepth
    <3> SUFFICES ASSUME NEW i \in Positions
                 PROVE  /\ rootMoves[i].score \in -INFINITE .. INFINITE - 1
                        /\ rootMoves[i].at \in 0 .. rootDepth
      OBVIOUS
    <3>1. rootMoves[i].at <= rootDepth
      BY <2>1 DEF Listed
    <3> QED BY <2>1, <3>1, ListedTyped, Numbers
  <2>3. \A i \in Positions : \E k \in Positions : rootMoves[k].mv = RootMoves[i]
    BY <2>1 DEF Listed
  <2> QED BY <2>1, <2>2, <2>3 DEF TypeOK, OutputInv, Positions
<1> QED BY <1>1, InvAlways, PTL

\* A finished line's first move has, exactly, the value its search returned.
THEOREM HeadHasTheValueAlways == Spec => []HeadHasTheValue
<1>1. Inv => HeadHasTheValue
  <2> SUFFICES ASSUME Inv, pc = "inside"
               PROVE  /\ rootMoves[pvIdx].score = bestValue
                      /\ rootMoves[pvIdx].bound = "exact"
                      /\ \A k \in pvIdx + 1 .. Len(rootMoves) :
                             rootMoves[k].score < rootMoves[pvIdx].score
    BY DEF HeadHasTheValue
  <2>1. /\ Len(rootMoves) = Len(RootMoves) /\ multiPv \in Positions
        /\ pvIdx \in 1 .. multiPv
    BY DEF Inv, ListInv, Listed
  <2>2. \A k \in pvIdx + 1 .. Len(rootMoves) : k \in Positions /\ pvIdx < k
    BY <2>1, SomePosition DEF Positions
  <2> QED BY <2>2 DEF Inv, HeadInv
<1> QED BY <1>1, InvAlways, PTL

\* The lines an abort falls back on are as many as asked for, of different moves, best
\* first, each scored, exactly, by the last completed iteration.
THEOREM CompletedLinesExactAlways == Spec => []CompletedLinesExact
<1>1. Inv => CompletedLinesExact
  BY DEF Inv, CompletedInv
<1> QED BY <1>1, InvAlways, PTL

\* Every line is exact, in hand or fallen back on.
THEOREM LinesExactAlways == Spec => []LinesExact
BY HeadHasTheValueAlways, CompletedLinesExactAlways, PTL DEF LinesExact
=============================================================================
