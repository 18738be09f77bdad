-------------------------- MODULE UsiSessionProofs --------------------------
(***************************************************************************)
(* UsiSession for every bound: one bestmove per go, withheld while the GUI *)
(* has not released it, and for the position that is on the board.         *)
(*                                                                         *)
(* The invariant follows one go from the command to its line.  A coordina- *)
(* tor serves the latest go, save while the next go waits for it to end    *)
(* (Spawned); it may still write one line (Counted); once it is past its   *)
(* wait loop it was released by the GUI or by a limit of its own (Held).   *)
(* A GUI that keeps the protocol adds that the search it waits for runs    *)
(* unsilenced (Awaited), that a search about to be re-issued is silenced   *)
(* before it can reply (Silenced), and what every root is worth            *)
(* (OnTheBoard).                                                           *)
(***************************************************************************)
EXTENDS UsiSession, TLAPS

\* The coordinator may still write a bestmove.
Busy == cpc \in {"start", "bookHold", "search", "hold", "check", "reply"}

\* The GUI told the search of ask a to stop, or its ponder to be hit.
Released(a) == a \in stopSent \cup hits

\* finish_search_join is running for this command.
Joins(command) == dpc = "join" /\ pending = command

\* Which go the latest search serves, and what a waiting command relies on.
Spawned ==
    /\ ~loaded => searches = 0
    /\ IF searches = 0 THEN cur = NoSearch /\ cpc = "none" ELSE cur.ask \in 1..asks
    /\ cpc # "none" => cur.ask = asks \/ Joins("go")
    /\ asks > 0 => MaxSearch > 0
    /\ Joins("go") =>
          /\ asks \in Asks /\ searches < MaxSearch
          /\ cur.ask < asks /\ replies[asks] = 0 /\ asks \notin hits
    /\ Joins("reissue") => searches < MaxSearch /\ cpc # "none"
    /\ stopSent \cup hits \subseteq 1..asks

\* A search writes at most one line, and so does a go without a network.
Counted ==
    \A a \in Asks :
        /\ a > asks => replies[a] = 0
        /\ replies[a] + (IF Busy /\ cur.ask = a THEN 1 ELSE 0)
             <= IF searches = 0 THEN 1 ELSE searches

\* A pondering or infinite search leaves its wait loop only when released.
Held ==
    /\ Busy /\ cur.limits.ponder =>
          (stop \/ ~ponder \/ cpc \in {"check", "reply"} => Released(cur.ask))
    /\ Busy /\ cur.limits.infinite =>
          (stop \/ cpc \in {"check", "reply"} =>
              Released(cur.ask) \/ cur.ask \in selfStop)

\* A search that will be re-issued is silenced before it reads the flag.
Silenced == Joins("reissue") => suppress /\ cpc # "reply"

\* The go a polite GUI waits for has a search that will answer it.
Awaited ==
    /\ Waiting /\ dpc = "idle" => Busy /\ ~suppress
    /\ Joins("sync") => ~Waiting
    /\ Busy \/ Joins("reissue") => replies[cur.ask] = 0 \/ cur.ask \in shortcut

\* Only a Stochastic_Ponder search looks at another position than the board's,
\* and after its ponderhit none does.
OnTheBoard ==
    /\ Joins("go") => pos = last
    /\ Busy /\ cur.ask \notin shortcut =>
          /\ cur.root = last \/ (stochastic /\ cur.limits.ponder)
          /\ cur.ask \in hits => cur.root = last \/ Joins("reissue")

Protocol == polite => Silenced /\ Awaited /\ OnTheBoard /\ OneReply

IInv == TypeOK /\ Spawned /\ Counted /\ Held /\ Protocol

-----------------------------------------------------------------------------
\* The first state satisfies the invariant.
LEMMA InitIInv == Init => IInv
  <1> SUFFICES ASSUME Init PROVE IInv
    OBVIOUS
  <1> USE BoundsAssumption DEF Init
  <1>1. TypeOK
    <2>1. NoMode \in Modes /\ 0 \in Plies
      BY DEF NoMode, Modes, Plies
    <2>2. NoSearch \in [ask : 0..MaxAsks, root : Plies, limits : Modes]
      BY <2>1 DEF NoSearch
    <2>3. replies \in [Asks -> 0..MaxSearch] /\ answered \in [Asks -> Plies]
      BY <2>1
    <2>4. searches \in 0..MaxSearch /\ asks \in 0..MaxAsks
      OBVIOUS
    <2> QED
      BY <2>1, <2>2, <2>3, <2>4 DEF TypeOK
  <1>2. Spawned /\ Counted
    BY DEF Spawned, Counted, Joins, Busy, Asks
  <1>3. Held /\ Protocol
    BY DEF Held, Protocol, Silenced, Awaited, OnTheBoard, OneReply, Waiting, Joins, Busy
  <1> QED
    BY <1>1, <1>2, <1>3 DEF IInv

\* What a re-issue does: the go that is being served, on the retained position,
\* without its ponder.
ReissueEffect ==
    /\ Joins("reissue") /\ loaded /\ cpc = "done" /\ searches < MaxSearch
    /\ cur.ask = asks /\ asks \in Asks
    /\ cur' = [ask |-> asks, root |-> last, limits |-> lastGo']
    /\ lastGo' \in Modes /\ ~lastGo'.ponder
    /\ searches' = searches + 1 /\ cpc' = "start" /\ dpc' = "idle"
    /\ stop' = FALSE /\ suppress' = FALSE /\ ponder' = FALSE
    /\ pos' = last
    /\ UNCHANGED <<pending, mode, last, polite, loaded, stochastic, asks,
                   stopSent, hits, replies, shortcut, selfStop, answered>>

\* The effect of a re-issued go.
LEMMA Reissued == ASSUME TypeOK, Spawned, DoReissue PROVE ReissueEffect
  <1> DEFINE limits == [lastGo EXCEPT !.ponder = FALSE]
  <1>1. limits \in Modes /\ limits.ponder = FALSE
    BY DEF TypeOK, Modes
  <1>2. Joins("reissue") /\ cpc # "none" /\ cpc = "done" /\ searches < MaxSearch
    BY DEF DoReissue, Joined, Joins, Spawned
  <1>3. loaded /\ cur.ask \in 1..asks /\ cur.ask = asks
    BY <1>2 DEF Spawned, Joins
  <1>4. asks \in Asks
    BY <1>3, BoundsAssumption DEF TypeOK, Asks
  <1>5. Rewound(limits, last) = last
    BY <1>1 DEF Rewound
  <1> HIDE DEF limits
  <1>6. Start(limits, last, cur.ask) /\ dpc' = "idle"
        /\ UNCHANGED <<pending, mode, last, optionVars, asks, stopSent, hits>>
    BY DEF DoReissue, limits
  <1>7. /\ cur' = [ask |-> asks, root |-> last, limits |-> limits]
        /\ searches' = searches + 1 /\ cpc' = "start"
        /\ stop' = FALSE /\ suppress' = FALSE /\ ponder' = FALSE
        /\ pos' = last /\ lastGo' = limits
        /\ UNCHANGED <<replies, shortcut, selfStop, answered>>
    BY <1>1, <1>3, <1>5, <1>6 DEF Start, replyVars
  <1> QED
    BY <1>1, <1>2, <1>3, <1>4, <1>6, <1>7 DEF limits, optionVars, ReissueEffect

\* Every step keeps the types; the counters stay within their bounds.
LEMMA TypeStep == TypeOK /\ Spawned /\ Counted /\ [Next]_vars => TypeOK'
  <1> SUFFICES ASSUME TypeOK, Spawned, Counted, [Next]_vars PROVE TypeOK'
    OBVIOUS
  <1> USE DEF driverVars, optionVars, searchVars, replyVars, guiVars
  <1>a. NoMode \in Modes
    BY DEF NoMode, Modes
  <1>b. 0 \in Plies
    BY BoundsAssumption DEF Plies
  <1>c. cpc # "none" => cur.ask \in Asks
    BY BoundsAssumption DEF Spawned, TypeOK, Asks
  <1>d. Busy => replies[cur.ask] + 1 \in 0..MaxSearch
    BY <1>c, BoundsAssumption DEF Counted, Spawned, Busy, TypeOK, Asks
  <1>1. CASE SendPosition
    BY <1>1, <1>a, <1>b, <1>c DEF SendPosition, TypeOK
  <1>2. CASE SendStochastic
    BY <1>2, <1>a, <1>b, <1>c DEF SendStochastic, TypeOK
  <1>3. CASE SendGo
    <2>1. asks + 1 \in 0..MaxAsks
      BY <1>3, BoundsAssumption DEF SendGo, TypeOK
    <2>2. stopSent' \in SUBSET Asks
      BY <1>3, <1>c DEF SendGo, Joining, TypeOK
    <2> QED
      BY <1>3, <2>1, <2>2 DEF SendGo, Joining, TypeOK
  <1>4. CASE SendSync
    BY <1>4, <1>a, <1>b, <1>c DEF SendSync, Joining, TypeOK
  <1>5. CASE SendQuit
    BY <1>5, <1>a, <1>b, <1>c DEF SendQuit, Joining, TypeOK
  <1>6. CASE SendStop
    BY <1>6, <1>a, <1>b, <1>c DEF SendStop, TypeOK
  <1>7. CASE SendStochasticPonderhit
    BY <1>7, <1>a, <1>b, <1>c DEF SendStochasticPonderhit, Joining, TypeOK
  <1>8. CASE SendPonderhit
    BY <1>8, <1>a, <1>b, <1>c DEF SendPonderhit, TypeOK
  <1>9. CASE DoGo
    <2>1. Rewound(mode, pos) \in Plies
      BY BoundsAssumption DEF Rewound, TypeOK, Plies
    <2>2. asks \in Asks /\ asks \in 0..MaxAsks /\ searches + 1 \in 0..MaxSearch
      BY <1>9, BoundsAssumption DEF DoGo, Joined, Joins, Spawned, TypeOK
    <2>3. MaxSearch > 0 /\ replies[asks] + 1 \in 0..MaxSearch
      BY <1>9, <2>2, BoundsAssumption DEF DoGo, Joined, Joins, Spawned, TypeOK, Asks
    <2>4. mode.ponder \in BOOLEAN
      BY DEF TypeOK, Modes
    <2>5. CASE loaded
      <3>1. cur' = [ask |-> asks, root |-> Rewound(mode, pos), limits |-> mode]
        BY <1>9, <2>5 DEF DoGo, Start
      <3>2. cur' \in [ask : 0..MaxAsks, root : Plies, limits : Modes]
        BY <2>1, <2>2, <3>1 DEF TypeOK
      <3> QED
        BY <1>9, <2>1, <2>2, <2>4, <2>5, <3>2 DEF DoGo, Start, TypeOK
    <2>6. CASE ~loaded
      BY <1>9, <2>1, <2>2, <2>3, <2>6 DEF DoGo, Start, TypeOK
    <2> QED
      BY <2>5, <2>6
  <1>10. CASE DoReissue
    <2>1. ReissueEffect
      BY <1>10, Reissued
    <2>2. searches + 1 \in 0..MaxSearch /\ asks \in 0..MaxAsks
      BY <2>1, BoundsAssumption DEF TypeOK, ReissueEffect
    <2>3. cur' \in [ask : 0..MaxAsks, root : Plies, limits : Modes]
      BY <2>1, <2>2 DEF TypeOK, ReissueEffect
    <2> QED
      BY <2>1, <2>2, <2>3 DEF TypeOK, ReissueEffect
  <1>11. CASE DoReady
    BY <1>11, <1>a, <1>b, <1>c DEF DoReady, JoinedFor, Joined, TypeOK
  <1>12. CASE DoNewGame
    BY <1>12, <1>a, <1>b, <1>c DEF DoNewGame, JoinedFor, Joined, TypeOK
  <1>13. CASE DoBench
    BY <1>13, <1>a, <1>b, <1>c DEF DoBench, JoinedFor, Joined, TypeOK
  <1>14. CASE DoResize
    BY <1>14, <1>a, <1>b, <1>c DEF DoResize, JoinedFor, Joined, TypeOK
  <1>15. CASE DoQuit
    BY <1>15, <1>a, <1>b, <1>c DEF DoQuit, JoinedFor, Joined, TypeOK
  <1>16. CASE ShortCircuit
    BY <1>16, <1>c, <1>d DEF ShortCircuit, Write, UnchangedByCoordinator, Busy, TypeOK
  <1>17. CASE BookHit
    BY <1>17, <1>a, <1>b, <1>c DEF BookHit, UnchangedByCoordinator, TypeOK
  <1>18. CASE StartSearch
    BY <1>18, <1>a, <1>b, <1>c DEF StartSearch, UnchangedByCoordinator, TypeOK
  <1>19. CASE SearchEnds
    BY <1>19, <1>a, <1>b, <1>c DEF SearchEnds, UnchangedByCoordinator, TypeOK
  <1>20. CASE LimitReached
    BY <1>20, <1>a, <1>b, <1>c DEF LimitReached, UnchangedByCoordinator, TypeOK
  <1>21. CASE HoldOver
    BY <1>21, <1>a, <1>b, <1>c DEF HoldOver, UnchangedByCoordinator, Release, TypeOK
  <1>22. CASE BookHoldOver
    BY <1>22, <1>a, <1>b, <1>c DEF BookHoldOver, UnchangedByCoordinator, Release, TypeOK
  <1>23. CASE CheckSuppress
    BY <1>23, <1>a, <1>b, <1>c DEF CheckSuppress, UnchangedByCoordinator, TypeOK
  <1>24. CASE Reply
    BY <1>24, <1>c, <1>d DEF Reply, Write, UnchangedByCoordinator, Busy, TypeOK
  <1>25. CASE UNCHANGED vars
    BY <1>25 DEF vars, TypeOK
  <1> QED
    BY <1>1, <1>2, <1>3, <1>4, <1>5, <1>6, <1>7, <1>8, <1>9, <1>10, <1>11, <1>12,
       <1>13, <1>14, <1>15, <1>16, <1>17, <1>18, <1>19, <1>20, <1>21, <1>22, <1>23,
       <1>24, <1>25
    DEF Next, Gui, DriverWork, Coordinator, Exited

\* Every step keeps Spawned: a go is served by the latest search.
LEMMA SpawnedStep == TypeOK /\ Spawned /\ Counted /\ [Next]_vars => Spawned'
  <1> SUFFICES ASSUME TypeOK, Spawned, Counted, [Next]_vars PROVE Spawned'
    OBVIOUS
  <1> USE DEF driverVars, optionVars, searchVars, replyVars, guiVars
  <1>t. /\ asks \in Nat /\ searches \in Nat /\ asks <= MaxAsks
        /\ stopSent \subseteq Asks /\ hits \subseteq Asks
        /\ loaded \in BOOLEAN /\ dpc \in {"idle", "join", "exited"}
        /\ cur.ask \in Nat /\ polite \in BOOLEAN
        /\ replies \in [Asks -> Nat]
        /\ MaxAsks \in Nat /\ MaxSearch \in Nat /\ MaxRude \in Nat /\ MaxRude <= MaxSearch
    BY BoundsAssumption DEF TypeOK
  <1>m. MaySearch => searches < MaxSearch
    BY <1>t DEF MaySearch
  <1>1. CASE SendPosition
    BY <1>1, <1>t DEF SendPosition, Spawned, Joins, Asks, NoSearch
  <1>2. CASE SendStochastic
    BY <1>2, <1>t DEF SendStochastic, Spawned, Joins, Asks, NoSearch
  <1>3. CASE SendGo
    <2>1. asks' = asks + 1 /\ asks' \in Asks /\ searches < MaxSearch
      BY <1>3, <1>t, <1>m DEF SendGo, Asks
    <2>2. replies[asks'] = 0 /\ asks' \notin hits /\ cur.ask < asks'
      BY <1>t, <2>1 DEF Counted, Spawned, NoSearch
    <2>3. stopSent' \cup hits \subseteq 1..asks'
      <3>1. stopSent \cup hits \subseteq 1..asks /\ (cpc # "none" => cur.ask \in 1..asks)
        BY DEF Spawned
      <3>2. stopSent' \cup hits \subseteq 1..asks
        BY <1>3, <3>1 DEF SendGo, Joining
      <3> QED
        BY <1>t, <2>1, <3>2
    <2>4. searches # 0 => cur.ask \in 1..asks'
      BY <1>t, <2>1 DEF Spawned
    <2>5. UNCHANGED <<loaded, searches, cur, cpc, replies, hits>>
            /\ dpc' = "join" /\ pending' = "go"
      BY <1>3 DEF SendGo, Joining
    <2> QED
      BY <1>t, <2>1, <2>2, <2>3, <2>4, <2>5 DEF Spawned, Joins
  <1>4. CASE SendSync
    BY <1>4, <1>t DEF SendSync, Joining, Spawned, Joins, Asks, NoSearch
  <1>5. CASE SendQuit
    BY <1>5, <1>t DEF SendQuit, Joining, Spawned, Joins, Asks, NoSearch
  <1>6. CASE SendStop
    BY <1>6, <1>t DEF SendStop, Spawned, Joins, Asks, NoSearch
  <1>7. CASE SendStochasticPonderhit
    BY <1>7, <1>t, <1>m DEF SendStochasticPonderhit, Joining, Spawned, Joins, NoSearch
  <1>8. CASE SendPonderhit
    BY <1>8, <1>t DEF SendPonderhit, Spawned, Joins, Asks, NoSearch
  <1>9. CASE DoGo
    BY <1>9, <1>t DEF DoGo, Start, Rewound, Joined, Spawned, Joins, Asks, NoSearch
  <1>10. CASE DoReissue
    <2>1. ReissueEffect
      BY <1>10, Reissued
    <2> QED
      BY <2>1, <1>t DEF ReissueEffect, Spawned, Joins, Asks, NoSearch
  <1>11. CASE DoReady
    BY <1>11, <1>t DEF DoReady, JoinedFor, Joined, Spawned, Joins, Asks, NoSearch
  <1>12. CASE DoNewGame
    BY <1>12, <1>t DEF DoNewGame, JoinedFor, Joined, Spawned, Joins, Asks, NoSearch
  <1>13. CASE DoBench
    BY <1>13, <1>t DEF DoBench, JoinedFor, Joined, Spawned, Joins, Asks, NoSearch
  <1>14. CASE DoResize
    BY <1>14, <1>t DEF DoResize, JoinedFor, Joined, Spawned, Joins, Asks, NoSearch
  <1>15. CASE DoQuit
    BY <1>15, <1>t DEF DoQuit, JoinedFor, Joined, Spawned, Joins, Asks, NoSearch
  <1>16. CASE ShortCircuit
    BY <1>16, <1>t
    DEF ShortCircuit, UnchangedByCoordinator, Write, Spawned, Joins, Asks, NoSearch
  <1>17. CASE BookHit
    BY <1>17, <1>t DEF BookHit, UnchangedByCoordinator, Spawned, Joins, Asks, NoSearch
  <1>18. CASE StartSearch
    BY <1>18, <1>t
    DEF StartSearch, UnchangedByCoordinator, Spawned, Joins, Asks, NoSearch
  <1>19. CASE SearchEnds
    BY <1>19, <1>t
    DEF SearchEnds, UnchangedByCoordinator, Spawned, Joins, Asks, NoSearch
  <1>20. CASE LimitReached
    BY <1>20, <1>t
    DEF LimitReached, UnchangedByCoordinator, Spawned, Joins, Asks, NoSearch
  <1>21. CASE HoldOver
    BY <1>21, <1>t
    DEF HoldOver, UnchangedByCoordinator, Release, Spawned, Joins, Asks, NoSearch
  <1>22. CASE BookHoldOver
    BY <1>22, <1>t
    DEF BookHoldOver, UnchangedByCoordinator, Release, Spawned, Joins, Asks, NoSearch
  <1>23. CASE CheckSuppress
    BY <1>23, <1>t
    DEF CheckSuppress, UnchangedByCoordinator, Spawned, Joins, Asks, NoSearch
  <1>24. CASE Reply
    BY <1>24, <1>t
    DEF Reply, UnchangedByCoordinator, Write, Spawned, Joins, Asks, NoSearch
  <1>25. CASE UNCHANGED vars
    BY <1>25 DEF vars, Spawned, Joins, Asks, NoSearch
  <1> QED
    BY <1>1, <1>2, <1>3, <1>4, <1>5, <1>6, <1>7, <1>8, <1>9, <1>10, <1>11, <1>12,
       <1>13, <1>14, <1>15, <1>16, <1>17, <1>18, <1>19, <1>20, <1>21, <1>22, <1>23,
       <1>24, <1>25
    DEF Next, Gui, DriverWork, Coordinator, Exited

\* Every step keeps Counted: a line is written by a search that may write one.
LEMMA CountedStep == TypeOK /\ Spawned /\ Counted /\ [Next]_vars => Counted'
  <1> SUFFICES ASSUME TypeOK, Spawned, Counted, [Next]_vars PROVE Counted'
    OBVIOUS
  <1> USE DEF driverVars, optionVars, searchVars, replyVars, guiVars
  <1>t. /\ asks \in Nat /\ searches \in Nat /\ asks <= MaxAsks
        /\ loaded \in BOOLEAN /\ dpc \in {"idle", "join", "exited"}
        /\ cur.ask \in Nat
        /\ replies \in [Asks -> Nat]
        /\ MaxAsks \in Nat
    BY BoundsAssumption DEF TypeOK, Asks
  <1>1. CASE SendPosition
    BY <1>1, <1>t DEF SendPosition, Counted, Spawned, Joins, Asks, Busy
  <1>2. CASE SendStochastic
    BY <1>2, <1>t DEF SendStochastic, Counted, Spawned, Joins, Asks, Busy
  <1>3. CASE SendGo
    <2>1. asks' = asks + 1 /\ UNCHANGED <<searches, cur, cpc, replies>>
      BY <1>3 DEF SendGo, Joining
    <2>2. \A a \in Asks : a \in Nat
      BY DEF Asks
    <2> QED
      BY <1>t, <2>1, <2>2 DEF Counted, Busy
  <1>4. CASE SendSync
    BY <1>4, <1>t DEF SendSync, Joining, Counted, Spawned, Joins, Asks, Busy
  <1>5. CASE SendQuit
    BY <1>5, <1>t DEF SendQuit, Joining, Counted, Spawned, Joins, Asks, Busy
  <1>6. CASE SendStop
    BY <1>6, <1>t DEF SendStop, Counted, Spawned, Joins, Asks, Busy
  <1>7. CASE SendStochasticPonderhit
    BY <1>7, <1>t
    DEF SendStochasticPonderhit, Joining, Counted, Spawned, Joins, Asks, Busy
  <1>8. CASE SendPonderhit
    BY <1>8, <1>t DEF SendPonderhit, Counted, Spawned, Joins, Asks, Busy
  <1>9. CASE DoGo
    BY <1>9, <1>t DEF DoGo, Start, Rewound, Joined, Counted, Spawned, Joins, Asks, Busy
  <1>10. CASE DoReissue
    <2>1. ReissueEffect
      BY <1>10, Reissued
    <2> QED
      BY <2>1, <1>t DEF ReissueEffect, Counted, Spawned, Joins, Asks, Busy
  <1>11. CASE DoReady
    BY <1>11, <1>t DEF DoReady, JoinedFor, Joined, Counted, Spawned, Joins, Asks, Busy
  <1>12. CASE DoNewGame
    BY <1>12, <1>t DEF DoNewGame, JoinedFor, Joined, Counted, Spawned, Joins, Asks, Busy
  <1>13. CASE DoBench
    BY <1>13, <1>t DEF DoBench, JoinedFor, Joined, Counted, Spawned, Joins, Asks, Busy
  <1>14. CASE DoResize
    BY <1>14, <1>t DEF DoResize, JoinedFor, Joined, Counted, Spawned, Joins, Asks, Busy
  <1>15. CASE DoQuit
    BY <1>15, <1>t DEF DoQuit, JoinedFor, Joined, Counted, Spawned, Joins, Asks, Busy
  <1>16. CASE ShortCircuit
    BY <1>16, <1>t
    DEF ShortCircuit, UnchangedByCoordinator, Write, Counted, Spawned, Joins, Asks, Busy
  <1>17. CASE BookHit
    BY <1>17, <1>t
    DEF BookHit, UnchangedByCoordinator, Counted, Spawned, Joins, Asks, Busy
  <1>18. CASE StartSearch
    BY <1>18, <1>t
    DEF StartSearch, UnchangedByCoordinator, Counted, Spawned, Joins, Asks, Busy
  <1>19. CASE SearchEnds
    BY <1>19, <1>t
    DEF SearchEnds, UnchangedByCoordinator, Counted, Spawned, Joins, Asks, Busy
  <1>20. CASE LimitReached
    BY <1>20, <1>t
    DEF LimitReached, UnchangedByCoordinator, Counted, Spawned, Joins, Asks, Busy
  <1>21. CASE HoldOver
    BY <1>21, <1>t
    DEF HoldOver, UnchangedByCoordinator, Release, Counted, Spawned, Joins, Asks, Busy
  <1>22. CASE BookHoldOver
    BY <1>22, <1>t
    DEF BookHoldOver, UnchangedByCoordinator, Release, Counted, Spawned, Joins, Asks,
        Busy
  <1>23. CASE CheckSuppress
    BY <1>23, <1>t
    DEF CheckSuppress, UnchangedByCoordinator, Counted, Spawned, Joins, Asks, Busy
  <1>24. CASE Reply
    BY <1>24, <1>t
    DEF Reply, UnchangedByCoordinator, Write, Counted, Spawned, Joins, Asks, Busy
  <1>25. CASE UNCHANGED vars
    BY <1>25 DEF vars, Counted, Spawned, Joins, Asks, Busy
  <1> QED
    BY <1>1, <1>2, <1>3, <1>4, <1>5, <1>6, <1>7, <1>8, <1>9, <1>10, <1>11, <1>12,
       <1>13, <1>14, <1>15, <1>16, <1>17, <1>18, <1>19, <1>20, <1>21, <1>22, <1>23,
       <1>24, <1>25
    DEF Next, Gui, DriverWork, Coordinator, Exited

\* Every step keeps Held: stop, ponderhit and a joining command release the
\* search, and a limit ends it only when it does not ponder.
LEMMA HeldStep == TypeOK /\ Spawned /\ Held /\ [Next]_vars => Held'
  <1> SUFFICES ASSUME TypeOK, Spawned, Held, [Next]_vars PROVE Held'
    OBVIOUS
  <1> USE DEF driverVars, optionVars, searchVars, replyVars, guiVars,
             Held, Busy, Released, Joins
  <1>t. /\ stop \in BOOLEAN /\ ponder \in BOOLEAN
        /\ cur.limits.ponder \in BOOLEAN /\ cur.limits.infinite \in BOOLEAN
        /\ mode.ponder \in BOOLEAN
    BY DEF TypeOK, Modes
  <1>1. CASE SendPosition
    BY <1>1, <1>t DEF SendPosition
  <1>2. CASE SendStochastic
    BY <1>2, <1>t DEF SendStochastic
  <1>3. CASE SendGo
    BY <1>3, <1>t DEF SendGo, Joining
  <1>4. CASE SendSync
    BY <1>4, <1>t DEF SendSync, Joining
  <1>5. CASE SendQuit
    BY <1>5, <1>t DEF SendQuit, Joining
  <1>6. CASE SendStop
    BY <1>6, <1>t DEF SendStop
  <1>7. CASE SendStochasticPonderhit
    BY <1>7, <1>t DEF SendStochasticPonderhit, Joining
  <1>8. CASE SendPonderhit
    BY <1>8, <1>t DEF SendPonderhit
  <1>9. CASE DoGo
    BY <1>9, <1>t DEF DoGo, Start, Rewound, Joined
  <1>10. CASE DoReissue
    <2>1. ReissueEffect
      BY <1>10, Reissued
    <2> QED
      BY <2>1, <1>t DEF ReissueEffect
  <1>11. CASE DoReady
    BY <1>11, <1>t DEF DoReady, JoinedFor, Joined
  <1>12. CASE DoNewGame
    BY <1>12, <1>t DEF DoNewGame, JoinedFor, Joined
  <1>13. CASE DoBench
    BY <1>13, <1>t DEF DoBench, JoinedFor, Joined
  <1>14. CASE DoResize
    BY <1>14, <1>t DEF DoResize, JoinedFor, Joined
  <1>15. CASE DoQuit
    BY <1>15, <1>t DEF DoQuit, JoinedFor, Joined
  <1>16. CASE ShortCircuit
    BY <1>16, <1>t DEF ShortCircuit, UnchangedByCoordinator, Write
  <1>17. CASE BookHit
    BY <1>17, <1>t DEF BookHit, UnchangedByCoordinator
  <1>18. CASE StartSearch
    BY <1>18, <1>t DEF StartSearch, UnchangedByCoordinator
  <1>19. CASE SearchEnds
    BY <1>19, <1>t DEF SearchEnds, UnchangedByCoordinator
  <1>20. CASE LimitReached
    BY <1>20, <1>t DEF LimitReached, UnchangedByCoordinator
  <1>21. CASE HoldOver
    BY <1>21, <1>t DEF HoldOver, UnchangedByCoordinator, Release
  <1>22. CASE BookHoldOver
    BY <1>22, <1>t DEF BookHoldOver, UnchangedByCoordinator, Release
  <1>23. CASE CheckSuppress
    BY <1>23, <1>t DEF CheckSuppress, UnchangedByCoordinator
  <1>24. CASE Reply
    BY <1>24, <1>t DEF Reply, UnchangedByCoordinator, Write
  <1>25. CASE UNCHANGED vars
    BY <1>25 DEF vars
  <1> QED
    BY <1>1, <1>2, <1>3, <1>4, <1>5, <1>6, <1>7, <1>8, <1>9, <1>10, <1>11, <1>12,
       <1>13, <1>14, <1>15, <1>16, <1>17, <1>18, <1>19, <1>20, <1>21, <1>22, <1>23,
       <1>24, <1>25
    DEF Next, Gui, DriverWork, Coordinator, Exited

\* Every step keeps what holds for a polite GUI.
LEMMA ProtocolStep == TypeOK /\ Spawned /\ Held /\ Protocol /\ [Next]_vars => Protocol'
  <1> SUFFICES ASSUME TypeOK, Spawned, Held, Protocol, [Next]_vars PROVE Protocol'
    OBVIOUS
  <1> USE DEF driverVars, optionVars, searchVars, replyVars, guiVars,
             Protocol, Silenced, Awaited, OnTheBoard, OneReply, Waiting, Held, Released,
             Spawned, Joins, Asks, Busy
  <1>t. /\ asks \in Nat /\ searches \in Nat /\ asks <= MaxAsks
        /\ loaded \in BOOLEAN /\ dpc \in {"idle", "join", "exited"}
        /\ cur.ask \in Nat /\ MaxAsks \in Nat
        /\ stochastic \in BOOLEAN /\ polite \in BOOLEAN
        /\ replies \in [Asks -> Nat]
    BY BoundsAssumption DEF TypeOK
  <1>1. CASE SendPosition
    BY <1>1, <1>t DEF SendPosition, MaySend
  <1>2. CASE SendStochastic
    BY <1>2, <1>t DEF SendStochastic, MaySend
  <1>3. CASE SendGo
    BY <1>3, <1>t DEF SendGo, MaySend, Joining
  <1>4. CASE SendSync
    BY <1>4, <1>t DEF SendSync, MaySend, Joining
  <1>5. CASE SendQuit
    BY <1>5, <1>t DEF SendQuit, Joining
  <1>6. CASE SendStop
    BY <1>6, <1>t DEF SendStop, MayStop
  <1>7. CASE SendStochasticPonderhit
    BY <1>7, <1>t DEF SendStochasticPonderhit, MayPonderhit, Joining
  <1>8. CASE SendPonderhit
    BY <1>8, <1>t DEF SendPonderhit, MayPonderhit
  <1>9. CASE DoGo
    BY <1>9, <1>t DEF DoGo, Start, Rewound, Joined
  <1>10. CASE DoReissue
    <2>1. ReissueEffect
      BY <1>10, Reissued
    <2> QED
      BY <2>1, <1>t DEF ReissueEffect
  <1>11. CASE DoReady
    BY <1>11, <1>t DEF DoReady, JoinedFor, Joined
  <1>12. CASE DoNewGame
    BY <1>12, <1>t DEF DoNewGame, JoinedFor, Joined
  <1>13. CASE DoBench
    BY <1>13, <1>t DEF DoBench, JoinedFor, Joined
  <1>14. CASE DoResize
    BY <1>14, <1>t DEF DoResize, JoinedFor, Joined
  <1>15. CASE DoQuit
    BY <1>15, <1>t DEF DoQuit, JoinedFor, Joined
  <1>16. CASE ShortCircuit
    BY <1>16, <1>t DEF ShortCircuit, UnchangedByCoordinator, Write
  <1>17. CASE BookHit
    BY <1>17, <1>t DEF BookHit, UnchangedByCoordinator
  <1>18. CASE StartSearch
    BY <1>18, <1>t DEF StartSearch, UnchangedByCoordinator
  <1>19. CASE SearchEnds
    BY <1>19, <1>t DEF SearchEnds, UnchangedByCoordinator
  <1>20. CASE LimitReached
    BY <1>20, <1>t DEF LimitReached, UnchangedByCoordinator
  <1>21. CASE HoldOver
    BY <1>21, <1>t DEF HoldOver, UnchangedByCoordinator, Release
  <1>22. CASE BookHoldOver
    BY <1>22, <1>t DEF BookHoldOver, UnchangedByCoordinator, Release
  <1>23. CASE CheckSuppress
    BY <1>23, <1>t DEF CheckSuppress, UnchangedByCoordinator
  <1>24. CASE Reply
    BY <1>24, <1>t DEF Reply, UnchangedByCoordinator, Write
  <1>25. CASE UNCHANGED vars
    BY <1>25 DEF vars
  <1> QED
    BY <1>1, <1>2, <1>3, <1>4, <1>5, <1>6, <1>7, <1>8, <1>9, <1>10, <1>11, <1>12,
       <1>13, <1>14, <1>15, <1>16, <1>17, <1>18, <1>19, <1>20, <1>21, <1>22, <1>23,
       <1>24, <1>25
    DEF Next, Gui, DriverWork, Coordinator, Exited

-----------------------------------------------------------------------------
\* The invariant of the session, for every bound and every GUI.
THEOREM Inductive == Spec => []IInv
  <1>1. IInv /\ [Next]_vars => IInv'
    BY TypeStep, SpawnedStep, CountedStep, HeldStep, ProtocolStep DEF IInv
  <1> QED
    BY InitIInv, <1>1, PTL DEF Spec

\* Types of the driver's, the coordinator's and the bookkeeping variables; no
\* command sequence indexes before the first move of the retained position.
THEOREM TypeCorrect == Spec => []TypeOK
  BY Inductive, PTL DEF IInv

\* One bestmove per go of a GUI that keeps the protocol, unless a short-circuit
\* answered: Stochastic_Ponder runs two searches for the one go.
THEOREM OneReplyAlways == Spec => []OneReply
  <1>1. IInv => OneReply
    BY DEF IInv, Protocol, OneReply
  <1> QED
    BY Inductive, <1>1, PTL

\* A searched go ponder is answered after stop or ponderhit, a go infinite after
\* either or its own limit; and after a ponderhit the answer is for the board.
THEOREM RepliesAreRight == Spec => RepliesRight
  <1>1. ASSUME IInv, [Next]_vars
        PROVE  /\ \A a \in Asks :
                    Answers(a) /\ cur.ask = a /\ a \notin shortcut'
                      => /\ cur.limits.ponder => a \in stopSent \cup hits
                         /\ cur.limits.infinite => a \in stopSent \cup hits \cup selfStop
               /\ polite => \A a \in hits :
                    Answers(a) /\ a \notin shortcut' => cur.root = last
    <2> USE DEF driverVars, optionVars, searchVars, replyVars, guiVars
    <2>1. CASE UNCHANGED replies
      <3>1. TypeOK
        BY <1>1 DEF IInv
      <3>2. \A a \in Asks : ~Answers(a)
        BY <2>1, <3>1 DEF Answers, TypeOK
      <3> QED
        BY <3>1, <3>2 DEF TypeOK
    <2>2. CASE ShortCircuit
      <3>1. TypeOK /\ cur.ask \in shortcut'
        BY <1>1, <2>2 DEF IInv, ShortCircuit
      <3>2. \A a \in Asks : Answers(a) => a = cur.ask
        BY <2>2, <3>1 DEF Answers, TypeOK, ShortCircuit, Write
      <3> QED
        BY <3>1, <3>2 DEF TypeOK
    <2>3. CASE Reply
      <3>1. TypeOK /\ cpc = "reply" /\ UNCHANGED shortcut
        BY <1>1, <2>3 DEF IInv, Reply
      <3>2. \A a \in Asks : Answers(a) => a = cur.ask
        BY <2>3, <3>1 DEF Answers, TypeOK, Reply, Write
      <3>3. /\ cur.limits.ponder => Released(cur.ask)
            /\ cur.limits.infinite => Released(cur.ask) \/ cur.ask \in selfStop
        BY <1>1, <3>1 DEF IInv, Held, Busy
      <3>4. polite /\ cur.ask \in hits /\ cur.ask \notin shortcut => cur.root = last
        BY <1>1, <3>1 DEF IInv, Protocol, OnTheBoard, Silenced, Busy, Joins
      <3> QED
        BY <3>1, <3>2, <3>3, <3>4 DEF Released, TypeOK
    <2>4. CASE DoGo /\ ~loaded
      <3>1. TypeOK /\ cur = NoSearch /\ asks \notin hits /\ asks \in Asks
        BY <1>1, <2>4 DEF IInv, Spawned, DoGo, Joined, Joins
      <3>2. \A a \in Asks : Answers(a) => a = asks
        BY <2>4, <3>1 DEF Answers, TypeOK, DoGo, Start
      <3>3. cur.ask = 0 /\ 0 \notin Asks
        BY <3>1 DEF NoSearch, Asks
      <3> QED
        BY <3>1, <3>2, <3>3 DEF TypeOK
    <2>5. DoReissue => UNCHANGED replies
      BY <1>1, Reissued DEF IInv, ReissueEffect
    <2> QED
      BY <1>1, <2>1, <2>2, <2>3, <2>4, <2>5
      DEF Next, Gui, DriverWork, Coordinator, Exited, vars, SendPosition,
          SendStochastic,
          SendGo, SendSync, SendQuit, SendStop, SendStochasticPonderhit, SendPonderhit,
          DoGo, Start, DoReady, DoNewGame, DoBench, DoResize, DoQuit, JoinedFor, BookHit,
          StartSearch, SearchEnds, LimitReached, HoldOver, BookHoldOver, CheckSuppress
  <1>2. Spec => HeldUntilReleased
    BY Inductive, <1>1, PTL DEF Spec, HeldUntilReleased
  <1>3. Spec => AnsweredOnTheBoard
    BY Inductive, <1>1, PTL DEF Spec, AnsweredOnTheBoard
  <1> QED
    BY <1>2, <1>3 DEF RepliesRight
=============================================================================
