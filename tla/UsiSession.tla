----------------------------- MODULE UsiSession -----------------------------
(***************************************************************************)
(* One USI session of attic-protocol/src/driver.rs: the GUI's commands,    *)
(* the driver that executes them one at a time, and the coordinator thread *)
(* that answers each go with a bestmove while the driver reads on.  The    *)
(* modes of a go (ponder, infinite, bounded), the Stochastic_Ponder rewind *)
(* and re-issue, the stop, ponder and suppress flags, and every            *)
(* short-circuit of run_coordinated are modelled; the helpers behind the   *)
(* coordinator are HelperPool's business.                                  *)
(*                                                                         *)
(* The game is one line of play: a position is named by the number of its  *)
(* moves the last position command gave.                                   *)
(***************************************************************************)
EXTENDS Naturals

CONSTANTS MaxMoves,   \* longest position command
          MaxAsks,    \* bound on the go commands the GUI sends
          MaxSearch,  \* bound on the searches, re-issued ones included
          MaxRude     \* the same, for a GUI that ignores the protocol

ASSUME BoundsAssumption ==
    MaxMoves \in Nat /\ MaxAsks \in Nat /\ MaxSearch \in Nat /\ MaxRude \in 0..MaxSearch

Plies == 0..MaxMoves
Asks == 1..MaxAsks

(***************************************************************************)
(* GoLimits, as far as the reply's timing depends on them.  "bounded": a   *)
(* clock, movetime or node ceiling that check_time enforces by raising the *)
(* shared stop flag (request_abort); a search may also just finish, at its *)
(* depth limit or on a mate, and then leaves the flag alone.               *)
(***************************************************************************)
Modes == [ponder : BOOLEAN, infinite : BOOLEAN, bounded : BOOLEAN]

NoMode == [ponder |-> FALSE, infinite |-> FALSE, bounded |-> FALSE]

VARIABLES
    polite,     \* the GUI keeps to the order of the USI protocol
    dpc,        \* the driver: "idle", "join" (in finish_search_join) or "exited"
    pending,    \* the command that joined: "go", "reissue", "sync", "quit"
    mode,       \* the limits of that go
    loaded,     \* a network is loaded (self.eval)
    stochastic, \* the Stochastic_Ponder option
    pos,        \* self.pos
    last,       \* self.last_position
    lastGo,     \* self.last_go (None only while no search exists)
    searches,   \* number of coordinators spawned: the latest one's name
    asks,       \* number of go commands received: the latest one's name
    cur,        \* the latest search: the ask it serves, its root, its limits
    cpc,        \* where its coordinator stands; "none" = no ActiveSearch
    stop,       \* its stop flag
    ponder,     \* its PonderSignal: active
    suppress,   \* its suppress_bestmove flag
    replies,    \* replies[a]: the bestmove lines written for ask a
    stopSent,   \* asks whose search the GUI has told to stop
    hits,       \* asks whose ponder the GUI has told to be hit
    shortcut,   \* asks answered by a short-circuit of the latest search
    selfStop,   \* asks whose search raised its own stop flag
    answered    \* the root of the latest bestmove, per ask

driverVars == <<dpc, pending, mode, pos, last, lastGo>>
optionVars == <<polite, loaded, stochastic>>
searchVars == <<searches, cur, cpc, stop, ponder, suppress>>
replyVars == <<replies, shortcut, selfStop, answered>>
guiVars == <<asks, stopSent, hits>>
vars == <<driverVars, optionVars, searchVars, replyVars, guiVars>>

NoSearch == [ask |-> 0, root |-> 0, limits |-> NoMode]

Init ==
    /\ polite \in BOOLEAN
    /\ dpc = "idle" /\ pending = "sync" /\ mode = NoMode
    /\ loaded = FALSE /\ stochastic = FALSE
    /\ pos = 0 /\ last = 0
    /\ lastGo = NoMode
    /\ searches = 0 /\ asks = 0
    /\ cur = NoSearch /\ cpc = "none"
    /\ stop = FALSE /\ ponder = FALSE /\ suppress = FALSE
    /\ replies = [a \in Asks |-> 0]
    /\ answered = [a \in Asks |-> 0]
    /\ stopSent = {} /\ hits = {} /\ shortcut = {} /\ selfStop = {}

-----------------------------------------------------------------------------
(***************************************************************************)
(* The GUI, polite or not for the whole session.  A polite one waits for the bestmove of a go before it sends   *)
(* anything but stop, ponderhit or quit, sends stop or ponderhit only to a *)
(* search it waits for, at most one ponderhit and none after a stop, and   *)
(* sends a position before every go.                                       *)
(***************************************************************************)
Waiting == asks > 0 /\ replies[asks] = 0
MaySend == polite => ~Waiting
MayStop == polite => Waiting
MaySearch == searches < (IF polite THEN MaxSearch ELSE MaxRude)
MayPonderhit == polite => Waiting /\ lastGo.ponder /\ asks \notin stopSent \cup hits

\* handle_position: a malformed line changes nothing; a good one replaces both
\* the position and the retained command, and waits for no search.
SendPosition ==
    /\ dpc = "idle" /\ MaySend
    /\ \E n \in Plies : pos' = n /\ last' = n
    /\ UNCHANGED <<dpc, pending, mode, lastGo, optionVars, searchVars,
                   replyVars, asks, stopSent, hits>>

\* setoption name Stochastic_Ponder.
SendStochastic ==
    /\ dpc = "idle" /\ MaySend
    /\ stochastic' = ~stochastic
    /\ UNCHANGED <<polite, loaded, driverVars, searchVars, replyVars, guiVars>>

\* finish_search_join, first half: raise the stop flag, wait for the thread.
Joining(command) ==
    /\ dpc' = "join"
    /\ pending' = command
    /\ stop' = (cpc # "none" \/ stop)
    /\ stopSent' = IF cpc = "none" \/ command = "reissue"
                   THEN stopSent ELSE stopSent \cup {cur.ask}

SendGo ==
    /\ dpc = "idle" /\ MaySend
    /\ asks < MaxAsks /\ MaySearch
    /\ polite => pos = last
    /\ asks' = asks + 1
    /\ mode' \in Modes
    /\ Joining("go")
    /\ UNCHANGED <<pos, last, lastGo, optionVars, searches, cur, cpc,
                   ponder, suppress, replyVars, hits>>

\* isready, usinewgame, setoption Threads / USI_Hash / NumaPolicy, bench.
SendSync ==
    /\ dpc = "idle" /\ MaySend
    /\ Joining("sync")
    /\ UNCHANGED <<mode, pos, last, lastGo, optionVars, searches, cur,
                   cpc, ponder, suppress, replyVars, asks, hits>>

\* quit, the end of the input, or a NumaPolicy that names no node: the process
\* exits once the search is joined.
SendQuit ==
    /\ dpc = "idle"
    /\ Joining("quit")
    /\ UNCHANGED <<mode, pos, last, lastGo, optionVars, searches, cur,
                   cpc, ponder, suppress, replyVars, asks, hits>>

\* stop, gameover: set the flag of the search that is still Some.
SendStop ==
    /\ dpc = "idle" /\ MayStop
    /\ cpc # "none"
    /\ stop' = TRUE
    /\ stopSent' = stopSent \cup {cur.ask}
    /\ UNCHANGED <<driverVars, optionVars, searches, cur, cpc, ponder, suppress,
                   replyVars, asks, hits>>

\* ponderhit under Stochastic_Ponder for a go ponder: silence the rewound
\* search, stop it, and re-issue the go once it is joined.
SendStochasticPonderhit ==
    /\ dpc = "idle" /\ MayPonderhit
    /\ stochastic /\ cpc # "none" /\ cur.limits.ponder
    /\ MaySearch
    /\ suppress' = TRUE
    /\ hits' = hits \cup {cur.ask}
    /\ Joining("reissue")
    /\ UNCHANGED <<mode, pos, last, lastGo, optionVars, searches, cur,
                   cpc, ponder, replyVars, asks>>

\* Mutant of SendPonderhit: the flag of a pondering search stays up.
SendPonderhitLost ==
    /\ dpc = "idle" /\ MayPonderhit
    /\ cpc # "none"
    /\ ~(stochastic /\ cur.limits.ponder)
    /\ stop' = (stop \/ ~cur.limits.ponder)
    /\ hits' = hits \cup {cur.ask}
    /\ UNCHANGED <<driverVars, optionVars, searches, cur, cpc, ponder, suppress,
                   replyVars, asks, stopSent>>

\* Any other ponderhit clears the ponder flag, or stands for a stop when the
\* search never pondered.
SendPonderhit ==
    /\ dpc = "idle" /\ MayPonderhit
    /\ cpc # "none"
    /\ ~(stochastic /\ cur.limits.ponder)
    /\ ponder' = FALSE
    /\ stop' = (stop \/ ~cur.limits.ponder)
    /\ hits' = hits \cup {cur.ask}
    /\ UNCHANGED <<driverVars, optionVars, searches, cur, cpc, suppress,
                   replyVars, asks, stopSent>>

-----------------------------------------------------------------------------
\* The driver, once finish_search_join has the coordinator's result.

\* Mutant of Rewound: an empty move list is rewound too.
RewoundBlindly(limits, from) ==
    IF limits.ponder /\ stochastic THEN last - 1 ELSE from

\* apply_stochastic_ponder_rewind: the retained position less its last move.
Rewound(limits, from) ==
    IF limits.ponder /\ stochastic /\ last > 0 THEN last - 1 ELSE from

\* handle_go after its join: rewind under Stochastic_Ponder, then either spawn
\* a coordinator or, with no network, reply resign at once.
Start(limits, from, ask) ==
    LET root == Rewound(limits, from)
    IN  /\ pos' = root
        /\ lastGo' = limits
        /\ IF loaded
           THEN /\ searches' = searches + 1
                /\ cur' = [ask |-> ask, root |-> root, limits |-> limits]
                /\ cpc' = "start"
                /\ stop' = FALSE /\ suppress' = FALSE
                /\ ponder' = limits.ponder
                /\ UNCHANGED replyVars
           ELSE /\ cpc' = "none"
                /\ replies' = [replies EXCEPT ![ask] = @ + 1]
                /\ answered' = [answered EXCEPT ![ask] = root]
                /\ UNCHANGED <<searches, cur, stop, suppress, ponder,
                               shortcut, selfStop>>

Joined == dpc = "join" /\ cpc \in {"none", "done"}

DoGo ==
    /\ Joined /\ pending = "go"
    /\ Start(mode, pos, asks)
    /\ dpc' = "idle"
    /\ UNCHANGED <<pending, mode, last, optionVars, asks, stopSent, hits>>

\* Mutant of DoReissue: the go is re-issued on the rewound position.
DoReissueRewound ==
    /\ Joined /\ pending = "reissue"
    /\ Start([lastGo EXCEPT !.ponder = FALSE], pos, cur.ask)
    /\ dpc' = "idle"
    /\ UNCHANGED <<pending, mode, last, optionVars, asks, stopSent, hits>>

\* stochastic_ponderhit after its join: back to the retained position, and the
\* last go again without its ponder.
DoReissue ==
    /\ Joined /\ pending = "reissue"
    /\ Start([lastGo EXCEPT !.ponder = FALSE], last, cur.ask)
    /\ dpc' = "idle"
    /\ UNCHANGED <<pending, mode, last, optionVars, asks, stopSent, hits>>

JoinedFor(command) ==
    /\ Joined /\ pending = command
    /\ cpc' = "none"
    /\ UNCHANGED <<polite, pending, mode, stochastic, searches, cur, stop, ponder, suppress,
                   replyVars, asks, stopSent, hits>>

\* isready loads a network, or fails and keeps what was there.
DoReady ==
    /\ JoinedFor("sync")
    /\ dpc' = "idle"
    /\ loaded' \in {loaded, TRUE}
    /\ UNCHANGED <<pos, last, lastGo>>

\* usinewgame: back to the start position, and the last go is forgotten.
DoNewGame ==
    /\ JoinedFor("sync")
    /\ dpc' = "idle"
    /\ pos' = 0 /\ last' = 0 /\ lastGo' = NoMode
    /\ UNCHANGED loaded

\* bench includes a usinewgame and leaves its own last position on the board;
\* its searches run on the driver's thread and answer no go.
DoBench ==
    /\ JoinedFor("sync")
    /\ dpc' = "idle"
    /\ pos' \in Plies /\ last' = 0 /\ lastGo' = NoMode
    /\ UNCHANGED loaded

\* setoption Threads, USI_Hash or NumaPolicy: nothing a reply depends on.
DoResize ==
    /\ JoinedFor("sync")
    /\ dpc' = "idle"
    /\ UNCHANGED <<pos, last, lastGo, loaded>>

DoQuit ==
    /\ JoinedFor("quit")
    /\ dpc' = "exited"
    /\ UNCHANGED <<pos, last, lastGo, loaded>>

DriverWork ==
    \/ DoGo \/ DoReissue \/ DoReady \/ DoNewGame \/ DoBench \/ DoResize \/ DoQuit

-----------------------------------------------------------------------------
\* run_coordinated.

Write(a) ==
    /\ replies' = [replies EXCEPT ![a] = @ + 1]
    /\ answered' = [answered EXCEPT ![a] = cur.root]

UnchangedByCoordinator ==
    UNCHANGED <<driverVars, optionVars, asks, stopSent, hits>>

\* No legal move, or a declaration win: bestmove resign / win at once, whatever
\* the flags say.  A root the game has moved on from has a legal move.
ShortCircuit ==
    /\ cpc = "start"
    /\ \E o \in {"noMove", "win"} : o = "noMove" => cur.root >= last
    /\ Write(cur.ask)
    /\ shortcut' = shortcut \cup {cur.ask}
    /\ cpc' = "done"
    /\ UNCHANGED <<searches, cur, stop, ponder, suppress, selfStop>>
    /\ UnchangedByCoordinator

BookHit ==
    /\ cpc = "start"
    /\ cpc' = "bookHold"
    /\ UNCHANGED <<searches, cur, stop, ponder, suppress, replyVars>>
    /\ UnchangedByCoordinator

StartSearch ==
    /\ cpc = "start"
    /\ cpc' = "search"
    /\ UNCHANGED <<searches, cur, stop, ponder, suppress, replyVars>>
    /\ UnchangedByCoordinator

\* The main worker returns: its depth limit, a mate, or the stop flag.
SearchEnds ==
    /\ cpc = "search"
    /\ cpc' = "hold"
    /\ UNCHANGED <<searches, cur, stop, ponder, suppress, replyVars>>
    /\ UnchangedByCoordinator

\* check_time finds the clock or the node count spent: request_abort raises the
\* flag the coordinator and the GUI's stop share.
LimitReached ==
    /\ cpc = "search"
    /\ cur.limits.bounded /\ ~ponder /\ ~stop
    /\ stop' = TRUE
    /\ selfStop' = selfStop \cup {cur.ask}
    /\ cpc' = "hold"
    /\ UNCHANGED <<searches, cur, ponder, suppress, replies, shortcut,
                   answered>>
    /\ UnchangedByCoordinator

\* Mutant of Release: the wait ignores stop.
ReleaseDeaf == ~(ponder \/ cur.limits.infinite)

\* The SKIP_SEARCH wait loops end.
Release == stop \/ ~(ponder \/ cur.limits.infinite)

\* After the loop: stop and collect the helpers and vote.
HoldOver ==
    /\ cpc = "hold" /\ Release
    /\ stop' = TRUE
    /\ cpc' = "check"
    /\ UNCHANGED <<searches, cur, ponder, suppress, replies, shortcut, selfStop,
                   answered>>
    /\ UnchangedByCoordinator

BookHoldOver ==
    /\ cpc = "bookHold" /\ Release
    /\ cpc' = "check"
    /\ UNCHANGED <<searches, cur, stop, ponder, suppress, replyVars>>
    /\ UnchangedByCoordinator

\* Mutant of CheckSuppress: the flag is not read.
CheckNothing ==
    /\ cpc = "check"
    /\ cpc' = "reply"
    /\ UNCHANGED <<searches, cur, stop, ponder, suppress, replyVars>>
    /\ UnchangedByCoordinator

\* suppress_bestmove is read once, just before the line is written.
CheckSuppress ==
    /\ cpc = "check"
    /\ cpc' = IF suppress THEN "done" ELSE "reply"
    /\ UNCHANGED <<searches, cur, stop, ponder, suppress, replyVars>>
    /\ UnchangedByCoordinator

Reply ==
    /\ cpc = "reply"
    /\ Write(cur.ask)
    /\ cpc' = "done"
    /\ UNCHANGED <<searches, cur, stop, ponder, suppress, shortcut, selfStop>>
    /\ UnchangedByCoordinator

Coordinator ==
    \/ ShortCircuit \/ BookHit \/ StartSearch \/ SearchEnds \/ LimitReached
    \/ HoldOver \/ BookHoldOver \/ CheckSuppress \/ Reply

Gui ==
    \/ SendPosition \/ SendStochastic \/ SendGo \/ SendSync \/ SendQuit
    \/ SendStop \/ SendStochasticPonderhit \/ SendPonderhit

Exited == dpc = "exited" /\ UNCHANGED vars

Next == Gui \/ DriverWork \/ Coordinator \/ Exited

Spec == Init /\ [][Next]_vars

-----------------------------------------------------------------------------
(***************************************************************************)
(* Fairness.  The driver and the coordinator keep running; a search is     *)
(* only obliged to end once it is told to stop, or once it is bounded and  *)
(* no longer pondering.  The GUI owes nothing.                             *)
(***************************************************************************)
SearchMustEnd == stop \/ (cur.limits.bounded /\ ~ponder)

CoordProgress ==
    \/ ShortCircuit \/ BookHit \/ StartSearch
    \/ SearchMustEnd /\ (SearchEnds \/ LimitReached)
    \/ HoldOver \/ BookHoldOver \/ CheckSuppress \/ Reply

FairSpec == Spec /\ WF_vars(DriverWork) /\ WF_vars(CoordProgress)

-----------------------------------------------------------------------------
\* Types of the driver's, the coordinator's and the bookkeeping variables.
TypeOK ==
    /\ polite \in BOOLEAN
    /\ dpc \in {"idle", "join", "exited"}
    /\ pending \in {"go", "reissue", "sync", "quit"}
    /\ mode \in Modes /\ lastGo \in Modes
    /\ loaded \in BOOLEAN /\ stochastic \in BOOLEAN
    /\ pos \in Plies /\ last \in Plies
    /\ searches \in 0..MaxSearch /\ asks \in 0..MaxAsks
    /\ cur \in [ask : 0..MaxAsks, root : Plies, limits : Modes]
    /\ cpc \in {"none", "start", "bookHold", "search", "hold", "check", "reply", "done"}
    /\ stop \in BOOLEAN /\ ponder \in BOOLEAN /\ suppress \in BOOLEAN
    /\ replies \in [Asks -> 0..MaxSearch] /\ answered \in [Asks -> Plies]
    /\ stopSent \in SUBSET Asks /\ hits \in SUBSET Asks
    /\ shortcut \in SUBSET Asks /\ selfStop \in SUBSET Asks

Answers(a) == replies'[a] > replies[a]

\* One bestmove per go: the doc of stochastic_ponderhit promises a single reply
\* although two searches run for the one go.  Holds for every go of a polite GUI
\* whose searches were not answered by a short-circuit: suppress_bestmove does
\* not silence those.
OneReply == polite => \A a \in Asks : replies[a] <= 1 \/ a \in shortcut

\* The reply of a searched or book-answered go ponder is withheld until the
\* GUI sends stop or ponderhit; that of a go infinite until it sends stop, or
\* ponderhit, or the search's own limit raises the shared stop flag.
HeldUntilReleased ==
    [][\A a \in Asks :
          Answers(a) /\ cur.ask = a /\ a \notin shortcut'
             => /\ cur.limits.ponder => a \in stopSent \cup hits
                /\ cur.limits.infinite => a \in stopSent \cup hits \cup selfStop]_vars

\* After a ponderhit a polite GUI is answered for the position it really has on
\* the board, never for the rewound one Stochastic_Ponder pondered on.
AnsweredOnTheBoard ==
    [][polite => \A a \in hits : Answers(a) /\ a \notin shortcut' => cur.root = last]_vars

\* When a reply may be written, and for which position: the two together.
RepliesRight == HeldUntilReleased /\ AnsweredOnTheBoard

\* No command blocks the driver for ever: whatever the GUI sends, in whatever
\* order, finish_search_join returns, because every wait of the coordinator,
\* the book's as well as the search's, ends on the stop flag.
NeverBlocked == (dpc = "join") ~> (dpc # "join")

\* A go told to stop is answered, whatever it was doing: pondering, holding a
\* book move, searching, or being re-issued.
StopIsAnswered == \A a \in Asks : (polite /\ a \in stopSent) ~> replies[a] > 0

\* A bounded go that nothing holds back is answered, and so is a bounded
\* go ponder after its ponderhit, the re-issued one included.
BoundedIsAnswered ==
    \A a \in Asks :
        (polite /\ cur.ask = a /\ cur.limits.bounded /\ ~cur.limits.infinite
            /\ (cur.limits.ponder => a \in hits)) ~> replies[a] > 0

\* Every go that is due a reply gets one: told to stop, or bounded and not held.
Answered == StopIsAnswered /\ BoundedIsAnswered
=============================================================================
