----------------------------- MODULE MCServices -----------------------------
(***************************************************************************)
(* The services around the search, each in behaviours of its own: the      *)
(* accumulators, the histories, the book, the set-up of the engine, the    *)
(* outcome of a go, its time budget and its last lines. `part` names the   *)
(* one that runs; the variables of the others hold <<>>.                   *)
(***************************************************************************)
EXTENDS Accumulator, Book, Histories, EngineSetup, SearchOutcome, TimeBudget,
        PvLines

VARIABLE part

EvalIdle == pos = <<>> /\ line = <<>> /\ acc = <<>> /\ finny = <<>> /\ nodes = <<>>
HistIdle ==
    /\ stack = <<>> /\ private = <<>> /\ shared = <<>> /\ todo = <<>>
    /\ loaded = <<>> /\ fill = <<>> /\ events = <<>>
BookIdle == disk = <<>> /\ signature = <<>> /\ library = <<>> /\ probed = <<>>
SetupIdle ==
    /\ machine = <<>> /\ options = <<>> /\ fixed = <<>> /\ numaConfig = <<>> /\ numaBound = <<>>
    /\ workerShared = <<>> /\ histories = <<>> /\ workerNetworks = <<>> /\ eval = <<>>
    /\ ttSize = <<>> /\ pool = <<>> /\ search = <<>> /\ isready = <<>> /\ overrides = <<>>
    /\ keepAlive = <<>> /\ lastLine = <<>> /\ exited = <<>>
OutcomeIdle == game = <<>> /\ carry = <<>> /\ go = <<>> /\ gos = <<>>
TimeIdle ==
    input = <<>> /\ budget = <<>> /\ decided = <<>> /\ hitAfter = <<>> /\ endTime = <<>>
PvIdle == report = <<>> /\ final = <<>> /\ walk = <<>> /\ shown = <<>> /\ reply = <<>>

Init ==
    \/ part = "eval" /\ EvalInit
       /\ HistIdle /\ BookIdle /\ SetupIdle /\ OutcomeIdle /\ TimeIdle /\ PvIdle
    \/ part = "histories" /\ HistInit
       /\ EvalIdle /\ BookIdle /\ SetupIdle /\ OutcomeIdle /\ TimeIdle /\ PvIdle
    \/ part = "book" /\ BookInit
       /\ EvalIdle /\ HistIdle /\ SetupIdle /\ OutcomeIdle /\ TimeIdle /\ PvIdle
    \/ part = "setup" /\ SetupInit
       /\ EvalIdle /\ HistIdle /\ BookIdle /\ OutcomeIdle /\ TimeIdle /\ PvIdle
    \/ part = "outcome" /\ OutcomeInit
       /\ EvalIdle /\ HistIdle /\ BookIdle /\ SetupIdle /\ TimeIdle /\ PvIdle
    \/ part = "time" /\ BudgetInit
       /\ EvalIdle /\ HistIdle /\ BookIdle /\ SetupIdle /\ OutcomeIdle /\ PvIdle
    \/ part = "pv" /\ PvInit
       /\ EvalIdle /\ HistIdle /\ BookIdle /\ SetupIdle /\ OutcomeIdle /\ TimeIdle

Next ==
    /\ part' = part
    /\ \/ /\ part = "eval" /\ EvalNext
          /\ UNCHANGED <<histVars, bookVars, setupVars, outcomeVars, budgetVars, pvVars>>
       \/ /\ part = "histories" /\ HistNext
          /\ UNCHANGED <<evalVars, bookVars, setupVars, outcomeVars, budgetVars, pvVars>>
       \/ /\ part = "book" /\ BookNext
          /\ UNCHANGED <<evalVars, histVars, setupVars, outcomeVars, budgetVars, pvVars>>
       \/ /\ part = "setup" /\ SetupNext
          /\ UNCHANGED <<evalVars, histVars, bookVars, outcomeVars, budgetVars, pvVars>>
       \/ /\ part = "outcome" /\ OutcomeNext
          /\ UNCHANGED <<evalVars, histVars, bookVars, setupVars, budgetVars, pvVars>>
       \/ /\ part = "time" /\ Decide
          /\ UNCHANGED <<evalVars, histVars, bookVars, setupVars, outcomeVars, pvVars>>
       \/ /\ part = "pv" /\ PvNext
          /\ UNCHANGED <<evalVars, histVars, bookVars, setupVars, outcomeVars, budgetVars>>

Spec ==
    Init /\ [][Next]_<<part, evalVars, histVars, bookVars, setupVars, outcomeVars, budgetVars, pvVars>>

----------------------------------------------------------------------------
(* Properties, each of the part that runs.                                 *)

(* The accumulators of the search's stack are those of its positions. *)
EvalExact == part = "eval" => AccumulatorExact

(* The histories stay within their bounds and in their tables. *)
LearnsSound == part = "histories" => HistoriesSound

(* The book answers what its files say. *)
BookRight == part = "book" => BookAnswers

(* Options, threads, tables and networks agree. *)
SetupRight == part = "setup" => SetupSound

(* The vote, the carried score and the declaration are right. *)
GoRight == part = "outcome" => OutcomeRight

(* The budget and the end time of a go are within its clock. *)
TimeRight == part = "time" => BudgetRight

(* The lines shown last and the reply are legal play and tell the same story. *)
LastLinesRight == part = "pv" => EndRight

----------------------------------------------------------------------------
(* Positions on three by three squares, a zone of one rank.                *)

At(f, r) == SquareAt(f, r)
B(k) == Piece(k, Black)
W(k) == Piece(k, White)
Placed(squares, hand, stm) == [board |-> BoardOf(squares), hands |-> hand, stm |-> stm]
Hold(b, w) == [c \in Colors |-> [k \in HandKinds |-> IF k = (IF c = Black THEN b ELSE w) THEN 1 ELSE 0]]
AtPly(p, n) == [board |-> p.board, hands |-> p.hands, stm |-> p.stm, ply |-> n]

Corner == (At(1,2) :> B("King")) @@ (At(2,1) :> B("Silver")) @@ (At(0,0) :> W("King"))
              @@ (At(2,0) :> W("Pawn"))

(* Kings, a promoting piece and hands meet in one, the other is played on    *)
(* both sides of the middle file.                                           *)
MCStarts ==
    {Placed(Corner, Hold("Knight", "Lance"), Black),
     Placed((At(2,2) :> B("King")) @@ (At(0,0) :> W("Pawn")) @@ (At(1,0) :> W("King")),
              Hold("Lance", "Knight"), White)}

(* A king beside the try square with a handicap, a handicap that moves first. *)
MCGames ==
    {AtPly(Placed((At(0,1) :> B("King")) @@ (At(1,2) :> B("Lance")) @@ (At(1,0) :> W("Pawn"))
                        @@ (At(2,2) :> W("King")), Hold("None", "None"), Black), 1),
     AtPly(Placed((At(0,0) :> B("King")) @@ (At(1,2) :> W("Bishop")) @@ (At(2,2) :> W("King")),
                    Hold("None", "None"), White), 1)}

----------------------------------------------------------------------------
(* Books: a whole one, one with other plies and a turned position, a broken  *)
(* and a torn one, under the names of a series and of its fallback.         *)

P0 == AtPly(Placed(Corner, Hold("Gold", "None"), Black), 1)
KingAside == Mv(At(1,2), At(0,2), B("King"))
Take == MvPromote(At(2,1), At(2,0), B("Silver"))
GoldCheck == MvDrop("Gold", Black, At(1,1))
PawnTakes == Mv(At(2,0), At(2,1), W("Pawn"))
P1 == Child(P0, KingAside)
P2 == Child(P1, PawnTakes)

Record(m, v, d) == [move16 |-> Move16(m), value |-> v, depth |-> d]
Nowhere == Mv(At(0,1), At(1,1), B("King"))
Index(p, ply, off, n) == [packed |-> Packed(p), ply |-> ply, offset |-> off, moveCount |-> n]
Sorted(recs) == SortSeq(recs, LAMBDA a, b : Less(a.packed, b.packed))
Whole ==
    [head |-> "whole", count |-> 3, depths |-> TRUE,
     index |-> Sorted(<<Index(P0, 1, 0, 4), Index(P1, 2, 4, 1), Index(P2, 3, 5, 1)>>),
     moves |-> <<Record(GoldCheck, 30, 4), Record(Nowhere, 90, 9), Record(KingAside, 50, 2),
                 Record(Take, -10, 7), Record(PawnTakes, 0, 1), Record(GoldCheck, 5, 1)>>]
Later ==
    [Whole EXCEPT !.depths = FALSE,
        !.index = Sorted(<<Index(P0, 5, 2, 1), Index(Flipped(P1), 2, 0, 0), Index(P2, 3, 0, 1)>>)]
Broken == [Whole EXCEPT !.index = SubSeq(Reverse(@), 1, 2), !.moves = <<>>]
Torn == [Whole EXCEPT !.moves = SubSeq(@, 1, 3)]

Name(i, e) == [index |-> i, ext |-> e]
MCDisks ==
    {Name(-1, "ybb") :> Whole,
     (Name(0, "ybb") :> Later) @@ (Name(0, "db") :> Whole) @@ (Name(2, "ybb") :> Torn)
         @@ (Name(-1, "ybb") :> Whole),
     (Name(0, "ybb") :> Broken) @@ (Name(1, "ybb") :> Torn) @@ (Name(-1, "db") :> Whole)}

Reading(e, fly, ign) == [base |-> Name(-1, e), onTheFly |-> fly, ignorePly |-> ign]
MCBookOptions ==
    {Reading("ybb", FALSE, FALSE), Reading("ybb", TRUE, TRUE), Reading("db", TRUE, FALSE),
     Reading("none", FALSE, FALSE)}

Plain ==
    [v2 |-> FALSE, narrow |-> TRUE, bookMoves |-> 16, ignoreRate |-> 0, diff |-> 30,
     diffFor |-> [Black |-> 30, White |-> 100], limitFor |-> [Black |-> 0, White |-> -140],
     depth |-> 0, depthFor |-> [Black |-> 3, White |-> 0], consider |-> TRUE, pvMoves |-> 8,
     flipped |-> TRUE]
MCBookConfigs ==
    {Plain, [Plain EXCEPT !.v2 = TRUE, !.pvMoves = 0],
     [Plain EXCEPT !.flipped = FALSE, !.diff = 0, !.bookMoves = 1],
     [Plain EXCEPT !.ignoreRate = 25, !.limitFor = [Black |-> 40, White |-> 40]]}
MCRoots == {P0, [P0 EXCEPT !.ply = 3], Flipped(P0), P1, Flipped(P1)}

----------------------------------------------------------------------------
(* Two workers that learn, with bonuses at the ends of their ranges.        *)

Pc(k, promoted, white) == [kind |-> k, promoted |-> promoted, white |-> white]
Moved(p, to, raw, cap, promote) ==
    [piece |-> p, to |-> to, raw |-> raw, captured |-> cap, promote |-> promote]
At1(count, stat, check, hit) == [moveCount |-> count, statScore |-> stat, inCheck |-> check, ttHit |-> hit]
Learnt(d, tt, pv, worse, bonus) == [depth |-> d, isTT |-> tt, pv |-> pv, worse |-> worse, bonus |-> bonus]

RookMove == Moved(Pc(6, FALSE, FALSE), 0, 80, Nothing, FALSE)
MCScripts ==
    [w1 |-> [moves |-> {RookMove, Moved(Pc(0, TRUE, FALSE), 0, 81, Pc(5, TRUE, TRUE), TRUE),
                        Moved(Pc(7, FALSE, TRUE), 0, 83, Pc(6, FALSE, FALSE), FALSE)},
             profiles |-> {At1(1, -74366, FALSE, FALSE), At1(9, 74366, TRUE, TRUE)},
             outcomes |-> {Learnt(1, FALSE, FALSE, FALSE, -256), Learnt(246, TRUE, FALSE, TRUE, 256)},
             diffs |-> {-500, 500}, again |-> {[kind |-> "verify", ttHit |-> FALSE]}, plies |-> 2, events |-> 1],
     w2 |-> [moves |-> {RookMove}, profiles |-> {At1(1, -74366, FALSE, FALSE)},
             outcomes |-> {},
             diffs |-> {500}, again |-> {[kind |-> "singular", ttHit |-> FALSE]},
             plies |-> 1, events |-> 2]]

----------------------------------------------------------------------------
(* Machines with two nodes and pairs of CPUs on an L3, with two nodes and no *)
(* L3 files, and with no files and one usable CPU of two.                   *)

MCMachines ==
    {[listed |-> TRUE, online |-> <<0, 1>>, cpulist |-> (0 :> {0, 1, 2, 3}) @@ (1 :> {4, 5, 6, 7}),
      l3 |-> [c \in 0..7 |-> {2 * (c \div 2), 2 * (c \div 2) + 1}],
      allowed |-> 0..6, threads |-> 8],
     [listed |-> TRUE, online |-> <<0, 2>>, cpulist |-> (0 :> {0, 1, 2}) @@ (2 :> {2, 3}), l3 |-> <<>>,
      allowed |-> 0..3, threads |-> 4],
     [listed |-> FALSE, online |-> <<>>, cpulist |-> <<>>, l3 |-> <<>>, allowed |-> {0}, threads |-> 2]}

Policy(kind, groups) == [kind |-> kind, groups |-> groups]
MCDeclared ==
    [Threads |-> 2, USI_Hash |-> 4, NumaPolicy |-> Policy("auto", <<>>), EvalDir |-> "eval"]
Asked(o, spelled, v, valid) == [option |-> o, spelled |-> spelled, value |-> v, valid |-> valid]
MCRequests ==
    <<Asked("Threads", "exact", 3, TRUE), Asked("Threads", "exact", 0, FALSE),
      Asked("USI_Hash", "exact", 8, TRUE), Asked("USI_Hash", "other case", 8, TRUE),
      Asked("NumaPolicy", "other case", Policy("hardware", <<>>), TRUE),
      Asked("NumaPolicy", "exact", Policy("none", <<>>), TRUE),
      Asked("NumaPolicy", "exact", Policy("custom", <<<<0, 1>>, <<>>, <<2>>>>), TRUE),
      Asked("NumaPolicy", "exact", Policy("custom", <<<<0>>, <<0>>>>), TRUE),
      Asked("EvalDir", "exact", "nets", TRUE), Asked("EvalDir", "exact", "empty", TRUE)>>
MCOverrideFiles ==
    [d \in {"", "nets"} |->
        IF d = "" THEN <<Asked("Threads", "other case", 3, TRUE)>>
        ELSE <<Asked("NumaPolicy", "exact", Policy("custom", << <<>> >>), TRUE),
               Asked("USI_Hash", "exact", 0, FALSE), Asked("Nothing", "unknown", 0, FALSE)>>]

----------------------------------------------------------------------------
(* Thresholds of the small set, and reports that win, lose and decide       *)
(* nothing.                                                                 *)

MCPointTable ==
    [Point27H |-> [Black |-> 3, White |-> 3], Point24 |-> [Black |-> 4, White |-> 4]]
Vote(score, mv, len, depth) == [score |-> score, pv0 |-> mv, pvLen |-> len, depth |-> depth]
MCVotes ==
    {Vote(-32001, "a", 1, 0), Vote(40, "a", 3, 2), Vote(40, "a", 2, 2), Vote(55, "b", 3, 1),
     Vote(31990, "a", 3, 2), Vote(31994, "b", 2, 1), Vote(-31990, "a", 3, 2), Vote(-31995, "b", 3, 1)}

----------------------------------------------------------------------------
(* Clocks in milliseconds. Clocked gos; rtime and movetime bypass the plan  *)
(* and have inputs of their own.                                           *)

MCInputs ==
    [time : {0, 900, 5000, 60000, 600000}, inc : {0, 5000}, byoyomi : {0, 1000, 10000},
     movetime : {0}, rtime : {0}, jitter : {0},
     delay : {120, 1500}, delay2 : {0, 1120}, minThink : {1, 2000},
     slowMover : {70, 300}, fullSecond : BOOLEAN, ponderBonus : BOOLEAN,
     ply : {1, 60}, maxMoves : {61, 100000}]
    \cup
    [time : {5000}, inc : {0}, byoyomi : {1000},
     movetime : {0, 700}, rtime : {0, 100}, jitter : {0, 49},
     delay : {120}, delay2 : {1120}, minThink : {2000}, slowMover : {100},
     fullSecond : BOOLEAN, ponderBonus : {FALSE}, ply : {1}, maxMoves : {100000}]

----------------------------------------------------------------------------
(* Two kings that may go round, a pawn in hand, and what the table may hold: *)
(* their four moves, a drop, and a move of neither.                         *)

Round == Placed((At(2,2) :> B("King")) @@ (At(0,0) :> W("King")), Hold("Pawn", "None"), Black)
Frag(from, to, promote) == [drop |-> FALSE, from |-> from, to |-> to, promote |-> promote, kind |-> "None"]
MCStored ==
    {Frag(At(2,2), At(1,2), FALSE), Frag(At(0,0), At(1,0), FALSE), Frag(At(1,2), At(2,2), FALSE),
     Frag(At(1,0), At(0,0), FALSE), Frag(At(0,0), At(0,1), FALSE), Frag(At(1,2), At(1,1), TRUE),
     [drop |-> TRUE, from |-> 0, to |-> At(1,1), promote |-> FALSE, kind |-> "Pawn"]}

Aside == Mv(At(2,2), At(1,2), B("King"))
PawnDrop == MvDrop("Pawn", Black, At(1,1))
Answer == Mv(At(0,0), At(1,0), W("King"))
Forward == Mv(At(0,0), At(0,1), W("King"))
Searched(pv, v) == [pv |-> pv, score |-> v, uci |-> v, previous |-> 10, bound |-> "exact"]
Cut(pv, v) == [Searched(pv, v) EXCEPT !.bound = "lower"]
Unreached(pv, v) == [pv |-> pv, score |-> Unset, uci |-> v, previous |-> v, bound |-> "exact"]
Report(depth, idx, lines, candidates) ==
    [root : {Round}, best : {lines[1]}, lines : {lines}, pvIdx : {idx}, candidate : candidates,
     isMain : BOOLEAN, sent : BOOLEAN, depth : {depth}, all : {FALSE}, consider : BOOLEAN,
     resignAt : {10}]
MCReports ==
    UNION {Report(2, 3, <<line1, Searched(<<PawnDrop>>, -40)>>, {<<>>, <<Answer>>, <<Forward>>}) :
              line1 \in {Searched(<<Aside>>, 30), Searched(<<Aside>>, -30),
                         Searched(<<PawnDrop, Forward>>, 0)}}
    \cup Report(1, 2, <<Unreached(<<Aside>>, Unset)>>, {<<>>})
    \cup {[r EXCEPT !.sent = FALSE] : r \in
            Report(1, 1, <<Cut(<<Aside>>, 30), Unreached(<<PawnDrop>>, Unset)>>, {<<>>})
            \cup Report(2, 1, <<Cut(<<Aside, Answer>>, 30), Unreached(<<PawnDrop>>, 20)>>, {<<>>})
            \cup Report(2, 2, <<Searched(<<Aside>>, 30), Cut(<<PawnDrop>>, 20)>>, {<<>>})}

====
