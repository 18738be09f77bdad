--------------------------- MODULE TimeManagement ---------------------------
(***************************************************************************)
(* The think-time budget of one go: TimeManagement of                      *)
(* attic-search/src/timeman.rs.  All times are integers, in a unit of      *)
(* which one whole second has Second; the code counts milliseconds.  Float *)
(* products are taken exactly and truncated as the code truncates them,    *)
(* max_ratio to a hundredth.                                               *)
(***************************************************************************)
EXTENDS Integers

CONSTANT Second   \* 1000 in the code

ASSUME SecondAssumption == Second \in Nat \ {0}

AtLeast(a, b) == IF a >= b THEN a ELSE b
AtMost(a, b) == IF a <= b THEN a ELSE b

MOVE_HORIZON == 160

(***************************************************************************)
(* A TimeInput is a record in: time, inc, byoyomi, movetime, rtime (jitter *)
(* stands for the PRNG draw the code adds to it), delay, delay2, minThink, *)
(* slowMover (percent), fullSecond, ponderBonus (USI_Ponder without        *)
(* Stochastic_Ponder), ply and maxMoves.  A budget is a record tm.         *)
(***************************************************************************)

\* Byoyomi is spendable on this move, the Fischer increment is not.
RemainTime(in) ==
    AtLeast(in.time + in.byoyomi - in.delay2,
            IF in.fullSecond THEN Second \div 10 ELSE 1)

\* Mutant of RoundUp: the delay is taken off without making up for it.
RoundUpShort(tm, t0) ==
    IF tm.fullSecond
    THEN AtMost(AtLeast(((t0 + Second - 1) \div Second) * Second, tm.minThink)
                  - tm.delay, tm.remain)
    ELSE AtMost(AtLeast(t0, tm.minThink) - tm.delay, tm.remain)

\* Round up to a whole second less the network delay, capped at remain.
RoundUp(tm, t0) ==
    IF tm.fullSecond
    THEN LET whole == AtLeast(((t0 + Second - 1) \div Second) * Second, tm.minThink)
                      - tm.delay
         IN  AtMost(IF whole < t0 THEN whole + Second ELSE whole, tm.remain)
    ELSE AtMost(AtLeast(t0, tm.minThink) - tm.delay, tm.remain)

Budget(in, remain, minimum, optimum, maximum) ==
    [minimum |-> minimum, optimum |-> optimum, maximum |-> maximum,
     remain |-> remain, minThink |-> in.minThink, delay |-> in.delay,
     fullSecond |-> in.fullSecond, finalPush |-> FALSE, mtgError |-> FALSE]

Flat(in, remain, t) == Budget(in, remain, t, t, t)

\* Own moves left until the planning horizon or the draw horizon.
MovesToGo(in) ==
    LET horizon == IF in.inc = 0 /\ in.byoyomi = 0
                   THEN MOVE_HORIZON + 40 - AtMost(in.ply, 40)
                   ELSE MOVE_HORIZON + 20 - AtMost(in.ply, 80)
        left == AtMost(in.maxMoves - in.ply + 2, horizon)
    IN  IF left >= 0 THEN left \div 2 ELSE -((-left) \div 2)

RemainEstimate(in) ==
    LET mtg == MovesToGo(in)
    IN  AtLeast(in.time + (in.inc + in.byoyomi) * mtg
                  - (IF in.fullSecond THEN (mtg + 1) * Second ELSE 0), 0)

\* max_ratio, in hundredths: 5, or less when the clock is all there is.
MaxRatio(in) ==
    IF in.inc = 0 /\ in.byoyomi = 0
    THEN AtMost(500, AtLeast((in.time * 100) \div (60 * Second), 100))
    ELSE 500

MinimumTime(in) == AtLeast(in.minThink - in.delay, IF in.fullSecond THEN Second ELSE 1)

\* The optimum and the maximum before the final clamps.
PlannedOptimum(in) ==
    LET t1 == MinimumTime(in) + RemainEstimate(in) \div MovesToGo(in)
        base == (AtMost(t1, RemainTime(in)) * in.slowMover) \div 100
    IN  IF in.ponderBonus THEN base + base \div 4 ELSE base

PlannedMaximum(in) ==
    LET estimate == RemainEstimate(in)
        t2 == MinimumTime(in)
                + (estimate * MaxRatio(in)) \div (100 * MovesToGo(in))
    IN  AtMost(AtMost(t2, (estimate * 3) \div 10), RemainTime(in))

FinalPush(in) == in.byoyomi # 0 /\ in.time < (in.byoyomi * 12) \div 10

\* Mutant of Clamped: the optimum, ponder bonus and all, is taken as planned.
ClampedLoosely(tm) ==
    [tm EXCEPT !.minimum = AtMost(RoundUp(tm, @), tm.remain),
               !.maximum = AtMost(RoundUp(tm, @), tm.remain)]

\* The last clamps, for a planned budget.
Clamped(tm) ==
    [tm EXCEPT !.minimum = AtMost(RoundUp(tm, @), tm.remain),
               !.optimum = AtMost(@, tm.remain),
               !.maximum = AtMost(RoundUp(tm, @), tm.remain)]

\* TimeManagement::init.
InitBudget(in) ==
    LET remain == RemainTime(in)
        all == in.byoyomi + in.time
    IN  CASE in.rtime # 0 -> Flat(in, in.rtime + in.jitter, in.rtime + in.jitter)
          [] in.rtime = 0 /\ in.movetime # 0 -> Flat(in, in.movetime, in.movetime)
          [] in.rtime = 0 /\ in.movetime = 0 /\ MovesToGo(in) <= 0 ->
                [Flat(in, remain, Second \div 2) EXCEPT !.mtgError = TRUE]
          [] in.rtime = 0 /\ in.movetime = 0 /\ MovesToGo(in) = 1 -> Flat(in, remain, remain)
          [] OTHER ->
                Clamped(IF FinalPush(in)
                        THEN [Flat(in, remain, all) EXCEPT !.finalPush = TRUE]
                        ELSE Budget(in, remain, MinimumTime(in), PlannedOptimum(in),
                                    PlannedMaximum(in)))

\* Mutant of SearchEnd: the ponder time is added twice.
SearchEndLate(tm, e, hit) == RoundUp(tm, AtLeast(e - hit, tm.minimum - hit)) + 2 * hit

\* set_search_end: the end time, from the start of the go, of a search that
\* decided to stop e after it; hit is when our own clock began to run, 0
\* without ponder.
SearchEnd(tm, e, hit) ==
    LET used == e - hit
        floor == IF tm.finalPush THEN tm.minimum ELSE tm.minimum - hit
    IN  RoundUp(tm, AtLeast(used, floor)) + hit
=============================================================================
