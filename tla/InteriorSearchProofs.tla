----------------------- MODULE InteriorSearchProofs -----------------------
(***************************************************************************)
(* InteriorSearch for every tree, ply limit, table and window: position,   *)
(* accumulator and stack unwind together, no window collapses or leaves    *)
(* its range, values stay within the mates of their ply, and the line of a *)
(* PV node is the one its searches returned.                               *)
(*                                                                         *)
(* The invariant says what every activation of the stack is (Kind, Window, *)
(* Count, Score), how a caller and the activation it waits for fit (Link), *)
(* and, for the state the activations share, which of them each part       *)
(* belongs to (CellLines, Exclusion, Board).  An action replaces the last  *)
(* activation, calls from it, or returns from it: GotoKeeps, CallKeeps and *)
(* ReturnKeeps say once what that needs.                                   *)
(***************************************************************************)
EXTENDS InteriorSearch, SequenceTheorems, FiniteSetTheorems, TLAPS

\* The places of search and qsearch an activation can be at: before the moves,
\* at a move, and where it waits for the value of another activation.
BeforePcs == {"probe", "eval", "null", "verify", "probcut", "probcut_q", "probcut_s", "moves"}
MovePcs == {"exclude", "singular", "make", "lmr", "zero", "pv", "fold"}
SearchPcs == {"enter", "next", "tail"} \cup BeforePcs \cup MovePcs
QSearchPcs == {"enter", "probe", "stand", "next", "child", "tail"}
CallPcs == {"null", "verify", "probcut_q", "probcut_s", "singular", "lmr", "zero", "pv", "child"}

Lines == Seq(Nat \ {0})
Answers == [hit : BOOLEAN, value : Int, bound : 0..3, depth : Int, move : {0, 1}]
Frame ==
    [fn : {"search", "qsearch"}, pc : SearchPcs \cup QSearchPcs, ply : 0..MaxPly,
     root : BOOLEAN, pv : BOOLEAN, cut : BOOLEAN, again : BOOLEAN, check : BOOLEAN,
     alpha : Int, beta : Int, depth : Int, prior : Int, tt : Answers, best : Int,
     bestMove : Nat, n : Nat, mv : Nat, nd : Int, d : Int, val : Int,
     line : Lines, tail : Lines]

Bump(f) == IF f.pc \in DeepPcs THEN 1 ELSE 0

\* What an activation is.
Kind(f) ==
    /\ f.pc \in (IF f.fn = "search" THEN SearchPcs ELSE QSearchPcs)
    /\ f.pc # "enter" => f.ply < MaxPly
    /\ f.root => f.fn = "search" /\ f.ply = 0 /\ f.pv
    /\ f.fn = "search" /\ (f.root \/ f.pc # "enter") => f.depth >= 1
    /\ f.pc \in {"null", "verify"} => ~f.pv
    /\ f.pc = "stand" => ~f.check

\* Its window.
Window(f) ==
    /\ -VALUE_INFINITE <= f.alpha /\ f.alpha < f.beta /\ f.beta <= VALUE_INFINITE
    /\ f.pv \/ f.alpha = f.beta - 1
    /\ ~(f.pv /\ f.cut)
    /\ f.fn = "search" /\ ~f.root =>
        IF f.pc = "enter" THEN f.alpha <= mate_in(f.ply)
        ELSE mated_in(f.ply) <= f.alpha /\ f.beta <= mate_in(f.ply + 1)
    /\ f.root =>
        /\ f.beta > -Mate
        /\ (f.pc \in MovePcs /\ f.n > 1) \/ (f.pc = "next" /\ f.n > 0) => f.alpha >= -Mate
    /\ f.pc \in {"probcut_q", "probcut_s"} => ~is_decisive(f.beta)
    /\ f.pc \in {"exclude", "singular"} => ~is_decisive(f.tt.value)

\* The moves it has been through, and the values it has from them.
Count(f) ==
    /\ f.fn = "search" =>
        /\ f.pc \in BeforePcs \cup {"enter"} => f.n = 0 /\ f.best = -VALUE_INFINITE
        /\ f.pc \in MovePcs => 1 <= f.n /\ f.n <= f.mv /\ (f.n > 1 => f.best # -VALUE_INFINITE)
        /\ f.pc = "next" => f.n <= f.mv
        /\ f.pc \in {"next", "tail"} /\ f.n > 0 => f.best # -VALUE_INFINITE
        /\ f.pc = "tail" /\ f.root => f.n > 0
        /\ f.pc = "lmr" => f.n > 1
        /\ f.pc \in {"probcut_q", "probcut_s"} => f.mv > 0
        /\ f.pc \in {"exclude", "singular"} => ~f.root /\ f.mv = f.tt.move
        /\ f.n = 0 \/ (f.pc \in MovePcs /\ f.n = 1) => f.line = <<>> /\ f.best = -VALUE_INFINITE
    /\ f.fn = "qsearch" =>
        /\ f.pc \in {"enter", "probe", "stand"} => f.n = 0 /\ f.best = -VALUE_INFINITE
        /\ f.pc = "next" => (f.check /\ f.n = 0) \/ f.best # -VALUE_INFINITE
        /\ f.pc = "child" => f.mv > 0 /\ f.n > 0 /\ ((f.check /\ f.n = 1) \/ f.best # -VALUE_INFINITE)
        /\ f.pc = "tail" => f.n > 0 /\ f.best # -VALUE_INFINITE
        /\ f.n = 0 => f.line = <<>>

\* Between being mated at a ply and mating at it.
OwnScores(ply) == mated_in(ply)..mate_in(ply)

Score(f) ==
    /\ f.tt.value = VALUE_NONE \/ f.tt.value \in OwnScores(f.ply)
    /\ f.best = -VALUE_INFINITE \/ f.best \in Scores(f.ply)

Local(f) == Kind(f) /\ Window(f) /\ Count(f) /\ Score(f)

\* A caller and the activation it waits for.
Link(f, g) ==
    /\ f.pc \in CallPcs
    /\ g.ply = f.ply + Bump(f)
    /\ g.pv <=> f.pv /\ f.pc \in {"pv", "child"}

\* The stack: the root first, one activation of the PV to a ply, and no activation
\* above its callers.
Stack ==
    /\ frames \in Seq(Frame)
    /\ \A i \in 1..Len(frames) :
        /\ Local(frames[i])
        /\ frames[i].root <=> i = 1
        /\ frames[i].pv => frames[i].ply = i - 1
    /\ \A i \in 1..Len(frames) - 1 : Link(frames[i], frames[i + 1])
    /\ \A i, j \in 1..Len(frames) : i < j => frames[i].ply + Bump(frames[i]) <= frames[j].ply

\* A value has been returned exactly when the last activation waits for one.
Control ==
    /\ ret \in {NoReturn} \cup [value : Int, line : Lines]
    /\ frames = <<>> => ret # NoReturn
    /\ frames # <<>> => (ret # NoReturn <=> Top.pc \in CallPcs)
    /\ stopped \in BOOLEAN /\ nmpMinPly \in Int

\* As long as nothing was stopped, values are scores of their node.
Values ==
    ~stopped =>
        /\ ret # NoReturn => ret.value \in Scores(ReturnPly)
        /\ \A i \in 1..Len(frames) :
            frames[i].pc \in {"fold", "verify"} => frames[i].val \in Scores(frames[i].ply)

\* The lines of the shared stack: a PV node's own cell, and its child's, which is
\* empty until a full-window search has run, and then holds what that returned.
HoldsLine(f, c, halted) ==
    /\ f.pv /\ ~f.root /\ ~(f.fn = "qsearch" /\ f.pc = "enter") => c[f.ply].pv = f.line
    /\ f.pv /\ f.pc \in {"exclude", "singular", "make", "lmr", "zero"} => c[f.ply + 1].pv = <<>>
    /\ f.pv /\ f.pc = "fold" /\ ~halted => c[f.ply + 1].pv = f.tail

CellType == [0..(MaxPly + 2) -> [excluded : Nat, pv : Lines]]

CellLines ==
    /\ cells \in CellType
    /\ \A i \in 1..Len(frames) : HoldsLine(frames[i], cells, stopped)
    /\ ~stopped /\ frames # <<>> /\ ret # NoReturn =>
        (Top.pv /\ Top.pc \in {"pv", "child"} => cells[Top.ply + 1].pv = ret.line)

\* Every excluded move has its one singular search, every nmp_min_ply a search
\* that verifies.
Exclusion ==
    /\ \A i \in 1..Len(frames) :
        /\ frames[i].pc = "singular" => cells[frames[i].ply].excluded # 0
        /\ frames[i].pc = "exclude" => cells[frames[i].ply].excluded = 0
    /\ \A ply \in 0..(MaxPly + 2) :
        cells[ply].excluded # 0 =>
            \E i \in 1..Len(frames) : frames[i].pc = "singular" /\ frames[i].ply = ply
    /\ \A i, j \in 1..Len(frames) :
        i # j /\ frames[i].pc = "singular" /\ frames[j].pc = "singular" => frames[i].ply # frames[j].ply
    /\ nmpMinPly # 0 => \E i \in 1..Len(frames) : frames[i].pc = "verify"

\* The board, the accumulator, and the activations that wait for a child.
Board ==
    /\ board \in Seq(Nat)
    /\ Len(board) = IF frames = <<>> THEN 0 ELSE Top.ply + Bump(Top)
    /\ \A i \in Waiting : board[frames[i].ply + 1] = Made(frames[i])
    /\ \A k \in 1..Len(board) : \E i \in Waiting : frames[i].ply + 1 = k
    /\ accDepth = Cardinality({k \in 1..Len(board) : board[k] # 0})

\* The inductive invariant: the stack and what hangs on it, and the range of what
\* was last returned or stored.
Core == Stack /\ Control /\ Values /\ CellLines /\ Exclusion /\ Board
IInv == Core /\ MateRange
-----------------------------------------------------------------------------
(* Numbers. *)

\* What the assumptions say of the two sizes that bound every value.
LEMMA Numbers ==
    /\ MaxPly \in Nat /\ Mate \in Int /\ Mate > 2 * MaxPly
    /\ MaxPly > 0
BY SearchAssumption

\* Reach is half the ply limit, and no ply bounds a mate more than it does.
LEMMA Reaches ==
    /\ Reach \in Nat /\ 2 * Reach >= MaxPly /\ 2 * Reach <= MaxPly + 1 /\ Reach <= MaxPly
    /\ \A ply \in 0..(MaxPly + 1) :
        /\ Shortest(ply) \in 0..Reach /\ Shortest(ply) <= ply
        /\ ply <= Reach => Shortest(ply) = ply
BY Numbers DEF Reach, Shortest, Smaller

\* A score of a node is stored between the two mates at the root, so it is
\* never VALUE_NONE: the shift of value_to_tt does not leave the range.
THEOREM StoredInRange ==
    ASSUME NEW ply \in 0..MaxPly, NEW v \in OwnScores(ply)
    PROVE  /\ value_to_tt(v, ply) \in -Mate..Mate
           /\ value_to_tt(v, ply) # VALUE_NONE
BY Numbers DEF OwnScores, mated_in, mate_in, value_to_tt, is_win, is_loss, TBWin, VALUE_NONE

\* A stored value read at any ply is a score that ply can have.
THEOREM ReadInRange ==
    ASSUME NEW ply \in 0..MaxPly, NEW v \in -Mate..Mate
    PROVE  value_from_tt(v, ply) \in OwnScores(ply)
BY Numbers
DEF OwnScores, mated_in, mate_in, value_from_tt, is_win, is_loss, TBWin, VALUE_NONE

\* A score stored at a ply and read at the same ply is unchanged.
THEOREM RoundTrip ==
    ASSUME NEW ply \in 0..MaxPly, NEW v \in OwnScores(ply)
    PROVE  value_from_tt(value_to_tt(v, ply), ply) = v
<1>1. value_to_tt(v, ply) # VALUE_NONE
    BY StoredInRange
<1>2. CASE is_win(v)
    BY <1>1, <1>2, Numbers
    DEF OwnScores, mated_in, mate_in, value_to_tt, value_from_tt, is_win, is_loss, TBWin
<1>3. CASE is_loss(v)
    BY <1>1, <1>3, Numbers
    DEF OwnScores, mated_in, mate_in, value_to_tt, value_from_tt, is_win, is_loss, TBWin
<1>4. CASE ~is_win(v) /\ ~is_loss(v)
    BY <1>1, <1>4 DEF value_to_tt, value_from_tt
<1>5. QED BY <1>2, <1>3, <1>4

\* Any score of a node fits an entry, and one from a ply up to Reach is stored
\* between the two mates at the root.
LEMMA StoredScore ==
    ASSUME NEW ply \in 0..MaxPly, NEW v \in Scores(ply)
    PROVE  /\ value_to_tt(v, ply) \in -(Mate + MaxPly)..(Mate + MaxPly)
           /\ ply <= Reach => value_to_tt(v, ply) \in -Mate..Mate
BY Numbers, Reaches
DEF Scores, mated_in, mate_in, value_to_tt, is_win, is_loss, TBWin

\* Every score of the ply's own mates, and every score that is no mate, is one.
LEMMA ScoreOwn ==
    ASSUME NEW ply \in 0..MaxPly, NEW v \in Int,
           v \in OwnScores(ply) \/ ~is_decisive(v) \/ v = mate_in(ply + 1)
    PROVE  v \in Scores(ply)
BY Numbers, Reaches
DEF Scores, OwnScores, mated_in, mate_in, is_decisive, is_win, is_loss, TBWin

\* Negated, a score of a child is a score of its parent, and of the node itself.
LEMMA ScoreUp ==
    ASSUME NEW ply \in 0..(MaxPly - 1), NEW v \in Scores(ply + 1)
    PROVE  -v \in Scores(ply) /\ v \in Scores(ply)
<1>1. Shortest(ply) <= Shortest(ply + 1)
    BY Numbers, Reaches DEF Shortest, Smaller
<1>2. Shortest(ply) \in Nat /\ Shortest(ply + 1) \in Nat
    BY Numbers, Reaches
<1>3. QED BY <1>1, <1>2, Numbers DEF Scores, mated_in, mate_in

\* Every score is a number above -VALUE_INFINITE.
LEMMA ScoreNumber ==
    ASSUME NEW ply \in 0..MaxPly, NEW v \in Scores(ply)
    PROVE  v \in Int /\ v > -VALUE_INFINITE /\ -Mate <= v /\ v <= Mate
BY Numbers, Reaches DEF Scores, mated_in, mate_in, VALUE_INFINITE

\* The values a draw or another repetition is worth are scores of the ply.
LEMMA DrawsAreScores ==
    ASSUME NEW ply \in 0..MaxPly
    PROVE  /\ \A v \in DrawScores : v \in Int /\ ~is_decisive(v)
           /\ DrawScores \subseteq Scores(ply)
           /\ RepetitionScores(ply) \subseteq Scores(ply)
<1>1. \A v \in DrawScores : v \in Int /\ ~is_decisive(v)
    BY Numbers, ContemptAssumption DEF DrawScores, is_decisive, is_win, is_loss, TBWin
<1>2. \A v \in {Mate, -Mate, MaxEval, -MaxEval} : value_from_tt(v, ply) \in OwnScores(ply)
    BY ReadInRange, Numbers DEF MaxEval, TBWin
<1>3. \A v \in OwnScores(ply) : v \in Int
    BY Numbers DEF OwnScores, mated_in, mate_in
<1>4. QED BY <1>1, <1>2, <1>3, ScoreOwn DEF RepetitionScores

\* A mean of two numbers, truncated towards zero, lies between them.
LEMMA TruncHalf ==
    ASSUME NEW a \in Int, NEW b \in Int, a <= b
    PROVE  Trunc(a + b, 2) \in a..b
BY DEF Trunc

\* The same of a number weighted twice, as futility returns it.
LEMMA TruncThird ==
    ASSUME NEW a \in Int, NEW b \in Int, a <= b
    PROVE  Trunc(2 * a + b, 3) \in a..b
BY DEF Trunc

\* The quotient of a number between two multiples of the divisor.
LEMMA Quotient ==
    ASSUME NEW x \in Nat, NEW k \in Nat \ {0}, NEW a \in Nat, NEW b \in Nat,
           a * k <= x, x <= b * k
    PROVE  x \div k \in a..b
<1> DEFINE q == x \div k
           r == x % k
<1>1. q \in Nat /\ r \in 0..(k - 1) /\ x = q * k + r
    OBVIOUS
<1> HIDE DEF q, r
<1>2. q >= a
    <2> SUFFICES ASSUME q < a PROVE FALSE
        BY <1>1
    <2>1. (q + 1) * k <= a * k
        BY <1>1
    <2>2. (q + 1) * k = q * k + k
        BY <1>1
    <2>3. QED BY <1>1, <2>1, <2>2
<1>3. q <= b
    <2> SUFFICES ASSUME q >= b + 1 PROVE FALSE
        BY <1>1
    <2>1. q * k >= (b + 1) * k
        BY <1>1
    <2>2. (b + 1) * k = b * k + k
        OBVIOUS
    <2>3. QED BY <1>1, <2>1, <2>2
<1>4. QED BY <1>1, <1>2, <1>3 DEF q

\* The softened value of a fail high lies between beta and the value.
LEMMA TruncWeighted ==
    ASSUME NEW a \in Int, NEW b \in Int, NEW k \in Nat, a <= b
    PROVE  Trunc(b * k + a, k + 1) \in a..b
<1> DEFINE x == b * k + a
<1>1. x \in Int /\ a * (k + 1) <= x /\ x <= b * (k + 1)
    <2>1. a * k <= b * k
        OBVIOUS
    <2>2. a * (k + 1) = a * k + a /\ b * (k + 1) = b * k + b
        OBVIOUS
    <2>3. QED BY <2>1, <2>2
<1> HIDE DEF x
<1>2. CASE x < 0
    <2>1. (-x) \div (k + 1) \in Nat /\ -x \in Nat
        BY <1>1, <1>2
    <2>2. a < 0
        <3> SUFFICES ASSUME a >= 0 PROVE FALSE
            OBVIOUS
        <3>1. a * (k + 1) >= 0
            OBVIOUS
        <3>2. QED BY <1>1, <1>2, <3>1
    <2>3. (-x) \div (k + 1) <= -a
        <3>1. -x <= (-a) * (k + 1)
            BY <1>1
        <3>2. QED BY <1>1, <1>2, <2>2, <3>1, Quotient, 0 * (k + 1) = 0
    <2>4. -((-x) \div (k + 1)) <= b
        <3>1. CASE b >= 0
            BY <2>1, <3>1
        <3>2. CASE b < 0
            <4>1. (-b) * (k + 1) <= -x
                BY <1>1
            <4>2. (-x) \div (k + 1) \in (-b)..(-a)
                <5>1. -x <= (-a) * (k + 1)
                    BY <1>1
                <5>2. -a \in Nat /\ -b \in Nat /\ -x \in Nat /\ k + 1 \in Nat \ {0}
                    BY <2>1, <2>2, <3>2
                <5>3. QED BY <4>1, <5>1, <5>2, Quotient
            <4>3. QED BY <4>2, <3>2
        <3>3. QED BY <3>1, <3>2
    <2>5. QED BY <1>2, <2>1, <2>3, <2>4 DEF Trunc, x
<1>3. CASE x >= 0
    <2>1. b >= 0
        <3> SUFFICES ASSUME b < 0 PROVE FALSE
            OBVIOUS
        <3>1. b * (k + 1) < 0
            OBVIOUS
        <3>2. QED BY <1>1, <1>3, <3>1
    <2>2. CASE a >= 0
        <3>1. x \div (k + 1) \in a..b
            BY <1>1, <1>3, <2>1, <2>2, Quotient
        <3>2. QED BY <1>3, <3>1 DEF Trunc, x
    <2>3. CASE a < 0
        <3>1. x \div (k + 1) \in 0..b
            BY <1>1, <1>3, <2>1, Quotient, 0 * (k + 1) = 0
        <3>2. QED BY <1>3, <2>3, <3>1 DEF Trunc, x
    <2>4. QED BY <2>2, <2>3
<1>4. QED BY <1>1, <1>2, <1>3

\* A score that is no mate, averaged with a beta below it, is a score of any ply:
\* this is what Reach is for.
LEMMA AverageIsScore ==
    ASSUME NEW ply \in 0..MaxPly, NEW v \in Int, NEW b \in Int,
           ~is_decisive(v), b <= v, -VALUE_INFINITE <= b
    PROVE  Trunc(v + b, 2) \in Scores(ply)
<1>1. Trunc(v + b, 2) \in b..v
    BY TruncHalf, v + b = b + v
<1>2. Trunc(v + b, 2) >= Reach - Mate
    BY Numbers, Reaches DEF Trunc, is_decisive, is_win, is_loss, TBWin, VALUE_INFINITE
<1>3. QED BY <1>1, <1>2, Numbers, Reaches
    DEF Scores, mated_in, mate_in, is_decisive, is_win, is_loss, TBWin
-----------------------------------------------------------------------------
(* The stack under its three changes. *)

\* What the type says of the fields that the stack is about.
LEMMA FrameFields ==
    ASSUME NEW f \in Frame
    PROVE  /\ f.ply \in 0..MaxPly /\ f.ply \in Nat /\ f.mv \in Nat /\ f.n \in Nat
           /\ f.root \in BOOLEAN /\ f.pv \in BOOLEAN /\ f.cut \in BOOLEAN
           /\ f.again \in BOOLEAN /\ f.check \in BOOLEAN
           /\ f.fn \in {"search", "qsearch"} /\ f.pc \in SearchPcs \cup QSearchPcs
           /\ f.line \in Lines /\ f.tail \in Lines /\ f.tt \in Answers
           /\ f.alpha \in Int /\ f.beta \in Int /\ f.depth \in Int /\ f.prior \in Int
           /\ f.best \in Int /\ f.nd \in Int /\ f.d \in Int /\ f.val \in Int
           /\ Bump(f) \in {0, 1}
<1>1. Bump(f) \in {0, 1}
    BY DEF Bump
<1>2. QED BY <1>1, Numbers DEF Frame

\* No activation of the stack is gone.
LEMMA GonePc ==
    ASSUME NEW f \in Frame
    PROVE  f.pc # "gone"
BY FrameFields DEF SearchPcs, QSearchPcs, BeforePcs, MovePcs

\* The running activation is the last of the stack, and the stack speaks of it.
LEMMA TopIsLast ==
    ASSUME Stack, frames # <<>>
    PROVE  /\ Len(frames) \in Nat \ {0} /\ Top = frames[Len(frames)]
           /\ Top \in Frame /\ Local(Top)
           /\ Top.root <=> Len(frames) = 1
           /\ Top.pv => Top.ply = Len(frames) - 1
<1>1. frames \in Seq(Frame)
    BY DEF Stack
<1>2. Len(frames) \in Nat \ {0}
    BY <1>1, EmptySeq
<1>3. Top = frames[Len(frames)] /\ Len(frames) \in 1..Len(frames)
    BY <1>2 DEF Top
<1>4. Top \in Frame
    BY <1>1, <1>3, ElementOfSeq
<1>5. QED BY <1>2, <1>3, <1>4 DEF Stack

\* What frames' is after each of the three.
LEMMA GotoShape ==
    ASSUME Stack, frames # <<>>, NEW f \in Frame, Goto(f)
    PROVE  /\ frames' \in Seq(Frame) /\ frames' # <<>> /\ Len(frames') = Len(frames)
           /\ Top' = f /\ frames'[Len(frames)] = f
           /\ \A i \in 1..Len(frames) - 1 : frames'[i] = frames[i]
           /\ ret' = NoReturn
<1>1. Len(frames) \in Nat \ {0}
    BY TopIsLast
<1>2. frames \in Seq(Frame) /\ Len(frames) \in 1..Len(frames)
    BY <1>1 DEF Stack
<1>3. /\ frames' \in Seq(Frame) /\ Len(frames') = Len(frames)
      /\ \A j \in 1..Len(frames) : frames'[j] = IF j = Len(frames) THEN f ELSE frames[j]
    BY <1>2, ExceptSeq DEF Goto
<1>4. frames' # <<>>
    BY <1>1, <1>3, EmptySeq
<1>5. Top' = frames'[Len(frames')] /\ ret' = NoReturn
    BY DEF Goto, Top
<1>6. QED BY <1>1, <1>3, <1>4, <1>5

\* After a call, the callee is last and the caller waits below it.
LEMMA CallShape ==
    ASSUME Stack, frames # <<>>, NEW f \in Frame, NEW g \in Frame, Call(f, g)
    PROVE  /\ frames' \in Seq(Frame) /\ frames' # <<>> /\ Len(frames') = Len(frames) + 1
           /\ Top' = g /\ frames'[Len(frames) + 1] = g /\ frames'[Len(frames)] = f
           /\ \A i \in 1..Len(frames) - 1 : frames'[i] = frames[i]
           /\ ret' = NoReturn
<1>1. Len(frames) \in Nat \ {0}
    BY TopIsLast
<1>2. frames \in Seq(Frame) /\ Len(frames) \in 1..Len(frames)
    BY <1>1 DEF Stack
<1> DEFINE s == [frames EXCEPT ![Len(frames)] = f]
<1>3. /\ s \in Seq(Frame) /\ Len(s) = Len(frames)
      /\ \A j \in 1..Len(frames) : s[j] = IF j = Len(frames) THEN f ELSE frames[j]
    BY <1>2, ExceptSeq
<1>4. frames' = Append(s, g) /\ ret' = NoReturn
    BY DEF Call
<1> HIDE DEF s
<1>5. /\ frames' \in Seq(Frame) /\ Len(frames') = Len(frames) + 1
      /\ \A j \in 1..Len(frames) : frames'[j] = s[j]
      /\ frames'[Len(frames) + 1] = g
    BY <1>3, <1>4, AppendProperties
<1>6. frames' # <<>>
    BY <1>1, <1>5, EmptySeq
<1>7. Top' = frames'[Len(frames')]
    BY DEF Top
<1>8. QED BY <1>1, <1>3, <1>4, <1>5, <1>6, <1>7

\* After a return, the activation is gone and its caller is last.
LEMMA ReturnShape ==
    ASSUME Stack, frames # <<>>, NEW v, NEW line, Return(v, line)
    PROVE  /\ frames' \in Seq(Frame) /\ Len(frames') = Len(frames) - 1
           /\ \A i \in 1..Len(frames) - 1 : frames'[i] = frames[i]
           /\ ret' = [value |-> v, line |-> line]
           /\ frames' = <<>> <=> Len(frames) = 1
           /\ Len(frames) > 1 => Top' = frames[Len(frames) - 1]
<1>1. Len(frames) \in Nat \ {0}
    BY TopIsLast
<1>2. \A i \in 1..(Len(frames) - 1) : frames[i] \in Frame
    BY <1>1, ElementOfSeq DEF Stack
<1>3. frames' = SubSeq(frames, 1, Len(frames) - 1) /\ ret' = [value |-> v, line |-> line]
    BY DEF Return
<1>4. /\ frames' \in Seq(Frame) /\ Len(frames') = Len(frames) - 1
      /\ \A i \in 1..Len(frames) - 1 : frames'[i] = frames[i]
    <2>1. 1 \in Int /\ Len(frames) - 1 \in Int
        BY <1>1
    <2> DEFINE t == SubSeq(frames, 1, Len(frames) - 1)
    <2>2. /\ t \in Seq(Frame)
          /\ Len(t) = IF 1 <= Len(frames) - 1 THEN Len(frames) - 1 - 1 + 1 ELSE 0
          /\ \A i \in 1..Len(frames) - 1 - 1 + 1 : t[i] = frames[1 + i - 1]
        BY <1>2, <2>1, SubSeqProperties
    <2> HIDE DEF t
    <2>3. frames' = t
        BY <1>3 DEF t
    <2>4. QED BY <1>1, <2>2, <2>3
<1>5. frames' = <<>> <=> Len(frames) = 1
    BY <1>1, <1>4, EmptySeq
<1>6. Top' = frames'[Len(frames')]
    BY DEF Top
<1>7. QED BY <1>1, <1>3, <1>4, <1>5, <1>6

\* An activation that goes on at its node.
SameNode(f) ==
    /\ f \in Frame /\ Local(f)
    /\ f.ply = Top.ply /\ f.root = Top.root /\ f.pv = Top.pv

\* The last activation becomes f, and may have called another; one that returned
\* is gone.
Gone == [Top EXCEPT !.pc = "gone"]
Becomes(f) ==
    LET n == Len(frames)
    IN /\ f.ply = Top.ply
       /\ Len(frames') \in {n - 1, n, n + 1}
       /\ \A i \in 1..n - 1 : frames'[i] = frames[i]
       /\ IF Len(frames') = n - 1 THEN f.pc = "gone" ELSE frames'[n] = f /\ f.pc # "gone"
       /\ Len(frames') = n + 1 => frames'[n + 1].pc = "enter"
       /\ (IF frames' = <<>> THEN 0 ELSE Top'.ply + Bump(Top')) = Top.ply + Bump(f)

\* An activation that goes on at its node keeps the stack well formed.
LEMMA GotoStack ==
    ASSUME Stack, Control, frames # <<>>, NEW f, SameNode(f), Goto(f), f.pc \notin CallPcs,
           stopped' \in BOOLEAN, nmpMinPly' \in Int
    PROVE  Stack' /\ Control' /\ Becomes(f)
<1> DEFINE n == Len(frames)
<1>1. f \in Frame
    BY DEF SameNode
<1>2. /\ frames' \in Seq(Frame) /\ frames' # <<>> /\ Len(frames') = n
      /\ Top' = f /\ frames'[n] = f /\ ret' = NoReturn
      /\ \A i \in 1..n - 1 : frames'[i] = frames[i]
    BY <1>1, GotoShape
<1>3. n \in Nat \ {0} /\ Top = frames[n]
    BY TopIsLast
<1> HIDE DEF n
<1>4. \A i \in 1..n : Local(frames'[i]) /\ (frames'[i].root <=> i = 1)
                      /\ (frames'[i].pv => frames'[i].ply = i - 1)
    BY <1>2, <1>3 DEF Stack, SameNode, n
<1>5. \A i \in 1..n - 1 : Link(frames'[i], frames'[i + 1])
    BY <1>2, <1>3 DEF Stack, SameNode, Link, n
<1>6. \A i, j \in 1..n : i < j => frames'[i].ply + Bump(frames'[i]) <= frames'[j].ply
    BY <1>2, <1>3 DEF Stack, SameNode, n
<1>7. Stack'
    BY <1>2, <1>4, <1>5, <1>6 DEF Stack
<1>8. Control'
    BY <1>2 DEF Control
<1>9. Becomes(f)
    BY <1>1, <1>2, <1>3, GonePc DEF SameNode, Becomes, n
<1>10. QED BY <1>7, <1>8, <1>9

\* So does a call that fits its caller.
LEMMA CallStack ==
    ASSUME Stack, Control, frames # <<>>, NEW f, NEW g,
           SameNode(f), g \in Frame, Local(g), ~g.root, Link(f, g), g.pc = "enter", Call(f, g),
           stopped' \in BOOLEAN, nmpMinPly' \in Int
    PROVE  Stack' /\ Control' /\ Becomes(f)
<1> DEFINE n == Len(frames)
<1>1. f \in Frame
    BY DEF SameNode
<1>2. /\ frames' \in Seq(Frame) /\ frames' # <<>> /\ Len(frames') = n + 1
      /\ Top' = g /\ frames'[n] = f /\ frames'[n + 1] = g /\ ret' = NoReturn
      /\ \A i \in 1..n - 1 : frames'[i] = frames[i]
    BY <1>1, CallShape
<1>3. n \in Nat \ {0} /\ Top = frames[n]
    BY TopIsLast
<1> HIDE DEF n
<1>4. g.pv => g.ply = n
    BY <1>1, <1>3, TopIsLast, FrameFields DEF SameNode, Link, Bump, DeepPcs, n
<1>5. \A i \in 1..n : Local(frames'[i]) /\ (frames'[i].root <=> i = 1)
                      /\ (frames'[i].pv => frames'[i].ply = i - 1)
    BY <1>2, <1>3 DEF Stack, SameNode, n
<1>6. \A i \in 1..n + 1 : Local(frames'[i]) /\ (frames'[i].root <=> i = 1)
                          /\ (frames'[i].pv => frames'[i].ply = i - 1)
    BY <1>2, <1>3, <1>4, <1>5
<1>7. \A i \in 1..n : Link(frames'[i], frames'[i + 1])
    <2>1. \A i \in 1..n - 1 : Link(frames[i], frames[i + 1])
        BY DEF Stack, n
    <2>2. \A i \in 1..n - 2 : Link(frames'[i], frames'[i + 1])
        BY <1>2, <1>3, <2>1
    <2>3. n > 1 => Link(frames[n - 1], f)
        BY <1>3, <2>1 DEF SameNode, Link
    <2>4. QED BY <1>2, <1>3, <2>2, <2>3
<1>8. \A i, j \in 1..n + 1 : i < j => frames'[i].ply + Bump(frames'[i]) <= frames'[j].ply
    <2>1. \A i \in 1..n - 1 : frames[i].ply + Bump(frames[i]) <= f.ply /\ frames[i].ply \in Nat
        <3>1. \A i \in 1..n - 1 : frames[i] \in Frame
            BY <1>3, ElementOfSeq DEF Stack, n
        <3>2. \A i \in 1..n - 1 : frames[i].ply + Bump(frames[i]) <= Top.ply
            BY <1>3 DEF Stack, n
        <3>3. QED BY <3>1, <3>2, FrameFields DEF SameNode
    <2>2. f.ply + Bump(f) = g.ply /\ f.ply \in Nat /\ Bump(f) \in Nat /\ g.ply \in Nat
        BY <1>1, FrameFields DEF Link
    <2>3. \A i \in 1..n - 1 : Bump(frames[i]) \in Nat
        BY DEF Bump
    <2>4. \A i, j \in 1..n - 1 : i < j => frames[i].ply + Bump(frames[i]) <= frames[j].ply
        BY <1>3 DEF Stack, n
    <2> SUFFICES ASSUME NEW i \in 1..n + 1, NEW j \in 1..n + 1, i < j
                 PROVE  frames'[i].ply + Bump(frames'[i]) <= frames'[j].ply
        OBVIOUS
    <2>5. CASE j < n
        BY <1>2, <1>3, <2>4, <2>5
    <2>6. CASE j = n
        BY <1>2, <1>3, <2>1, <2>6
    <2>7. CASE j = n + 1 /\ i = n
        BY <1>2, <1>3, <2>2, <2>7
    <2>8. CASE j = n + 1 /\ i < n
        <3>1. frames'[i] = frames[i] /\ frames'[j] = g /\ i \in 1..n - 1
            BY <1>2, <1>3, <2>8
        <3>2. /\ frames[i].ply \in Nat /\ Bump(frames[i]) \in Nat
              /\ frames[i].ply + Bump(frames[i]) <= f.ply
            BY <2>1, <2>3, <3>1
        <3>3. QED BY <2>2, <3>1, <3>2
    <2>9. QED BY <1>3, <2>5, <2>6, <2>7, <2>8
<1>9. Stack'
    BY <1>2, <1>3, <1>6, <1>7, <1>8 DEF Stack
<1>10. Control'
    BY <1>2 DEF Control, CallPcs
<1>11. Becomes(f)
    <2>1. Bump(g) = 0 /\ g.ply = f.ply + Bump(f) /\ g.ply \in Nat
        BY FrameFields DEF Link, Bump, DeepPcs
    <2>2. f.pc # "gone" /\ f.ply = Top.ply
        BY <1>1, GonePc DEF SameNode
    <2>3. QED BY <1>2, <1>3, <2>1, <2>2 DEF Becomes, n
<1>12. QED BY <1>9, <1>10, <1>11

\* The ply an activation returns from is the one its caller knows.
LEMMA ReturnStack ==
    ASSUME Stack, Control, frames # <<>>, NEW v \in Int, NEW line \in Lines, Return(v, line),
           stopped' \in BOOLEAN, nmpMinPly' \in Int
    PROVE  Stack' /\ Control' /\ ReturnPly' = Top.ply /\ Becomes(Gone)
<1> DEFINE n == Len(frames)
<1>1. /\ frames' \in Seq(Frame) /\ Len(frames') = n - 1
      /\ \A i \in 1..n - 1 : frames'[i] = frames[i]
      /\ ret' = [value |-> v, line |-> line]
      /\ frames' = <<>> <=> n = 1
      /\ n > 1 => Top' = frames[n - 1]
    BY ReturnShape
<1>2. n \in Nat \ {0} /\ Top = frames[n] /\ (Top.root <=> n = 1) /\ Kind(Top)
    BY TopIsLast DEF Local
<1> HIDE DEF n
<1>3. Stack'
    <2>1. \A i \in 1..n - 1 : Local(frames'[i]) /\ (frames'[i].root <=> i = 1)
                              /\ (frames'[i].pv => frames'[i].ply = i - 1)
        <3>1. ASSUME NEW i \in 1..n - 1
              PROVE  Local(frames'[i]) /\ (frames'[i].root <=> i = 1)
                     /\ (frames'[i].pv => frames'[i].ply = i - 1)
            <4>1. i \in 1..Len(frames)
                BY <1>2 DEF n
            <4>2. /\ Local(frames[i]) /\ (frames[i].root <=> i = 1)
                  /\ (frames[i].pv => frames[i].ply = i - 1)
                BY <4>1 DEF Stack
            <4>3. frames'[i] = frames[i]
                BY <1>1
            <4>4. QED BY <4>2, <4>3
        <3>2. QED BY <3>1
    <2>2. \A i \in 1..n - 1 - 1 : Link(frames'[i], frames'[i + 1])
        <3>1. \A i \in 1..n - 1 - 1 : i \in 1..n - 1 /\ i + 1 \in 1..n - 1
            BY <1>2
        <3>2. \A i \in 1..n - 1 : Link(frames[i], frames[i + 1])
            BY DEF Stack, n
        <3>3. QED BY <1>1, <3>1, <3>2
    <2>3. \A i, j \in 1..n - 1 : i < j => frames'[i].ply + Bump(frames'[i]) <= frames'[j].ply
        <3>1. \A i \in 1..n - 1 : i \in 1..n
            BY <1>2
        <3>2. \A i, j \in 1..n : i < j => frames[i].ply + Bump(frames[i]) <= frames[j].ply
            BY DEF Stack, n
        <3>3. QED BY <1>1, <3>1, <3>2
    <2>4. QED BY <1>1, <2>1, <2>2, <2>3 DEF Stack
<1>4. ret' # NoReturn
    <2>1. line # <<0>>
        BY ElementOfSeq DEF Lines
    <2>2. QED BY <1>1, <2>1 DEF NoReturn
<1>5. n > 1 => Link(Top', Top) /\ Top' \in Frame
    BY <1>1, <1>2, ElementOfSeq DEF Stack, n
<1>6. Control'
    BY <1>1, <1>2, <1>4, <1>5 DEF Control, Link
<1>7. ReturnPly' = Top.ply
    <2>1. CASE n = 1
        BY <1>1, <1>2, <2>1 DEF ReturnPly, Kind
    <2>2. CASE n > 1
        BY <1>1, <1>5, <2>2, FrameFields DEF ReturnPly, Link, Bump, DeepPcs, CallPcs
    <2>3. QED BY <1>2, <2>1, <2>2
<1>8. Becomes(Gone)
    <2>1. Gone.ply = Top.ply /\ Gone.pc = "gone" /\ Bump(Gone) = 0
        BY TopIsLast DEF Gone, Bump, DeepPcs, Frame
    <2>2. n = 1 => Top.ply = 0
        BY <1>2 DEF Kind
    <2>3. n > 1 => Top'.ply + Bump(Top') = Top.ply
        BY <1>5 DEF Link
    <2>4. Top.ply \in Nat
        BY TopIsLast, FrameFields
    <2>5. QED BY <1>1, <1>2, <2>1, <2>2, <2>3, <2>4 DEF Becomes, n
<1>9. QED BY <1>3, <1>6, <1>7, <1>8
-----------------------------------------------------------------------------
(* The other parts under a change of the last activation. *)

\* Every activation below the last one waits for the one above it.
LEMMA CallersWait ==
    ASSUME Stack, NEW i \in 1..Len(frames) - 1
    PROVE  /\ frames[i] \in Frame /\ frames[i].pc \in CallPcs
           /\ frames[i].pc \notin {"exclude", "make", "fold"}
           /\ Link(frames[i], frames[i + 1])
<1>1. Len(frames) \in Nat /\ i \in 1..Len(frames)
    BY LenProperties DEF Stack
<1>2. frames[i] \in Frame /\ Link(frames[i], frames[i + 1])
    BY <1>1, ElementOfSeq DEF Stack
<1>3. QED BY <1>2 DEF Link, CallPcs

\* The values of the stack stay scores when its last activation goes on,
LEMMA GotoValues ==
    ASSUME Stack, Values, frames # <<>>, NEW f, SameNode(f), Goto(f),
           stopped \in BOOLEAN, stopped' \in BOOLEAN, stopped => stopped',
           ~stopped' /\ f.pc \in {"fold", "verify"} => f.val \in Scores(f.ply)
    PROVE  Values'
<1>1. Len(frames') = Len(frames) /\ frames'[Len(frames)] = f /\ ret' = NoReturn
      /\ \A i \in 1..Len(frames) - 1 : frames'[i] = frames[i]
    BY GotoShape DEF SameNode
<1>2. Len(frames) \in Nat \ {0}
    BY TopIsLast
<1>3. QED BY <1>1, <1>2 DEF Values

\* when it calls,
LEMMA CallValues ==
    ASSUME Stack, Values, frames # <<>>, NEW f, NEW g, SameNode(f), g \in Frame, g.pc = "enter",
           Call(f, g), stopped \in BOOLEAN, stopped' \in BOOLEAN, stopped => stopped',
           ~stopped' /\ f.pc \in {"fold", "verify"} => f.val \in Scores(f.ply)
    PROVE  Values'
<1>1. /\ Len(frames') = Len(frames) + 1 /\ ret' = NoReturn
      /\ frames'[Len(frames)] = f /\ frames'[Len(frames) + 1] = g
      /\ \A i \in 1..Len(frames) - 1 : frames'[i] = frames[i]
    BY CallShape DEF SameNode
<1>2. Len(frames) \in Nat \ {0}
    BY TopIsLast
<1>3. QED BY <1>1, <1>2 DEF Values

\* and when it returns a score of its ply.
LEMMA ReturnValues ==
    ASSUME Stack, Control, Values, frames # <<>>, NEW v \in Int, NEW line \in Lines,
           Return(v, line), nmpMinPly' \in Int,
           stopped' \in BOOLEAN, stopped => stopped', ~stopped' => v \in Scores(Top.ply)
    PROVE  Values'
<1>1. /\ Len(frames') = Len(frames) - 1 /\ ret' = [value |-> v, line |-> line]
      /\ \A i \in 1..Len(frames) - 1 : frames'[i] = frames[i]
    BY ReturnShape
<1>2. Len(frames) \in Nat \ {0}
    BY TopIsLast
<1>3. ReturnPly' = Top.ply
    BY ReturnStack
<1>4. ret'.value = v
    BY <1>1
<1>5. stopped \in BOOLEAN
    BY DEF Control
<1>6. QED BY <1>1, <1>2, <1>3, <1>4, <1>5 DEF Values

\* A line is written by the last activation, when it is on the PV, into its own
\* cell or its child's.
LinesMove ==
    /\ cells' \in CellType
    /\ \A p \in 0..(MaxPly + 2) :
        ~Top.pv \/ p \notin {Top.ply, Top.ply + 1} => cells'[p].pv = cells[p].pv

\* The lines of the callers are out of the last activation's reach.
LEMMA CallersLines ==
    ASSUME Stack, CellLines, frames # <<>>, LinesMove, NEW i \in 1..Len(frames) - 1,
           NEW halted
    PROVE  HoldsLine(frames[i], cells', halted)
<1> DEFINE n == Len(frames)
           f == frames[i]
<1>1. n \in Nat \ {0} /\ i \in 1..n /\ i < n /\ Top = frames[n] /\ (Top.pv => Top.ply = n - 1)
    BY TopIsLast
<1>2. f \in Frame /\ f.pc # "fold" /\ Link(f, frames[i + 1])
    BY CallersWait
<1>3. f.ply \in 0..MaxPly /\ f.ply \in 0..(MaxPly + 2) /\ f.ply + 1 \in 0..(MaxPly + 2)
    BY <1>2, FrameFields, Numbers
<1>4. HoldsLine(f, cells, stopped) /\ (f.pv => f.ply = i - 1)
    BY <1>1 DEF CellLines, Stack
<1>5. f.pv => cells'[f.ply].pv = cells[f.ply].pv
    BY <1>1, <1>3, <1>4 DEF LinesMove
<1>6. f.pv /\ f.pc \in {"exclude", "singular", "make", "lmr", "zero"}
      => cells'[f.ply + 1].pv = cells[f.ply + 1].pv
    <2> SUFFICES ASSUME f.pv, f.pc \in {"exclude", "singular", "make", "lmr", "zero"}
                 PROVE  cells'[f.ply + 1].pv = cells[f.ply + 1].pv
        OBVIOUS
    <2>1. CASE i + 1 = n
        <3>1. ~Top.pv
            BY <1>1, <1>2, <2>1 DEF Link
        <3>2. QED BY <1>3, <3>1 DEF LinesMove
    <2>2. CASE i + 1 < n
        BY <1>1, <1>3, <1>4, <2>2 DEF LinesMove
    <2>3. QED BY <1>1, <2>1, <2>2
<1> HIDE DEF f
<1>7. QED BY <1>2, <1>4, <1>5, <1>6 DEF HoldsLine, f

\* Lines under a step at the node,
LEMMA GotoLines ==
    ASSUME Stack, CellLines, frames # <<>>, NEW f, SameNode(f), Goto(f),
           LinesMove, HoldsLine(f, cells', stopped')
    PROVE  CellLines'
<1>1. Len(frames') = Len(frames) /\ frames'[Len(frames)] = f /\ ret' = NoReturn
      /\ \A i \in 1..Len(frames) - 1 : frames'[i] = frames[i]
    BY GotoShape DEF SameNode
<1>2. Len(frames) \in Nat \ {0}
    BY TopIsLast
<1>3. \A i \in 1..Len(frames) - 1 : HoldsLine(frames[i], cells', stopped')
    BY CallersLines
<1>4. \A i \in 1..Len(frames') : HoldsLine(frames'[i], cells', stopped')
    BY <1>1, <1>2, <1>3
<1>5. QED BY <1>1, <1>4 DEF CellLines, LinesMove

\* and under a call.
LEMMA CallLines ==
    ASSUME Stack, CellLines, frames # <<>>, NEW f, NEW g, SameNode(f), g \in Frame, Call(f, g),
           LinesMove, HoldsLine(f, cells', stopped'), HoldsLine(g, cells', stopped')
    PROVE  CellLines'
<1>1. /\ Len(frames') = Len(frames) + 1 /\ ret' = NoReturn
      /\ frames'[Len(frames)] = f /\ frames'[Len(frames) + 1] = g
      /\ \A i \in 1..Len(frames) - 1 : frames'[i] = frames[i]
    BY CallShape DEF SameNode
<1>2. Len(frames) \in Nat \ {0}
    BY TopIsLast
<1>3. \A i \in 1..Len(frames) - 1 : HoldsLine(frames[i], cells', stopped')
    BY CallersLines
<1>4. \A i \in 1..Len(frames') : HoldsLine(frames'[i], cells', stopped')
    BY <1>1, <1>2, <1>3
<1>5. QED BY <1>1, <1>4 DEF CellLines, LinesMove

\* The line a PV node returns is the one in its cell.
LEMMA ReturnLines ==
    ASSUME Stack, CellLines, frames # <<>>, NEW v, NEW line, Return(v, line), LinesMove,
           Top.pv /\ ~Top.root /\ ~stopped' => cells'[Top.ply].pv = line
    PROVE  CellLines'
<1> DEFINE n == Len(frames)
<1>1. /\ Len(frames') = n - 1 /\ ret' = [value |-> v, line |-> line]
      /\ \A i \in 1..n - 1 : frames'[i] = frames[i]
      /\ frames' = <<>> <=> n = 1
      /\ n > 1 => Top' = frames[n - 1]
    BY ReturnShape
<1>2. n \in Nat \ {0} /\ Top = frames[n] /\ (Top.root <=> n = 1)
    BY TopIsLast
<1>3. \A i \in 1..n - 1 : HoldsLine(frames[i], cells', stopped')
    BY CallersLines
<1> HIDE DEF n
<1>4. \A i \in 1..Len(frames') : HoldsLine(frames'[i], cells', stopped')
    BY <1>1, <1>2, <1>3
<1>5. ret'.line = line
    BY <1>1
<1>6. ASSUME frames' # <<>>, Top'.pv, Top'.pc \in {"pv", "child"}, ~stopped'
      PROVE  cells'[Top'.ply + 1].pv = line
    <2>1. n > 1 /\ n - 1 \in 1..n - 1
        BY <1>1, <1>2, <1>6
    <2>2. Link(Top', Top)
        BY <1>1, <1>2, <2>1, CallersWait DEF n
    <2>3. Top.pv /\ Top.ply = Top'.ply + 1 /\ ~Top.root
        BY <1>2, <1>6, <2>1, <2>2 DEF Link, Bump, DeepPcs
    <2>4. QED BY <1>6, <2>3
<1>7. QED BY <1>4, <1>5, <1>6 DEF CellLines, LinesMove

\* What may happen to the excluded moves and to nmp_min_ply when the last
\* activation goes to this pc.
ExclusionMoves(pc) ==
    /\ cells' \in CellType
    /\ \A p \in 0..(MaxPly + 2) : p # Top.ply => cells'[p].excluded = cells[p].excluded
    /\ IF pc = "singular" THEN Top.pc = "exclude" /\ cells'[Top.ply].excluded # 0
       ELSE cells'[Top.ply].excluded =
                IF Top.pc = "singular" THEN 0 ELSE cells[Top.ply].excluded
    /\ pc = "exclude" => Top.pc # "singular" /\ cells[Top.ply].excluded = 0
    /\ \/ nmpMinPly' = 0 \/ pc = "verify"
       \/ Top.pc # "verify" /\ nmpMinPly' = nmpMinPly

\* Then every excluded move still has its search, and nmp_min_ply its own.
LEMMA ExclusionKept ==
    ASSUME Stack, Exclusion, frames # <<>>, NEW f, Becomes(f), ExclusionMoves(f.pc)
    PROVE  Exclusion'
<1> DEFINE n == Len(frames)
           m == Len(frames')
<1>1. n \in Nat \ {0} /\ Top = frames[n] /\ Top.ply \in 0..(MaxPly + 2)
    BY TopIsLast, FrameFields, Numbers
<1>2. /\ f.ply = Top.ply /\ m \in {n - 1, n, n + 1}
      /\ \A i \in 1..n - 1 : frames'[i] = frames[i]
      /\ IF m = n - 1 THEN f.pc = "gone" ELSE frames'[n] = f /\ f.pc # "gone"
      /\ m = n + 1 => frames'[n + 1].pc = "enter"
    BY DEF Becomes
<1>3. \A i \in 1..n - 1 : frames[i].pc # "exclude" /\ frames[i].ply \in 0..(MaxPly + 2)
    BY CallersWait, FrameFields, Numbers
<1> DEFINE Sing(s, i) == s[i].pc = "singular"
<1>4. /\ \A i \in 1..n : Sing(frames, i) => cells[frames[i].ply].excluded # 0
      /\ Top.pc = "exclude" => cells[Top.ply].excluded = 0
      /\ \A i, j \in 1..n : i # j /\ Sing(frames, i) /\ Sing(frames, j) => frames[i].ply # frames[j].ply
      /\ \A p \in 0..(MaxPly + 2) : cells[p].excluded # 0 =>
            \E i \in 1..n : Sing(frames, i) /\ frames[i].ply = p
      /\ nmpMinPly # 0 => \E i \in 1..n : frames[i].pc = "verify"
    BY SMTT(30), <1>1 DEF Exclusion
<1> HIDE DEF n, m
<1>5. \A i \in 1..m : \/ i \in 1..n - 1 /\ frames'[i] = frames[i]
                      \/ i = n /\ frames'[i] = f
                      \/ i = n + 1 /\ frames'[i].pc = "enter"
    <2> SUFFICES ASSUME NEW i \in 1..m
                 PROVE  \/ i \in 1..n - 1 /\ frames'[i] = frames[i]
                        \/ i = n /\ frames'[i] = f
                        \/ i = n + 1 /\ frames'[i].pc = "enter"
        OBVIOUS
    <2>1. CASE i \in 1..n - 1
        BY <1>2, <2>1
    <2>2. CASE i = n
        BY <1>1, <1>2, <2>2
    <2>3. CASE i = n + 1
        BY <1>1, <1>2, <2>3
    <2>4. QED BY <1>1, <1>2, <2>1, <2>2, <2>3
<1>6. f.pc # "gone" => n \in 1..m /\ frames'[n] = f
    BY <1>1, <1>2
<1>7. \A i \in 1..n - 1 : i \in 1..m
    BY <1>1, <1>2
<1>8. \A i \in 1..n - 1 : Sing(frames, i) => cells'[frames[i].ply].excluded # 0
    BY <1>1, <1>3, <1>4 DEF ExclusionMoves
<1>9. /\ f.pc = "singular" => cells'[f.ply].excluded # 0
      /\ f.pc = "exclude" => cells'[f.ply].excluded = 0
    BY <1>2 DEF ExclusionMoves
<1>10. \A i \in 1..m : /\ Sing(frames', i) => cells'[frames'[i].ply].excluded # 0
                       /\ frames'[i].pc = "exclude" => cells'[frames'[i].ply].excluded = 0
    BY <1>3, <1>5, <1>8, <1>9
<1>11. ASSUME NEW p \in 0..(MaxPly + 2), cells'[p].excluded # 0
       PROVE  \E i \in 1..m : Sing(frames', i) /\ frames'[i].ply = p
    <2>1. CASE p = Top.ply /\ f.pc = "singular"
        BY <1>2, <1>6, <2>1
    <2>2. CASE ~(p = Top.ply /\ f.pc = "singular")
        <3>1. cells[p].excluded # 0 /\ (p = Top.ply => Top.pc # "singular")
            BY <1>11, <2>2 DEF ExclusionMoves
        <3>2. PICK i \in 1..n : Sing(frames, i) /\ frames[i].ply = p
            BY <1>4, <3>1
        <3>3. i \in 1..n - 1
            BY <1>1, <3>1, <3>2
        <3>4. QED BY <1>2, <1>7, <3>2, <3>3
    <2>3. QED BY <2>1, <2>2
<1>12. ASSUME NEW i \in 1..n - 1, Sing(frames, i), f.pc = "singular"
       PROVE  frames[i].ply # f.ply
    BY <1>1, <1>2, <1>4, <1>12 DEF ExclusionMoves
<1>13. \A i, j \in 1..n - 1 : i # j /\ Sing(frames, i) /\ Sing(frames, j) => frames[i].ply # frames[j].ply
    BY <1>1, <1>4
<1>14. \A i, j \in 1..m : i # j /\ Sing(frames', i) /\ Sing(frames', j) => frames'[i].ply # frames'[j].ply
    BY <1>5, <1>12, <1>13
<1>15. nmpMinPly' # 0 => \E i \in 1..m : frames'[i].pc = "verify"
    <2>1. CASE f.pc = "verify"
        BY <1>6, <2>1
    <2>2. CASE nmpMinPly' # 0 /\ Top.pc # "verify" /\ nmpMinPly' = nmpMinPly
        <3>1. PICK i \in 1..n : frames[i].pc = "verify"
            BY <1>4, <2>2
        <3>2. i \in 1..n - 1
            BY <1>1, <2>2, <3>1
        <3>3. QED BY <1>2, <1>7, <3>1, <3>2
    <2>3. QED BY <2>1, <2>2 DEF ExclusionMoves
<1>16. QED BY <1>10, <1>11, <1>14, <1>15 DEF Exclusion, m

\* The board of a move more: the same moves, and one real move more or not.
LEMMA RealMoves ==
    ASSUME NEW b \in Seq(Nat), NEW c \in Seq(Nat), Len(c) = Len(b) + 1,
           \A k \in 1..Len(b) : c[k] = b[k]
    PROVE  Cardinality({k \in 1..Len(c) : c[k] # 0})
               = Cardinality({k \in 1..Len(b) : b[k] # 0}) + (IF c[Len(c)] = 0 THEN 0 ELSE 1)
           /\ Cardinality({k \in 1..Len(b) : b[k] # 0}) \in Nat
<1> DEFINE B == {k \in 1..Len(b) : b[k] # 0}
           C == {k \in 1..Len(c) : c[k] # 0}
<1>1. Len(b) \in Nat /\ Len(c) \in Nat
    BY LenProperties
<1>2. IsFiniteSet(B)
    <2>1. IsFiniteSet(1..Len(b))
        BY <1>1, FS_Interval
    <2>2. QED BY <2>1, FS_Subset
<1>3. Len(c) \notin B
    BY <1>1
<1>4. C = IF c[Len(c)] = 0 THEN B ELSE B \cup {Len(c)}
    BY <1>1
<1> HIDE DEF B, C
<1>5. Cardinality(B \cup {Len(c)}) = Cardinality(B) + 1 /\ Cardinality(B) \in Nat
    BY <1>2, <1>3, FS_AddElement, FS_CardinalityType
<1>6. Cardinality(C) = Cardinality(B) + (IF c[Len(c)] = 0 THEN 0 ELSE 1)
    <2>1. CASE c[Len(c)] = 0
        BY <1>4, <1>5, <2>1
    <2>2. CASE c[Len(c)] # 0
        BY <1>4, <1>5, <2>2
    <2>3. QED BY <2>1, <2>2
<1>7. QED BY <1>5, <1>6 DEF B, C

\* A step leaves the board alone, makes a move, or takes the last one back.
BoardStays(f) == NoMove /\ Bump(f) = Bump(Top) /\ (Bump(f) = 1 => Made(f) = Made(Top))
BoardGrows(f) ==
    /\ Bump(Top) = 0 /\ Bump(f) = 1
    /\ board' = Append(board, Made(f))
    /\ accDepth' = accDepth + IF Made(f) = 0 THEN 0 ELSE 1
BoardShrinks(f) ==
    /\ Bump(Top) = 1 /\ Bump(f) = 0
    /\ board' = SubSeq(board, 1, Len(board) - 1)
    /\ accDepth' = accDepth - IF Made(Top) = 0 THEN 0 ELSE 1
BoardMoves(f) == BoardStays(f) \/ BoardGrows(f) \/ BoardShrinks(f)

\* Each of the three keeps board, accumulator and activations together.
LEMMA BoardKept ==
    ASSUME Stack, Board, frames # <<>>, NEW f, f \in Frame \/ f = Gone, Becomes(f), BoardMoves(f)
    PROVE  Board'
<1> DEFINE n == Len(frames)
           m == Len(frames')
           Real(b) == Cardinality({k \in 1..Len(b) : b[k] # 0})
<1>1. /\ n \in Nat \ {0} /\ n \in 1..n /\ Top = frames[n] /\ Top.ply \in Nat
      /\ Bump(Top) \in {0, 1} /\ Made(Top) \in Nat
    BY TopIsLast, FrameFields DEF Made
<1>2. /\ f.ply = Top.ply /\ m \in {n - 1, n, n + 1}
      /\ \A i \in 1..n - 1 : frames'[i] = frames[i]
      /\ IF m = n - 1 THEN f.pc = "gone" ELSE frames'[n] = f /\ f.pc # "gone"
      /\ m = n + 1 => frames'[n + 1].pc = "enter"
      /\ (IF frames' = <<>> THEN 0 ELSE Top'.ply + Bump(Top')) = Top.ply + Bump(f)
    BY DEF Becomes
<1>3. Made(f) \in Nat /\ Bump(f) \in {0, 1} /\ (f.pc = "gone" => Bump(f) = 0)
    <2>1. CASE f \in Frame
        BY <2>1, FrameFields DEF Made, Bump, DeepPcs
    <2>2. CASE f = Gone
        <3>1. Gone.mv = Top.mv /\ Gone.pc = "gone"
            BY TopIsLast DEF Gone, Frame
        <3>2. Top.mv \in Nat
            BY TopIsLast, FrameFields
        <3>3. QED BY <2>2, <3>1, <3>2 DEF Made, Bump, DeepPcs
    <2>3. QED BY <2>1, <2>2
<1>4. /\ board \in Seq(Nat) /\ Len(board) = Top.ply + Bump(Top) /\ accDepth = Real(board)
      /\ \A i \in 1..n : frames[i].pc \in DeepPcs => board[frames[i].ply + 1] = Made(frames[i])
      /\ \A k \in 1..Len(board) : \E i \in 1..n : frames[i].pc \in DeepPcs /\ frames[i].ply + 1 = k
    BY DEF Board, Waiting
<1>5. \A i \in 1..n - 1 : frames[i].pc \in DeepPcs =>
            frames[i].ply \in Nat /\ frames[i].ply + 1 <= Top.ply
    <2> SUFFICES ASSUME NEW i \in 1..n - 1, frames[i].pc \in DeepPcs
                 PROVE  frames[i].ply \in Nat /\ frames[i].ply + 1 <= Top.ply
        OBVIOUS
    <2>1. frames[i].ply + Bump(frames[i]) <= frames[n].ply
        BY <1>1 DEF Stack
    <2>2. Bump(frames[i]) = 1 /\ frames[i].ply \in Nat
        BY CallersWait, FrameFields DEF Bump
    <2>3. QED BY <1>1, <2>1, <2>2
<1> HIDE DEF n, m, Real
<1>6. /\ board' \in Seq(Nat) /\ Len(board') = Top.ply + Bump(f) /\ accDepth' = Real(board')
      /\ \A k \in 1..Top.ply : board'[k] = board[k]
      /\ Bump(f) = 1 => board'[Top.ply + 1] = Made(f)
    <2>1. CASE BoardStays(f)
        <3>1. board' = board /\ accDepth' = accDepth /\ Bump(f) = Bump(Top)
            BY <2>1 DEF BoardStays, NoMove
        <3>2. Bump(f) = 1 => board[Top.ply + 1] = Made(f)
            BY <1>1, <1>4, <2>1 DEF BoardStays, Bump
        <3>3. QED BY <1>4, <3>1, <3>2
    <2>2. CASE BoardGrows(f)
        <3>1. Bump(Top) = 0 /\ Bump(f) = 1 /\ board' = Append(board, Made(f))
              /\ accDepth' = accDepth + IF Made(f) = 0 THEN 0 ELSE 1
            BY <2>2 DEF BoardGrows
        <3>2. /\ board' \in Seq(Nat) /\ Len(board') = Len(board) + 1
              /\ \A k \in 1..Len(board) : board'[k] = board[k]
              /\ board'[Len(board) + 1] = Made(f)
            BY <1>3, <1>4, <3>1, AppendProperties
        <3>3. accDepth' = Real(board')
            BY ZenonT(60), <1>4, <3>1, <3>2, RealMoves DEF Real
        <3>4. QED BY <1>1, <1>4, <3>1, <3>2, <3>3
    <2>3. CASE BoardShrinks(f)
        <3>1. Bump(Top) = 1 /\ Bump(f) = 0 /\ board' = SubSeq(board, 1, Len(board) - 1)
              /\ accDepth' = accDepth - IF Made(Top) = 0 THEN 0 ELSE 1
            BY <2>3 DEF BoardShrinks
        <3>2. Len(board) = Top.ply + 1 /\ board[Len(board)] = Made(Top)
            BY <1>1, <1>4, <3>1 DEF Bump
        <3>3. \A k \in 1..Len(board) - 1 : board[k] \in Nat
            BY SMTT(30), <1>1, <1>4, <3>2, ElementOfSeq
        <3> DEFINE t == SubSeq(board, 1, Len(board) - 1)
        <3>4. /\ t \in Seq(Nat)
              /\ Len(t) = IF 1 <= Len(board) - 1 THEN Len(board) - 1 - 1 + 1 ELSE 0
              /\ \A k \in 1..Len(board) - 1 - 1 + 1 : t[k] = board[1 + k - 1]
            BY <1>1, <3>2, <3>3, SubSeqProperties
        <3> HIDE DEF t
        <3>5. Len(t) = Top.ply /\ \A k \in 1..Top.ply : t[k] = board[k]
            BY SMTT(30), <1>1, <3>2, <3>4
        <3>6. board' = t
            BY <3>1 DEF t
        <3>7. Real(board) = Real(t) + (IF Made(Top) = 0 THEN 0 ELSE 1) /\ Real(t) \in Nat
            BY ZenonT(60), <1>1, <1>4, <3>2, <3>4, <3>5, RealMoves DEF Real
        <3>8. accDepth' = Real(t)
            BY <1>4, <3>1, <3>7
        <3>9. /\ board' \in Seq(Nat) /\ Len(board') = Top.ply
              /\ \A k \in 1..Top.ply : board'[k] = board[k]
            BY <3>4, <3>5, <3>6
        <3>10. Real(board') = Real(t)
            BY <3>6
        <3>11. QED BY <1>1, <3>1, <3>8, <3>9, <3>10
    <2>4. QED BY <2>1, <2>2, <2>3 DEF BoardMoves
<1>7. \A i \in 1..m : \/ i \in 1..n - 1 /\ frames'[i] = frames[i]
                      \/ i = n /\ frames'[i] = f
                      \/ i = n + 1 /\ frames'[i].pc = "enter"
    <2> SUFFICES ASSUME NEW i \in 1..m
                 PROVE  \/ i \in 1..n - 1 /\ frames'[i] = frames[i]
                        \/ i = n /\ frames'[i] = f
                        \/ i = n + 1 /\ frames'[i].pc = "enter"
        OBVIOUS
    <2>1. CASE i \in 1..n - 1
        BY <1>2, <2>1
    <2>2. CASE i = n
        BY <1>1, <1>2, <2>2
    <2>3. CASE i = n + 1
        BY <1>1, <1>2, <2>3
    <2>4. QED BY <1>1, <1>2, <2>1, <2>2, <2>3
<1>8. \A i \in 1..m : frames'[i].pc \in DeepPcs => board'[frames'[i].ply + 1] = Made(frames'[i])
    <2>1. \A i \in 1..n - 1 : frames[i].pc \in DeepPcs => board'[frames[i].ply + 1] = Made(frames[i])
        <3> SUFFICES ASSUME NEW i \in 1..n - 1, frames[i].pc \in DeepPcs
                     PROVE  board'[frames[i].ply + 1] = Made(frames[i])
            OBVIOUS
        <3>1. frames[i].ply + 1 \in 1..Top.ply
            BY <1>1, <1>5
        <3>2. i \in 1..n
            BY <1>1
        <3>3. QED BY <1>4, <1>6, <3>1, <3>2
    <2>2. f.pc \in DeepPcs => board'[f.ply + 1] = Made(f)
        BY <1>2, <1>6 DEF Bump
    <2>3. "enter" \notin DeepPcs
        BY DEF DeepPcs
    <2>4. QED BY <1>7, <2>1, <2>2, <2>3
<1>9. ASSUME NEW k \in 1..Len(board')
      PROVE  \E i \in 1..m : frames'[i].pc \in DeepPcs /\ frames'[i].ply + 1 = k
    <2>1. CASE k <= Top.ply
        <3>1. k \in 1..Len(board)
            BY <1>1, <1>4, <1>6, <2>1
        <3>2. PICK i \in 1..n : frames[i].pc \in DeepPcs /\ frames[i].ply + 1 = k
            BY <1>4, <3>1
        <3>3. i \in 1..n - 1
            BY <1>1, <2>1, <3>2
        <3>4. frames'[i] = frames[i] /\ i \in 1..m
            BY <1>1, <1>2, <3>3
        <3>5. QED BY <3>2, <3>4
    <2>2. CASE k > Top.ply
        <3>1. Bump(f) = 1 /\ k = Top.ply + 1
            BY <1>1, <1>3, <1>6, <2>2
        <3>2. f.pc \in DeepPcs /\ n \in 1..m /\ frames'[n] = f
            BY <1>1, <1>2, <1>3, <3>1 DEF Bump
        <3>3. QED BY <1>2, <3>1, <3>2
    <2>3. QED BY <1>1, <1>6, <2>1, <2>2
<1>10. QED BY <1>2, <1>6, <1>8, <1>9 DEF Board, Waiting, Real, m

-----------------------------------------------------------------------------
(* The whole invariant under a change of the last activation. *)

Advances == stopped' \in BOOLEAN /\ (stopped => stopped') /\ nmpMinPly' \in Int

\* What a step stores is a score of the last activation's ply.
StoresScore ==
    ~stopped' /\ stored'.bound # 0 =>
        /\ stored'.value \in -(Mate + MaxPly)..(Mate + MaxPly)
        /\ Top.ply <= Reach => stored'.value \in -Mate..Mate

\* The running activation goes on at its node,
LEMMA GotoKeeps ==
    ASSUME IInv, frames # <<>>, NEW f, SameNode(f), Goto(f), f.pc \notin CallPcs, Advances,
           ~stopped' /\ f.pc = "fold" => f.val \in Scores(f.ply),
           LinesMove, HoldsLine(f, cells', stopped'), ExclusionMoves(f.pc), BoardMoves(f),
           StoresScore
    PROVE  IInv'
<1>1. Stack /\ Control /\ Values /\ CellLines /\ Exclusion /\ Board
    BY DEF IInv, Core
<1>2. f \in Frame /\ f.ply = Top.ply
    BY DEF SameNode
<1>3. Stack' /\ Control' /\ Becomes(f)
    BY <1>1, GotoStack DEF Advances
<1>4. Values'
    BY <1>1, GotoValues DEF Advances, Control, CallPcs
<1>5. CellLines'
    BY <1>1, GotoLines
<1>6. Exclusion' /\ Board'
    BY <1>1, <1>2, <1>3, ExclusionKept, BoardKept
<1>7. MateRange'
    <2>1. ret' = NoReturn /\ Top' = f
        BY <1>1, <1>2, GotoShape
    <2>2. StoringPly' = Top.ply
        BY <1>2, <2>1 DEF StoringPly
    <2>3. QED BY <2>1, <2>2 DEF MateRange, StoresScore
<1>8. QED BY <1>3, <1>4, <1>5, <1>6, <1>7 DEF IInv, Core

\* or calls another,
LEMMA CallKeeps ==
    ASSUME IInv, frames # <<>>, NEW f, NEW g, SameNode(f), Call(f, g), Advances,
           g \in Frame, Local(g), ~g.root, Link(f, g), g.pc = "enter",
           ~stopped' /\ f.pc = "verify" => f.val \in Scores(f.ply),
           LinesMove, HoldsLine(f, cells', stopped'), HoldsLine(g, cells', stopped'),
           ExclusionMoves(f.pc), BoardMoves(f), stored'.bound = 0
    PROVE  IInv'
<1>1. Stack /\ Control /\ Values /\ CellLines /\ Exclusion /\ Board
    BY DEF IInv, Core
<1>2. f \in Frame /\ f.pc \in CallPcs
    BY DEF SameNode, Link
<1>3. Stack' /\ Control' /\ Becomes(f)
    BY <1>1, CallStack DEF Advances
<1>4. Values'
    BY <1>1, <1>2, CallValues DEF Advances, Control, CallPcs
<1>5. CellLines'
    BY <1>1, CallLines
<1>6. Exclusion' /\ Board'
    BY <1>1, <1>2, <1>3, ExclusionKept, BoardKept
<1>7. MateRange'
    BY <1>1, <1>2, CallShape DEF MateRange
<1>8. QED BY <1>3, <1>4, <1>5, <1>6, <1>7 DEF IInv, Core

\* or returns a value and the line that goes with it.
LEMMA ReturnKeeps ==
    ASSUME IInv, frames # <<>>, NEW v \in Int, NEW line \in Lines, Return(v, line), Advances,
           ~stopped' => v \in Scores(Top.ply),
           LinesMove, Top.pv /\ ~Top.root /\ ~stopped' => cells'[Top.ply].pv = line,
           ExclusionMoves("gone"), BoardMoves(Gone), StoresScore
    PROVE  IInv'
<1>1. Stack /\ Control /\ Values /\ CellLines /\ Exclusion /\ Board
    BY DEF IInv, Core
<1>2. Gone.pc = "gone"
    BY <1>1, TopIsLast DEF Gone, Frame
<1>3. Stack' /\ Control' /\ Becomes(Gone) /\ ReturnPly' = Top.ply
    BY <1>1, ReturnStack DEF Advances
<1>4. Values'
    BY <1>1, ReturnValues DEF Advances
<1>5. CellLines'
    BY <1>1, ReturnLines
<1>6. Exclusion' /\ Board'
    BY <1>1, <1>2, <1>3, ExclusionKept, BoardKept
<1>7. MateRange'
    <2>1. ret' # NoReturn
        <3>1. line # <<0>>
            BY SMTT(30), ElementOfSeq DEF Lines
        <3>2. QED BY <3>1 DEF Return, NoReturn
    <2>2. StoringPly' = Top.ply
        BY <1>3, <2>1 DEF StoringPly
    <2>3. QED BY <1>3, <1>4, <2>2 DEF MateRange, StoresScore, Values
<1>8. QED BY <1>3, <1>4, <1>5, <1>6, <1>7 DEF IInv, Core

\* What the invariant says of the running activation, and of the shared state
\* that belongs to it.
LEMMA TopFacts ==
    ASSUME IInv, frames # <<>>
    PROVE  /\ Top \in Frame /\ Kind(Top) /\ Window(Top) /\ Count(Top) /\ Score(Top)
           /\ HoldsLine(Top, cells, stopped) /\ cells \in CellType
           /\ stopped \in BOOLEAN /\ nmpMinPly \in Int
           /\ Top.ply \in 0..MaxPly /\ Top.ply \in 0..(MaxPly + 2) /\ Top.ply + 1 \in 0..(MaxPly + 2)
           /\ Top.pc = "exclude" => cells[Top.ply].excluded = 0
<1>1. Stack /\ Control /\ CellLines /\ Exclusion
    BY DEF IInv, Core
<1>2. Len(frames) \in Nat \ {0} /\ Top = frames[Len(frames)] /\ Top \in Frame /\ Local(Top)
    BY <1>1, TopIsLast
<1>3. HoldsLine(Top, cells, stopped) /\ cells \in CellType
    BY <1>1, <1>2 DEF CellLines
<1>4. Top.pc = "exclude" => cells[Top.ply].excluded = 0
    BY <1>1, <1>2 DEF Exclusion
<1>5. Top.ply \in 0..MaxPly /\ Top.ply \in 0..(MaxPly + 2) /\ Top.ply + 1 \in 0..(MaxPly + 2)
    BY <1>2, FrameFields, Numbers
<1>6. QED BY <1>1, <1>2, <1>3, <1>4, <1>5 DEF Control, Local

\* What it says of a value that has just been returned.
LEMMA RetFacts ==
    ASSUME IInv, frames # <<>>, ret # NoReturn
    PROVE  /\ ret.value \in Int /\ ret.line \in Lines
           /\ Top.pc \in CallPcs
           /\ ~stopped => ret.value \in Scores(ReturnPly)
           /\ ~stopped /\ Top.pv /\ Top.pc \in {"pv", "child"} => cells[Top.ply + 1].pv = ret.line
           /\ ~stopped /\ Top.pc = "verify" => Top.val \in Scores(Top.ply)
           /\ Top.pc \notin {"verify", "singular"} => ReturnPly = Top.ply + 1
           /\ Top.pc \in {"verify", "singular"} => ReturnPly = Top.ply
<1>1. Stack /\ Control /\ Values /\ CellLines
    BY DEF IInv, Core
<1>2. Len(frames) \in Nat \ {0} /\ Top = frames[Len(frames)]
    BY <1>1, TopIsLast
<1>3. ~stopped /\ Top.pc = "verify" => Top.val \in Scores(Top.ply)
    BY <1>1, <1>2 DEF Values
<1>4. ret.value \in Int /\ ret.line \in Lines
    BY <1>1 DEF Control
<1>5. QED BY <1>1, <1>3, <1>4 DEF Control, Values, CellLines, ReturnPly

\* The accumulator's depth is a number.
LEMMA AccIsInt ==
    ASSUME IInv
    PROVE  accDepth \in Int
<1>1. board \in Seq(Nat) /\ accDepth = Cardinality({k \in 1..Len(board) : board[k] # 0})
    BY DEF IInv, Core, Board
<1>2. Len(board) \in Nat
    BY <1>1, LenProperties
<1>3. IsFiniteSet(1..Len(board))
    BY <1>2, FS_Interval
<1>4. IsFiniteSet({k \in 1..Len(board) : board[k] # 0})
    BY <1>3, FS_Subset
<1>5. QED BY <1>1, <1>4, FS_CardinalityType

\* A step that leaves the shared stack alone, and one that leaves the board too.
Calm ==
    /\ Advances /\ cells' = cells
    /\ nmpMinPly' = 0 \/ (Top.pc # "verify" /\ nmpMinPly' = nmpMinPly)
    /\ StoresScore
Settled == Calm /\ NoMove

\* A step that stores nothing.
LEMMA NothingStored ==
    ASSUME NoTTStore
    PROVE  StoresScore /\ stored'.bound = 0
BY DEF NoTTStore, NoStore, StoresScore

\* Going on with the line it has; the board may change.
LEMMA PlainGoto ==
    ASSUME IInv, frames # <<>>, NEW f, SameNode(f), Goto(f), Calm, BoardMoves(f),
           Top.pc # "singular",
           f.pc \notin CallPcs, f.pc \notin {"fold", "exclude", "make"}, f.line = Top.line,
           f.pv /\ ~(f.fn = "qsearch" /\ f.pc = "enter")
               => ~(Top.fn = "qsearch" /\ Top.pc = "enter")
    PROVE  IInv'
<1>1. HoldsLine(f, cells, stopped')
    BY TopFacts DEF HoldsLine, SameNode, CallPcs
<1>2. LinesMove
    BY TopFacts DEF Calm, LinesMove
<1>3. ExclusionMoves(f.pc)
    BY TopFacts DEF Calm, ExclusionMoves, CallPcs
<1>4. QED BY <1>1, <1>2, <1>3, GotoKeeps DEF Calm

\* Going on where nothing shared changes.
LEMMA QuietGoto ==
    ASSUME IInv, frames # <<>>, NEW f, SameNode(f), Goto(f), Settled,
           Top.pc \notin DeepPcs, Top.pc # "singular",
           f.pc \notin CallPcs, f.pc \notin {"fold", "exclude", "make"}, f.line = Top.line,
           f.pv /\ ~(f.fn = "qsearch" /\ f.pc = "enter")
               => ~(Top.fn = "qsearch" /\ Top.pc = "enter")
    PROVE  IInv'
<1>1. Bump(f) = 0 /\ Bump(Top) = 0
    BY DEF Bump, DeepPcs, CallPcs
<1>2. BoardMoves(f)
    BY <1>1 DEF BoardMoves, BoardStays, Settled
<1>3. QED BY <1>2, PlainGoto DEF Settled

\* An activation that returned has no move on the board.
LEMMA GoneBump ==
    ASSUME IInv, frames # <<>>
    PROVE  Gone.pc = "gone" /\ Bump(Gone) = 0
<1>1. Gone.pc = "gone"
    BY TopFacts DEF Gone, Frame
<1>2. QED BY <1>1 DEF Bump, DeepPcs

\* Returning with the node's own line; the board may change.
LEMMA PlainReturn ==
    ASSUME IInv, frames # <<>>, NEW v \in Int, NEW line \in Lines, Return(v, line), Calm,
           BoardMoves(Gone), Top.pc # "singular",
           ~stopped' => v \in Scores(Top.ply),
           Top.pv /\ ~Top.root /\ ~stopped'
               => line = Top.line /\ ~(Top.fn = "qsearch" /\ Top.pc = "enter")
    PROVE  IInv'
<1>1. Top.pv /\ ~Top.root /\ ~stopped' => cells'[Top.ply].pv = line
    BY TopFacts DEF HoldsLine, Calm
<1>2. LinesMove
    BY TopFacts DEF Calm, LinesMove
<1>3. ExclusionMoves("gone")
    BY TopFacts DEF Calm, ExclusionMoves
<1>4. QED BY <1>1, <1>2, <1>3, ReturnKeeps DEF Calm

\* Returning where nothing shared changes.
LEMMA QuietReturn ==
    ASSUME IInv, frames # <<>>, NEW v \in Int, NEW line \in Lines, Return(v, line), Settled,
           Top.pc \notin DeepPcs, Top.pc # "singular",
           ~stopped' => v \in Scores(Top.ply),
           Top.pv /\ ~Top.root /\ ~stopped'
               => line = Top.line /\ ~(Top.fn = "qsearch" /\ Top.pc = "enter")
    PROVE  IInv'
<1>1. Bump(Gone) = 0 /\ Bump(Top) = 0
    BY GoneBump DEF Bump
<1>2. BoardMoves(Gone)
    BY <1>1 DEF BoardMoves, BoardStays, Settled
<1>3. QED BY <1>2, PlainReturn DEF Settled

\* The first frame and a call of either function, with nothing in them yet.
LEMMA NodeFrame ==
    ASSUME NEW ply \in 0..MaxPly, NEW alpha \in Int, NEW beta \in Int, NEW depth \in Int,
           NEW cut \in BOOLEAN, NEW pv \in BOOLEAN
    PROVE  /\ Node(ply, alpha, beta, depth, cut, pv) \in Frame
           /\ QNode(ply, alpha, beta, pv) \in Frame
<1>1. <<>> \in Lines
    BY EmptySeq DEF Lines
<1>2. VALUE_NONE \in Int /\ -VALUE_INFINITE \in Int
    BY Numbers DEF VALUE_NONE, VALUE_INFINITE
<1>3. Miss \in Answers
    BY <1>2 DEF Miss, Answers
<1>4. Node(ply, alpha, beta, depth, cut, pv) \in Frame
    BY <1>1, <1>2, <1>3, Numbers DEF Node, Frame, SearchPcs, QSearchPcs
<1>5. Node(ply, alpha, beta, 0, FALSE, pv) \in Frame
    BY <1>1, <1>2, <1>3, Numbers DEF Node, Frame, SearchPcs, QSearchPcs
<1>6. QNode(ply, alpha, beta, pv) \in Frame
    BY <1>5 DEF QNode, Frame
<1>7. QED BY <1>4, <1>6

\* A call is well formed when its window is.
LEMMA FreshNode ==
    ASSUME NEW ply \in 0..MaxPly, NEW alpha \in Int, NEW beta \in Int, NEW depth \in Int,
           NEW cut \in BOOLEAN, NEW pv \in BOOLEAN,
           -VALUE_INFINITE <= alpha, alpha < beta, beta <= VALUE_INFINITE,
           pv \/ alpha = beta - 1, ~(pv /\ cut), alpha <= mate_in(ply)
    PROVE  Local(Node(ply, alpha, beta, depth, cut, pv))
<1> DEFINE g == Node(ply, alpha, beta, depth, cut, pv)
<1>1. /\ g.fn = "search" /\ g.pc = "enter" /\ ~g.root /\ g.ply = ply /\ g.alpha = alpha
      /\ g.beta = beta /\ g.pv = pv /\ g.cut = cut /\ g.n = 0 /\ g.best = -VALUE_INFINITE
      /\ g.line = <<>> /\ g.tt = Miss
    BY DEF Node
<1> HIDE DEF g
<1>2. Kind(g)
    BY <1>1 DEF Kind, SearchPcs
<1>3. Window(g)
    BY <1>1 DEF Window
<1>4. Count(g)
    BY <1>1 DEF Count, MovePcs
<1>5. Score(g)
    BY <1>1 DEF Score, Miss
<1>6. QED BY <1>2, <1>3, <1>4, <1>5 DEF Local, g

\* A call of qsearch that takes over the marks of a node's re-entry.
QAgain(ply, alpha, beta, pv, again, check) ==
    [QNode(ply, alpha, beta, pv) EXCEPT !.again = again, !.check = check]

\* It is well formed when its window is.
LEMMA FreshQNode ==
    ASSUME NEW ply \in 0..MaxPly, NEW alpha \in Int, NEW beta \in Int, NEW pv \in BOOLEAN,
           NEW again \in BOOLEAN, NEW check \in BOOLEAN,
           -VALUE_INFINITE <= alpha, alpha < beta, beta <= VALUE_INFINITE,
           pv \/ alpha = beta - 1
    PROVE  LET g == QAgain(ply, alpha, beta, pv, again, check)
           IN  /\ g \in Frame /\ Local(g) /\ g.ply = ply /\ g.pv = pv /\ ~g.root
               /\ g.fn = "qsearch" /\ g.pc = "enter" /\ g.line = <<>>
<1> DEFINE g == QAgain(ply, alpha, beta, pv, again, check)
<1>1. QNode(ply, alpha, beta, pv) \in Frame
    BY NodeFrame
<1>2. g \in Frame
    BY <1>1 DEF Frame, QAgain
<1>3. /\ g.fn = "qsearch" /\ g.pc = "enter" /\ ~g.root /\ g.ply = ply /\ g.alpha = alpha
      /\ g.beta = beta /\ g.pv = pv /\ ~g.cut /\ g.n = 0 /\ g.best = -VALUE_INFINITE
      /\ g.line = <<>> /\ g.tt = Miss
    BY DEF QAgain, QNode, Node
<1> HIDE DEF g
<1>4. Kind(g)
    BY <1>3 DEF Kind, QSearchPcs
<1>5. Window(g)
    BY <1>3 DEF Window
<1>6. Count(g)
    BY <1>3 DEF Count
<1>7. Score(g)
    BY <1>3 DEF Score, Miss
<1>8. QED BY <1>2, <1>3, <1>4, <1>5, <1>6, <1>7 DEF Local, g
-----------------------------------------------------------------------------
(* search: from the call to the move loop. *)

\* check_time, draws, the ply limit, and the mate distance.
LEMMA EnterKeeps ==
    ASSUME IInv, Enter
    PROVE  IInv'
<1>1. frames # <<>> /\ Top.fn = "search" /\ Top.pc = "enter" /\ Top.depth > 0
    BY DEF Enter, Running
<1>2. Settled
    <2>1. NoMove /\ NoTTStore /\ cells' = cells /\ nmpMinPly' = nmpMinPly
          /\ stopped' \in {stopped, TRUE}
        BY DEF Enter
    <2>2. stopped \in BOOLEAN /\ nmpMinPly \in Int
        BY <1>1, TopFacts
    <2>3. Advances
        BY <2>1, <2>2, Zenon DEF Advances
    <2>4. QED BY <1>1, <2>1, <2>3, NothingStored DEF Settled, Calm
<1>3. /\ Top \in Frame /\ Kind(Top) /\ Window(Top) /\ Count(Top) /\ Score(Top)
      /\ Top.ply \in 0..MaxPly
    BY <1>1, TopFacts
<1>4. Top.line = <<>>
    BY <1>1, <1>3 DEF Count
<1>5. <<>> \in Lines
    BY EmptySeq DEF Lines
<1>6. \A v \in Scores(Top.ply) : v \in Int
    BY <1>3, ScoreNumber
<1>7. ASSUME NEW v \in Scores(Top.ply), Return(v, <<>>)
      PROVE  IInv'
    BY <1>1, <1>2, <1>4, <1>5, <1>6, <1>7, QuietReturn DEF DeepPcs
<1> DEFINE alpha == IF Top.root THEN Top.alpha ELSE Larger(mated_in(Top.ply), Top.alpha)
           beta == IF Top.root THEN Top.beta ELSE Smaller(mate_in(Top.ply + 1), Top.beta)
<1>8. alpha \in Int /\ beta \in Int
    BY <1>3, Numbers, FrameFields DEF Larger, Smaller, mated_in, mate_in
<1>9. CASE Return(alpha, <<>>) /\ alpha >= beta
    <2>1. ~Top.root
        BY <1>3, <1>9, FrameFields DEF Window
    <2>2. alpha \in Scores(Top.ply)
        BY <1>1, <1>3, <1>8, <2>1, ScoreOwn, Numbers, FrameFields
        DEF Window, OwnScores, Larger, mated_in, mate_in
    <2>3. QED BY <1>7, <1>9, <2>2
<1>10. ASSUME NEW check \in BOOLEAN, alpha < beta, Top.root \/ Top.ply < MaxPly,
              Goto([Top EXCEPT !.pc = "probe", !.check = check, !.alpha = alpha, !.beta = beta,
                               !.depth = Smaller(Top.depth, DepthCap)])
       PROVE  IInv'
    <2> DEFINE f == [Top EXCEPT !.pc = "probe", !.check = check, !.alpha = alpha,
                                !.beta = beta, !.depth = Smaller(Top.depth, DepthCap)]
    <2>1. Smaller(Top.depth, DepthCap) \in Int /\ Smaller(Top.depth, DepthCap) >= 1
        BY <1>1, <1>3, FrameFields, SearchAssumption DEF Smaller
    <2>2. f \in Frame
        BY ZenonT(60), <1>3, <1>8, <2>1 DEF Frame, SearchPcs, BeforePcs
    <2>3. /\ f.pc = "probe" /\ f.alpha = alpha /\ f.beta = beta /\ f.depth >= 1
          /\ f.fn = Top.fn /\ f.ply = Top.ply /\ f.root = Top.root /\ f.pv = Top.pv
          /\ f.cut = Top.cut /\ f.n = Top.n /\ f.best = Top.best /\ f.line = Top.line
          /\ f.tt = Top.tt /\ f.mv = Top.mv
        BY <1>3, <2>1 DEF Frame
    <2> HIDE DEF f
    <2>4. Kind(f)
        BY <1>1, <1>3, <1>10, <2>3, Numbers DEF Kind, SearchPcs, BeforePcs
    <2>5. /\ Top.alpha \in Int /\ Top.beta \in Int /\ Top.ply \in Int /\ f.alpha < f.beta
          /\ -VALUE_INFINITE <= Top.alpha /\ Top.alpha < Top.beta /\ Top.beta <= VALUE_INFINITE
          /\ Top.pv \/ Top.alpha = Top.beta - 1
          /\ ~(f.pv /\ f.cut) /\ (f.root => f.beta > -Mate)
        BY <1>3, <1>10, <2>3, FrameFields DEF Window
    <2>6. /\ f.root => f.alpha = Top.alpha /\ f.beta = Top.beta
          /\ ~f.root => /\ f.alpha = Larger(mated_in(Top.ply), Top.alpha)
                        /\ f.beta = Smaller(mate_in(Top.ply + 1), Top.beta)
        BY <2>3
    <2>7. /\ -VALUE_INFINITE <= f.alpha /\ f.beta <= VALUE_INFINITE
          /\ f.pv \/ f.alpha = f.beta - 1
          /\ ~f.root => mated_in(f.ply) <= f.alpha /\ f.beta <= mate_in(f.ply + 1)
        BY <2>3, <2>5, <2>6, Numbers DEF Larger, Smaller, mated_in, mate_in, VALUE_INFINITE
    <2>8. f.n = 0
        BY <1>1, <1>3, <2>3 DEF Count
    <2>9. Window(f)
        BY <2>3, <2>5, <2>7, <2>8 DEF Window, MovePcs
    <2>10. Count(f)
        BY <1>1, <1>3, <2>3 DEF Count, BeforePcs, MovePcs
    <2>11. Score(f)
        BY <1>3, <2>3 DEF Score
    <2>12. SameNode(f)
        BY <2>2, <2>3, <2>4, <2>9, <2>10, <2>11 DEF SameNode, Local
    <2>13. QED BY <1>1, <1>2, <1>10, <2>3, <2>12, QuietGoto DEF f, DeepPcs, CallPcs
<1> HIDE DEF alpha, beta
<1>11. QED
    <2>1. CASE \E v \in RepetitionScores(Top.ply) : Return(v, <<>>)
        BY <1>3, <1>7, <2>1, DrawsAreScores
    <2>2. CASE \E v \in DrawScores : Return(v, <<>>)
        BY <1>3, <1>7, <2>2, DrawsAreScores
    <2>3. CASE /\ Top.root \/ ~(stopped' \/ Top.ply >= MaxPly)
               /\ IF alpha >= beta THEN Return(alpha, <<>>)
                  ELSE \E check \in IF Top.again THEN {Top.check} ELSE BOOLEAN :
                        Goto([Top EXCEPT !.pc = "probe", !.check = check,
                                 !.alpha = alpha, !.beta = beta,
                                 !.depth = Smaller(Top.depth, DepthCap)])
        <3>1. Top.check \in BOOLEAN /\ Top.ply \in Int /\ MaxPly \in Int
            BY <1>3, FrameFields, Numbers
        <3>2. CASE alpha >= beta
            BY <1>9, <2>3, <3>2
        <3>3. CASE ~(alpha >= beta)
            <4>1. PICK check \in BOOLEAN :
                    Goto([Top EXCEPT !.pc = "probe", !.check = check,
                             !.alpha = alpha, !.beta = beta,
                             !.depth = Smaller(Top.depth, DepthCap)])
                BY <2>3, <3>1, <3>3
            <4>2. alpha < beta
                BY <1>8, <3>3
            <4>3. Top.root \/ ~(Top.ply >= MaxPly)
                BY <2>3, Zenon
            <4>4. Top.root \/ Top.ply < MaxPly
                BY <3>1, <4>3
            <4>5. QED BY <1>10, <4>1, <4>2, <4>4
        <3>4. QED BY <3>2, <3>3
    <2>4. QED BY <2>1, <2>2, <2>3 DEF Enter, alpha, beta

\* When a step leaves the shared stack alone,
LEMMA Calms ==
    ASSUME IInv, frames # <<>>, UNCHANGED <<cells, nmpMinPly, stopped>>,
           Top.pc # "verify", StoresScore
    PROVE  Calm
<1>1. cells' = cells /\ nmpMinPly' = nmpMinPly /\ stopped' = stopped
    OBVIOUS
<1>2. stopped \in BOOLEAN /\ nmpMinPly \in Int
    BY TopFacts
<1>3. stopped' \in BOOLEAN /\ nmpMinPly' \in Int
    BY <1>1, <1>2
<1>4. stopped => stopped'
    BY <1>1
<1>5. QED BY <1>1, <1>3, <1>4 DEF Calm, Advances

\* and the board as well.
LEMMA Settles ==
    ASSUME IInv, frames # <<>>, NoMove, UNCHANGED <<cells, nmpMinPly, stopped>>,
           Top.pc # "verify", StoresScore
    PROVE  Settled
BY Calms DEF Settled

\* A call off the PV.
LEMMA QuietCall ==
    ASSUME IInv, frames # <<>>, NEW f, NEW g, SameNode(f), Call(f, g), Advances,
           g \in Frame, Local(g), ~g.root, ~g.pv, g.pc = "enter", g.ply = f.ply + Bump(f),
           f.pc \in CallPcs \ {"singular"}, f.pv => f.pc \notin {"pv", "child"},
           f.pv /\ f.pc \in {"lmr", "zero"} => Top.pc \in {"make", "lmr"},
           ~(Top.fn = "qsearch" /\ Top.pc = "enter"), Top.pc # "singular", f.line = Top.line,
           cells' = cells, stored'.bound = 0, BoardMoves(f),
           f.pc = "verify" \/ (Top.pc # "verify" /\ nmpMinPly' = nmpMinPly),
           ~stopped' /\ f.pc = "verify" => f.val \in Scores(f.ply)
    PROVE  IInv'
<1>1. HoldsLine(f, cells', stopped') /\ HoldsLine(g, cells', stopped')
    BY TopFacts DEF HoldsLine, SameNode, CallPcs
<1>2. LinesMove
    BY TopFacts DEF LinesMove
<1>3. ExclusionMoves(f.pc)
    BY TopFacts DEF ExclusionMoves, CallPcs
<1>4. Link(f, g)
    BY DEF Link
<1>5. QED BY <1>1, <1>2, <1>3, <1>4, CallKeeps

\* What the table may answer is a score of the ply.
LEMMA ProbesAreScores ==
    ASSUME NEW ply \in 0..MaxPly, NEW tt \in Probes(ply)
    PROVE  tt \in Answers /\ (tt.value = VALUE_NONE \/ tt.value \in OwnScores(ply))
<1>1. VALUE_NONE \in Int
    BY Numbers DEF VALUE_NONE
<1>2. CASE tt = Miss
    BY <1>1, <1>2 DEF Miss, Answers
<1>3. CASE tt # Miss
    <2>1. PICK w \in TTValues \cup {VALUE_NONE} : tt.value = value_from_tt(w, ply)
        BY <1>3 DEF Probes
    <2>2. tt.value = VALUE_NONE \/ tt.value \in OwnScores(ply)
        BY <2>1, ReadInRange, SearchAssumption DEF value_from_tt
    <2>3. \A v \in OwnScores(ply) : v \in Int
        BY Numbers DEF OwnScores, mated_in, mate_in
    <2>4. tt \in Answers
        <3> DEFINE V == {value_from_tt(v, ply) : v \in TTValues \cup {VALUE_NONE}}
        <3>1. tt \in [hit : {TRUE}, value : V, bound : 1..3, depth : TTDepths, move : {0, 1}]
            BY <1>3 DEF Probes
        <3> HIDE DEF V
        <3>2. tt.value \in Int
            BY <1>1, <2>2, <2>3
        <3>3. /\ tt = [hit |-> TRUE, value |-> tt.value, bound |-> tt.bound,
                       depth |-> tt.depth, move |-> tt.move]
              /\ tt.bound \in 1..3 /\ tt.depth \in TTDepths /\ tt.move \in {0, 1}
            BY <3>1
        <3>4. \A v \in Int, b \in 0..3, d \in Int, m \in {0, 1} :
                [hit |-> TRUE, value |-> v, bound |-> b, depth |-> d, move |-> m] \in Answers
            BY DEF Answers
        <3>5. tt.depth \in Int /\ tt.bound \in 0..3
            BY <3>3, NumbersAssumption
        <3>6. QED BY <3>2, <3>3, <3>4, <3>5
    <2>5. QED BY <2>2, <2>4
<1>4. QED BY <1>2, <1>3

\* A node before its moves.
LEMMA BeforeMoves ==
    ASSUME IInv, frames # <<>>, Top.fn = "search", Top.pc \in BeforePcs, NEW f \in Frame,
           f.fn = "search", f.ply = Top.ply, f.root = Top.root, f.pv = Top.pv, f.cut = Top.cut,
           f.alpha = Top.alpha, f.beta = Top.beta, f.n = Top.n, f.best = Top.best,
           f.line = Top.line, f.tt.value = VALUE_NONE \/ f.tt.value \in OwnScores(f.ply),
           f.pc \in BeforePcs \cup {"next"}, f.depth >= 1,
           f.pc \in {"null", "verify"} => ~f.pv,
           f.pc \in {"probcut_q", "probcut_s"} => ~is_decisive(f.beta) /\ f.mv > 0
    PROVE  SameNode(f)
<1>1. Top \in Frame /\ Kind(Top) /\ Window(Top) /\ Count(Top) /\ Score(Top)
    BY TopFacts
<1>2. f.pc \notin MovePcs /\ f.pc \notin {"enter", "tail", "lmr", "exclude", "singular", "stand"}
      /\ Top.pc # "enter" /\ f.mv \in Nat
    BY FrameFields DEF BeforePcs, MovePcs
<1>3. f.n = 0 /\ f.best = -VALUE_INFINITE /\ f.line = <<>>
    BY <1>1 DEF Count
<1>4. Kind(f)
    BY <1>1, <1>2 DEF Kind, SearchPcs
<1>5. Window(f)
    BY <1>1, <1>2, <1>3 DEF Window
<1>6. Count(f)
    BY <1>2, <1>3 DEF Count
<1>7. Score(f)
    BY <1>1 DEF Score
<1>8. QED BY <1>4, <1>5, <1>6, <1>7 DEF SameNode, Local

\* The call becomes a qsearch of the same node.
LEMMA QuietDive ==
    ASSUME IInv, frames # <<>>, Settled, Top.fn = "search", Top.pc \in {"enter", "eval"}, ~Top.root,
           NEW again \in BOOLEAN, NEW check \in BOOLEAN,
           Goto(QAgain(Top.ply, Top.alpha, Top.beta, Top.pv, again, check))
    PROVE  IInv'
<1> DEFINE g == QAgain(Top.ply, Top.alpha, Top.beta, Top.pv, again, check)
<1>1. Top \in Frame /\ Window(Top) /\ Count(Top) /\ Top.ply \in 0..MaxPly
    BY TopFacts
<1>2. Top.alpha \in Int /\ Top.beta \in Int /\ Top.pv \in BOOLEAN
    BY <1>1, FrameFields
<1>3. Top.line = <<>>
    BY <1>1 DEF Count, BeforePcs
<1>4. /\ -VALUE_INFINITE <= Top.alpha /\ Top.alpha < Top.beta /\ Top.beta <= VALUE_INFINITE
      /\ Top.pv \/ Top.alpha = Top.beta - 1
    BY <1>1 DEF Window
<1>5. /\ g \in Frame /\ Local(g) /\ g.ply = Top.ply /\ g.pv = Top.pv /\ ~g.root
      /\ g.fn = "qsearch" /\ g.pc = "enter" /\ g.line = <<>>
    BY <1>1, <1>2, <1>4, FreshQNode
<1> HIDE DEF g
<1>6. SameNode(g)
    BY <1>1, <1>5, FrameFields DEF SameNode
<1>7. Goto(g)
    BY DEF g
<1>8. QED BY <1>3, <1>5, <1>6, <1>7, QuietGoto DEF DeepPcs, CallPcs

\* A call of search with no depth left becomes one of qsearch.
LEMMA DiveKeeps ==
    ASSUME IInv, Dive
    PROVE  IInv'
<1>1. /\ frames # <<>> /\ Top.fn = "search" /\ Top.pc = "enter" /\ Top.depth <= 0
      /\ NoMove /\ NoTTStore /\ UNCHANGED <<cells, nmpMinPly, stopped>>
      /\ Goto(QAgain(Top.ply, Top.alpha, Top.beta, Top.pv, Top.again, Top.check))
    BY DEF Dive, Running, QAgain
<1>2. Settled
    BY <1>1, Settles, NothingStored
<1>3. Top \in Frame /\ Kind(Top)
    BY <1>1, TopFacts
<1>4. ~Top.root /\ Top.again \in BOOLEAN /\ Top.check \in BOOLEAN
    BY <1>1, <1>3, FrameFields DEF Kind
<1>5. QED BY <1>1, <1>2, <1>4, QuietDive

\* The table's answer, its cutoff, and the mate in one.
LEMMA ProbeKeeps ==
    ASSUME IInv, Probe
    PROVE  IInv'
<1>1. /\ frames # <<>> /\ Top.fn = "search" /\ Top.pc = "probe"
      /\ NoMove /\ UNCHANGED <<cells, nmpMinPly, stopped>>
    BY DEF Probe, Running
<1>2. /\ Top \in Frame /\ Kind(Top) /\ Window(Top) /\ Count(Top) /\ Score(Top)
      /\ Top.ply \in 0..MaxPly
    BY <1>1, TopFacts
<1>3. Top.line = <<>> /\ <<>> \in Lines
    BY <1>1, <1>2, EmptySeq DEF Count, BeforePcs, Lines
<1>4. NoTTStore => Settled
    BY <1>1, Settles, NothingStored
<1>5. mate_in(Top.ply + 1) \in Int /\ mate_in(Top.ply + 1) \in Scores(Top.ply)
    BY <1>2, ScoreOwn, Numbers DEF mate_in
<1>6. ASSUME NEW v \in Scores(Top.ply), Return(v, <<>>), Settled
      PROVE  IInv'
    BY <1>1, <1>2, <1>3, <1>6, ScoreNumber, QuietReturn DEF DeepPcs
<1>7. PICK answer \in Probes(Top.ply) :
        LET tt == IF Top.root THEN [answer EXCEPT !.move = 1] ELSE answer
        IN \/ Return(tt.value, <<>>) /\ NoTTStore /\ tt.value # VALUE_NONE
           \/ /\ tt_store(mate_in(Top.ply + 1), 3, FALSE)
              /\ Return(mate_in(Top.ply + 1), <<>>)
           \/ Return(mate_in(Top.ply + 1), <<>>) /\ NoTTStore
           \/ /\ Goto([Top EXCEPT !.tt = tt, !.pc = IF Top.check THEN "moves" ELSE "eval"])
              /\ NoTTStore
    BY DEF Probe, CutoffAllowed
<1> DEFINE tt == IF Top.root THEN [answer EXCEPT !.move = 1] ELSE answer
           f == [Top EXCEPT !.tt = tt, !.pc = IF Top.check THEN "moves" ELSE "eval"]
<1>8. tt \in Answers /\ (tt.value = VALUE_NONE \/ tt.value \in OwnScores(Top.ply))
    BY <1>2, ProbesAreScores DEF Answers
<1>9. CASE Return(tt.value, <<>>) /\ NoTTStore /\ tt.value # VALUE_NONE
    <2>1. tt.value \in Scores(Top.ply)
        BY <1>2, <1>8, <1>9, ScoreOwn DEF Answers
    <2> HIDE DEF tt
    <2>2. QED BY <1>4, <1>6, <1>9, <2>1
<1>10. CASE tt_store(mate_in(Top.ply + 1), 3, FALSE) /\ Return(mate_in(Top.ply + 1), <<>>)
    <2>1. StoresScore
        BY <1>2, <1>10, Numbers DEF tt_store, StoresScore, mate_in
    <2>2. QED BY <1>1, <1>5, <1>6, <1>10, <2>1, Settles
<1>11. CASE Return(mate_in(Top.ply + 1), <<>>) /\ NoTTStore
    BY <1>4, <1>5, <1>6, <1>11
<1> HIDE DEF tt
<1>12. CASE Goto(f) /\ NoTTStore
    <2>1. f \in Frame
        BY <1>2, <1>8 DEF Frame, SearchPcs, BeforePcs
    <2>2. /\ f.pc \in {"moves", "eval"} /\ f.depth = Top.depth /\ f.tt = tt
          /\ f.fn = Top.fn /\ f.ply = Top.ply /\ f.root = Top.root /\ f.pv = Top.pv
          /\ f.cut = Top.cut /\ f.n = Top.n /\ f.best = Top.best /\ f.line = Top.line
          /\ f.alpha = Top.alpha /\ f.beta = Top.beta
        BY <1>2 DEF Frame
    <2> HIDE DEF f
    <2>3. SameNode(f)
        BY <1>1, <1>2, <1>8, <2>1, <2>2, BeforeMoves DEF Kind, BeforePcs
    <2>4. QED BY <1>1, <1>4, <1>12, <2>2, <2>3, QuietGoto DEF DeepPcs, CallPcs
<1>13. QED BY <1>7, <1>9, <1>10, <1>11, <1>12 DEF tt

\* On to ProbCut, one ply less deep where the table has no move.
LEMMA ProbCutNode ==
    ASSUME IInv, frames # <<>>, Top.fn = "search", Top.pc \in BeforePcs, NEW f \in Frame,
           f.fn = "search", f.ply = Top.ply, f.root = Top.root, f.pv = Top.pv, f.cut = Top.cut,
           f.alpha = Top.alpha, f.beta = Top.beta, f.n = Top.n, f.best = Top.best,
           f.line = Top.line, f.tt = Top.tt, f.depth >= 1, ToProbCut(f)
    PROVE  \E h : SameNode(h) /\ Goto(h) /\ h.pc = "probcut" /\ h.line = Top.line /\ h.fn = "search"
<1>1. PICK depth \in Iir(f) : Goto([f EXCEPT !.pc = "probcut", !.depth = depth, !.mv = 0, !.val = 0])
    BY DEF ToProbCut
<1>2. depth \in Int /\ depth >= 1
    <2>1. f.depth \in Int /\ IirDepth \in Int /\ IirDepth >= 2
        BY FrameFields, NumbersAssumption
    <2>2. CASE depth = f.depth
        BY <2>1, <2>2
    <2>3. CASE depth = f.depth - 1 /\ f.depth >= IirDepth
        BY <2>1, <2>3
    <2>4. QED BY <1>1, <2>2, <2>3 DEF Iir
<1> DEFINE h == [f EXCEPT !.pc = "probcut", !.depth = depth, !.mv = 0, !.val = 0]
<1>3. h \in Frame
    <2>1. \A pc \in SearchPcs, mv \in Nat, val \in Int :
            [f EXCEPT !.pc = pc, !.depth = depth, !.mv = mv, !.val = val] \in Frame
        BY ZenonT(60), <1>2 DEF Frame
    <2>2. "probcut" \in SearchPcs /\ 0 \in Nat /\ 0 \in Int
        BY DEF SearchPcs, BeforePcs
    <2>3. QED BY <2>1, <2>2, Zenon
<1>4. /\ h.pc = "probcut" /\ h.depth = depth /\ h.fn = f.fn /\ h.ply = f.ply /\ h.root = f.root
      /\ h.pv = f.pv /\ h.cut = f.cut /\ h.alpha = f.alpha /\ h.beta = f.beta /\ h.n = f.n
      /\ h.best = f.best /\ h.line = f.line /\ h.tt = f.tt
    BY DEF Frame
<1>5. Goto(h)
    BY <1>1
<1> HIDE DEF h
<1>6. Score(Top)
    BY TopFacts
<1>7. SameNode(h)
    BY <1>2, <1>3, <1>4, <1>6, BeforeMoves DEF BeforePcs, Score
<1>8. QED BY <1>4, <1>5, <1>7

\* A capture, or a null move, is searched off the PV from a node before its moves.
LEMMA CallBefore ==
    ASSUME IInv, frames # <<>>, Top.fn = "search", Top.pc \in BeforePcs, NEW f \in Frame,
           f.fn = "search", f.ply = Top.ply, f.root = Top.root, f.pv = Top.pv, f.cut = Top.cut,
           f.alpha = Top.alpha, f.beta = Top.beta, f.n = Top.n, f.best = Top.best,
           f.line = Top.line, f.tt.value = VALUE_NONE \/ f.tt.value \in OwnScores(f.ply),
           f.depth >= 1, f.pc \in {"null", "probcut_q", "probcut_s"},
           f.pc = "null" => ~f.pv,
           f.pc \in {"probcut_q", "probcut_s"} => ~is_decisive(f.beta) /\ f.mv > 0,
           BoardMoves(f), stored'.bound = 0, UNCHANGED <<cells, nmpMinPly, stopped>>,
           Top.pc # "verify",
           NEW g \in Frame, Local(g), ~g.root, ~g.pv, g.pc = "enter", g.ply = f.ply + 1, Call(f, g)
    PROVE  IInv'
<1>1. SameNode(f)
    BY BeforeMoves DEF BeforePcs
<1>2. Bump(f) = 1
    BY DEF Bump, DeepPcs
<1>3. Advances
    <2>1. stopped \in BOOLEAN /\ nmpMinPly \in Int /\ stopped' = stopped /\ nmpMinPly' = nmpMinPly
        BY TopFacts
    <2>2. stopped' \in BOOLEAN /\ nmpMinPly' \in Int /\ (stopped => stopped')
        BY <2>1
    <2>3. QED BY <2>2 DEF Advances
<1>4. f.pc \in CallPcs \ {"singular"} /\ f.pc \notin {"pv", "child", "lmr", "zero", "verify"}
    BY DEF CallPcs
<1>5. ~(Top.fn = "qsearch" /\ Top.pc = "enter") /\ Top.pc # "singular"
    BY DEF BeforePcs
<1>6. cells' = cells /\ nmpMinPly' = nmpMinPly
    OBVIOUS
<1>7. QED BY <1>1, <1>2, <1>3, <1>4, <1>5, <1>6, QuietCall

\* The static evaluation, razoring, futility, and the null move.
LEMMA EvaluateKeeps ==
    ASSUME IInv, Evaluate
    PROVE  IInv'
<1>1. /\ frames # <<>> /\ Top.fn = "search" /\ Top.pc = "eval"
      /\ UNCHANGED <<cells, nmpMinPly, stopped>>
      /\ NoTTStore \/ tt_store(VALUE_NONE, 0, FALSE)
    BY DEF Evaluate, Running
<1>2. /\ Top \in Frame /\ Kind(Top) /\ Window(Top) /\ Count(Top) /\ Score(Top)
      /\ Top.ply \in 0..MaxPly
    BY <1>1, TopFacts
<1>3. StoresScore /\ stored'.bound = 0
    BY <1>1, NothingStored DEF tt_store, StoresScore
<1>4. NoMove => Settled
    BY <1>1, <1>3, Settles
<1>5. Top.line = <<>> /\ <<>> \in Lines
    BY <1>1, <1>2, EmptySeq DEF Count, BeforePcs, Lines
<1>6. /\ Top.alpha \in Int /\ Top.beta \in Int /\ Top.depth \in Int /\ Top.depth >= 1
      /\ Top.tt.value \in Int /\ Top.ply < MaxPly /\ Top.cut \in BOOLEAN /\ Top.pv \in BOOLEAN
      /\ Top.root \in BOOLEAN
    BY <1>1, <1>2, FrameFields DEF Kind, Answers
<1>7. PICK static \in Evals, depth \in Hindsight(Top) :
        LET f == [Top EXCEPT !.depth = depth]
            eval == IF /\ ExcludedHere(f) = 0 /\ f.tt.value # VALUE_NONE
                       /\ bound_matches(f.tt.bound, f.tt.value > static)
                    THEN f.tt.value ELSE static
        IN \/ /\ ~f.pv
              /\ Goto(Again(QNode(f.ply, f.alpha, f.beta, FALSE), FALSE))
              /\ NoMove
           \/ /\ eval >= f.beta /\ ~is_loss(f.beta) /\ ~is_win(eval)
              /\ Return(Trunc(2 * f.beta + eval, 3), <<>>) /\ NoMove /\ ~f.pv
           \/ /\ f.cut /\ ~is_loss(f.beta) /\ DoNull
              /\ Call([f EXCEPT !.pc = "null"],
                      Node(f.ply + 1, -f.beta, 1 - f.beta, depth - NullReduction, FALSE, FALSE))
           \/ ToProbCut(f) /\ NoMove
    BY ZenonT(60) DEF Evaluate
<1> DEFINE f == [Top EXCEPT !.depth = depth]
<1> DEFINE eval == IF /\ ExcludedHere(f) = 0 /\ f.tt.value # VALUE_NONE
                      /\ bound_matches(f.tt.bound, f.tt.value > static)
                   THEN f.tt.value ELSE static
<1>8. depth \in Int /\ depth >= 1
    BY <1>6, <1>7 DEF Hindsight
<1>9. f \in Frame
    BY <1>2, <1>8 DEF Frame
<1>10. /\ f.depth = depth /\ f.fn = Top.fn /\ f.ply = Top.ply /\ f.root = Top.root
       /\ f.pv = Top.pv /\ f.cut = Top.cut /\ f.alpha = Top.alpha /\ f.beta = Top.beta
       /\ f.n = Top.n /\ f.best = Top.best /\ f.line = Top.line /\ f.tt = Top.tt /\ f.mv = Top.mv
    BY <1>2 DEF Frame
<1>11. eval \in Int
    BY <1>6, <1>10, NumbersAssumption
<1>12. \/ /\ ~f.pv
          /\ Goto(Again(QNode(f.ply, f.alpha, f.beta, FALSE), FALSE))
          /\ NoMove
       \/ /\ eval >= f.beta /\ ~is_loss(f.beta) /\ ~is_win(eval)
          /\ Return(Trunc(2 * f.beta + eval, 3), <<>>) /\ NoMove /\ ~f.pv
       \/ /\ f.cut /\ ~is_loss(f.beta) /\ DoNull
          /\ Call([f EXCEPT !.pc = "null"],
                  Node(f.ply + 1, -f.beta, 1 - f.beta, depth - NullReduction, FALSE, FALSE))
       \/ ToProbCut(f) /\ NoMove
    BY <1>7, Zenon
<1> DEFINE h == [f EXCEPT !.pc = "null"]
<1>13. h \in Frame
    BY <1>9 DEF Frame, SearchPcs, BeforePcs
<1>14. /\ h.pc = "null" /\ h.depth = depth /\ h.fn = Top.fn /\ h.ply = Top.ply /\ h.root = Top.root
       /\ h.pv = Top.pv /\ h.cut = Top.cut /\ h.alpha = Top.alpha /\ h.beta = Top.beta
       /\ h.n = Top.n /\ h.best = Top.best /\ h.line = Top.line /\ h.tt = Top.tt /\ h.mv = Top.mv
    BY <1>9, <1>10 DEF Frame
<1> HIDE DEF f, eval, h
<1>15. CASE ~f.pv /\ NoMove
            /\ Goto(Again(QNode(f.ply, f.alpha, f.beta, FALSE), FALSE))
    <2>1. Again(QNode(f.ply, f.alpha, f.beta, FALSE), FALSE)
            = QAgain(Top.ply, Top.alpha, Top.beta, FALSE, TRUE, FALSE)
        BY <1>10 DEF QAgain, Again
    <2>2. ~Top.root /\ Top.pv = FALSE
        BY <1>2, <1>6, <1>10, <1>15 DEF Kind
    <2>3. QED BY <1>1, <1>4, <1>15, <2>1, <2>2, QuietDive
<1>16. CASE /\ eval >= f.beta /\ ~is_loss(f.beta) /\ ~is_win(eval)
            /\ Return(Trunc(2 * f.beta + eval, 3), <<>>) /\ NoMove
    <2> DEFINE v == Trunc(2 * f.beta + eval, 3)
    <2>1. v \in f.beta..eval
        BY <1>6, <1>10, <1>11, <1>16, TruncThird
    <2> HIDE DEF v
    <2>2. v \in Int /\ ~is_decisive(v)
        BY SMTT(30), <1>6, <1>10, <1>11, <1>16, <2>1, Numbers DEF is_decisive, is_loss, is_win, TBWin
    <2>3. v \in Scores(Top.ply) /\ Return(v, <<>>)
        BY <1>2, <1>16, <2>2, ScoreOwn DEF v
    <2>4. QED BY <1>1, <1>4, <1>5, <1>16, <2>2, <2>3, QuietReturn DEF DeepPcs
<1>17. CASE /\ f.cut /\ ~is_loss(f.beta) /\ DoNull
            /\ Call(h, Node(f.ply + 1, -f.beta, 1 - f.beta, depth - NullReduction, FALSE, FALSE))
    <2> DEFINE g == Node(Top.ply + 1, -Top.beta, 1 - Top.beta, depth - NullReduction, FALSE, FALSE)
    <2>1. /\ Top.ply + 1 \in 0..MaxPly /\ -Top.beta \in Int /\ 1 - Top.beta \in Int
          /\ depth - NullReduction \in Int
        BY <1>2, <1>6, <1>8, NumbersAssumption, Numbers
    <2>2. /\ -VALUE_INFINITE <= -Top.beta /\ -Top.beta < 1 - Top.beta /\ 1 - Top.beta <= VALUE_INFINITE
          /\ -Top.beta = (1 - Top.beta) - 1 /\ -Top.beta <= mate_in(Top.ply + 1)
        BY <1>2, <1>6, <1>10, <1>17, <2>1, Numbers
        DEF Window, is_loss, TBWin, VALUE_INFINITE, mate_in
    <2>3. g \in Frame /\ Local(g)
        BY <2>1, <2>2, NodeFrame, FreshNode
    <2>4. g.pc = "enter" /\ ~g.pv /\ ~g.root /\ g.ply = Top.ply + 1
        BY DEF Node
    <2> HIDE DEF g
    <2>5. Call(h, g)
        BY <1>10, <1>17 DEF g
    <2>6. ~h.pv
        BY <1>2, <1>6, <1>10, <1>14, <1>17 DEF Window
    <2>7. Made(h) = 0 /\ Bump(h) = 1 /\ Bump(Top) = 0
        BY <1>1, <1>14 DEF Made, Bump, DeepPcs
    <2>8. BoardMoves(h)
        <3>1. board' = Append(board, Made(h)) /\ accDepth' = accDepth
            BY <1>17, <2>7 DEF DoNull
        <3>2. accDepth \in Int
            BY <1>1, AccIsInt
        <3>3. QED BY <2>7, <3>1, <3>2 DEF BoardMoves, BoardGrows
    <2>9. h.tt.value = VALUE_NONE \/ h.tt.value \in OwnScores(h.ply)
        BY <1>2, <1>14 DEF Score
    <2>10. QED BY <1>1, <1>3, <1>8, <1>13, <1>14, <2>3, <2>4, <2>5, <2>6, <2>8, <2>9, CallBefore
               DEF BeforePcs
<1>18. CASE ToProbCut(f) /\ NoMove
    <2>1. PICK k : SameNode(k) /\ Goto(k) /\ k.pc = "probcut" /\ k.line = Top.line
                   /\ k.fn = "search"
        BY <1>1, <1>8, <1>9, <1>10, <1>18, ProbCutNode DEF BeforePcs
    <2>2. QED BY <1>1, <1>4, <1>18, <2>1, QuietGoto DEF DeepPcs, CallPcs
<1>19. QED BY <1>12, <1>15, <1>16, <1>17, <1>18 DEF h

\* A node called again at its own ply, by a verification or a singular search.
AgainNode(ply, beta, depth, cut, check) ==
    Again(Node(ply, beta - 1, beta, depth, cut, FALSE), check)

\* It is well formed when its window, just below beta, is.
LEMMA FreshAgain ==
    ASSUME NEW ply \in 0..MaxPly, NEW beta \in Int, NEW depth \in Int,
           NEW cut \in BOOLEAN, NEW check \in BOOLEAN,
           -VALUE_INFINITE <= beta - 1, beta <= VALUE_INFINITE, beta - 1 <= mate_in(ply)
    PROVE  LET g == AgainNode(ply, beta, depth, cut, check)
           IN  g \in Frame /\ Local(g) /\ g.ply = ply /\ ~g.pv /\ ~g.root /\ g.pc = "enter"
<1> DEFINE g == AgainNode(ply, beta, depth, cut, check)
<1>0. beta - 1 \in Int /\ beta - 1 < beta
    OBVIOUS
<1>1. Node(ply, beta - 1, beta, depth, cut, FALSE) \in Frame
    BY <1>0, NodeFrame
<1>2. g \in Frame
    BY <1>1 DEF Frame, Again, AgainNode
<1>3. /\ g.fn = "search" /\ g.pc = "enter" /\ ~g.root /\ g.ply = ply /\ g.alpha = beta - 1
      /\ g.beta = beta /\ ~g.pv /\ g.cut = cut /\ g.n = 0 /\ g.best = -VALUE_INFINITE
      /\ g.line = <<>> /\ g.tt = Miss
    BY DEF AgainNode, Again, Node
<1> HIDE DEF g
<1>4. Kind(g)
    BY <1>3 DEF Kind, SearchPcs
<1>5. Window(g)
    BY <1>0, <1>3 DEF Window
<1>6. Count(g)
    BY <1>3 DEF Count, MovePcs
<1>7. Score(g)
    BY <1>3 DEF Score, Miss
<1>8. QED BY <1>2, <1>3, <1>4, <1>5, <1>6, <1>7 DEF Local, g

\* A call of qsearch is well formed when its window is.
LEMMA FreshQuiescence ==
    ASSUME NEW ply \in 0..MaxPly, NEW alpha \in Int, NEW beta \in Int, NEW pv \in BOOLEAN,
           -VALUE_INFINITE <= alpha, alpha < beta, beta <= VALUE_INFINITE,
           pv \/ alpha = beta - 1
    PROVE  LET g == QNode(ply, alpha, beta, pv)
           IN  /\ g \in Frame /\ Local(g) /\ g.ply = ply /\ g.pv = pv /\ ~g.root
               /\ g.fn = "qsearch" /\ g.pc = "enter" /\ g.line = <<>>
<1> DEFINE g == QNode(ply, alpha, beta, pv)
<1>1. g \in Frame
    BY NodeFrame
<1>2. /\ g.fn = "qsearch" /\ g.pc = "enter" /\ ~g.root /\ g.ply = ply /\ g.alpha = alpha
      /\ g.beta = beta /\ g.pv = pv /\ ~g.cut /\ g.n = 0 /\ g.best = -VALUE_INFINITE
      /\ g.line = <<>> /\ g.tt = Miss
    BY DEF QNode, Node
<1> HIDE DEF g
<1>3. Kind(g)
    BY <1>2 DEF Kind, QSearchPcs
<1>4. Window(g)
    BY <1>2 DEF Window
<1>5. Count(g)
    BY <1>2 DEF Count
<1>6. Score(g)
    BY <1>2 DEF Score, Miss
<1>7. QED BY <1>1, <1>2, <1>3, <1>4, <1>5, <1>6 DEF Local, g

\* A value returned by a child, negated, is a score of the node that waits for it.
LEMMA ChildScore ==
    ASSUME IInv, frames # <<>>, ret # NoReturn, Top.pc \notin {"verify", "singular"}
    PROVE  /\ -ret.value \in Int
           /\ ~stopped => -ret.value \in Scores(Top.ply)
<1>1. Top.pc # "enter" /\ ret.value \in Int
    BY RetFacts DEF CallPcs
<1>2. Top.ply \in 0..(MaxPly - 1)
    BY <1>1, TopFacts, Numbers DEF Kind
<1>3. ~stopped => ret.value \in Scores(Top.ply + 1)
    BY RetFacts
<1>4. QED BY <1>1, <1>2, <1>3, ScoreUp

\* Taking a move back, real or null.
LEMMA TakenBack ==
    ASSUME IInv, frames # <<>>, Top.pc \in DeepPcs, NEW f, f.pc \notin DeepPcs,
           board' = SubSeq(board, 1, Len(board) - 1),
           accDepth' = accDepth - IF Made(Top) = 0 THEN 0 ELSE 1
    PROVE  BoardMoves(f)
BY DEF BoardMoves, BoardShrinks, Bump

\* The value of the null move: believed, verified, or dropped.
LEMMA AfterNullKeeps ==
    ASSUME IInv, AfterNull
    PROVE  IInv'
<1>1. /\ frames # <<>> /\ ret # NoReturn /\ Top.fn = "search" /\ Top.pc = "null"
      /\ UndoNull /\ NoTTStore /\ UNCHANGED <<cells, stopped>>
    BY DEF AfterNull, Returned
<1>2. /\ Top \in Frame /\ Kind(Top) /\ Window(Top) /\ Count(Top) /\ Score(Top)
      /\ Top.ply \in 0..MaxPly /\ stopped \in BOOLEAN
    BY <1>1, TopFacts
<1>3. StoresScore /\ stored'.bound = 0
    BY <1>1, NothingStored
<1>4. UNCHANGED nmpMinPly => Calm
    BY <1>1, <1>3, Calms
<1>5. Top.line = <<>> /\ <<>> \in Lines
    BY <1>1, <1>2, EmptySeq DEF Count, BeforePcs, Lines
<1> DEFINE v == -ret.value
           depth == Top.depth - NullReduction
<1>6. v \in Int /\ (~stopped => v \in Scores(Top.ply))
    BY <1>1, ChildScore
<1>7. /\ Top.alpha \in Int /\ Top.beta \in Int /\ Top.depth \in Int /\ Top.depth >= 1
      /\ depth \in Int /\ Top.check \in BOOLEAN /\ ~Top.pv /\ ~Top.root /\ Top.fn = "search"
    BY <1>1, <1>2, FrameFields, NumbersAssumption DEF Kind
<1>8. \A f : f.pc \notin DeepPcs => BoardMoves(f)
    <2>1. Top.pc \in DeepPcs /\ Made(Top) = 0
        BY <1>1 DEF DeepPcs, Made
    <2>2. board' = SubSeq(board, 1, Len(board) - 1) /\ accDepth' = accDepth - 0
        BY <1>1, AccIsInt DEF UndoNull
    <2>3. QED BY <1>1, <2>1, <2>2, TakenBack
<1>9. \/ ToProbCut(Top) /\ UNCHANGED nmpMinPly
      \/ Return(v, <<>>) /\ UNCHANGED nmpMinPly
      \/ /\ nmpMinPly' = Top.ply + Trunc(3 * depth, 4)
         /\ Call([Top EXCEPT !.pc = "verify", !.val = v],
                 Again(Node(Top.ply, Top.beta - 1, Top.beta, depth, FALSE, FALSE), Top.check))
    BY DEF AfterNull
<1>10. CASE ToProbCut(Top) /\ UNCHANGED nmpMinPly
    <2>1. PICK k : SameNode(k) /\ Goto(k) /\ k.pc = "probcut" /\ k.line = Top.line
                   /\ k.fn = "search"
        BY <1>1, <1>2, <1>7, <1>10, ProbCutNode DEF BeforePcs
    <2>2. BoardMoves(k)
        BY <1>8, <2>1 DEF DeepPcs
    <2>3. QED BY <1>1, <1>4, <1>10, <2>1, <2>2, PlainGoto DEF CallPcs
<1> HIDE DEF v, depth
<1>11. CASE Return(v, <<>>) /\ UNCHANGED nmpMinPly
    <2>1. BoardMoves(Gone)
        BY <1>1, <1>8, GoneBump DEF DeepPcs
    <2>2. QED BY <1>1, <1>4, <1>5, <1>6, <1>11, <2>1, PlainReturn
<1>12. CASE /\ nmpMinPly' = Top.ply + Trunc(3 * depth, 4)
            /\ Call([Top EXCEPT !.pc = "verify", !.val = v],
                    Again(Node(Top.ply, Top.beta - 1, Top.beta, depth, FALSE, FALSE), Top.check))
    <2> DEFINE f == [Top EXCEPT !.pc = "verify", !.val = v]
               g == AgainNode(Top.ply, Top.beta, depth, FALSE, Top.check)
    <2>1. f \in Frame
        BY <1>2, <1>6 DEF Frame, SearchPcs, BeforePcs
    <2>2. /\ f.pc = "verify" /\ f.depth = Top.depth /\ f.fn = Top.fn /\ f.ply = Top.ply
          /\ f.root = Top.root /\ f.pv = Top.pv /\ f.cut = Top.cut /\ f.alpha = Top.alpha
          /\ f.beta = Top.beta /\ f.n = Top.n /\ f.best = Top.best /\ f.line = Top.line
          /\ f.tt = Top.tt /\ f.val = v
        BY <1>2 DEF Frame
    <2>3. /\ -VALUE_INFINITE <= Top.beta - 1 /\ Top.beta - 1 \in Int
          /\ Top.beta <= VALUE_INFINITE /\ Top.beta - 1 <= mate_in(Top.ply)
        BY <1>1, <1>2, <1>7, Numbers DEF Window, mate_in, VALUE_INFINITE
    <2>4. g \in Frame /\ Local(g) /\ g.ply = Top.ply /\ ~g.pv /\ ~g.root /\ g.pc = "enter"
        <3>1. Top.ply \in 0..MaxPly /\ Top.beta \in Int /\ depth \in Int /\ Top.check \in BOOLEAN
            BY <1>2, <1>7
        <3>2. \A cut \in BOOLEAN :
                LET a == AgainNode(Top.ply, Top.beta, depth, cut, Top.check)
                IN  a \in Frame /\ Local(a) /\ a.ply = Top.ply /\ ~a.pv /\ ~a.root /\ a.pc = "enter"
            BY <2>3, <3>1, FreshAgain
        <3>3. QED BY <3>2, Zenon
    <2>5. Call(f, g)
        BY <1>12 DEF AgainNode
    <2> HIDE DEF f, g
    <2>6. SameNode(f)
        BY <1>1, <1>2, <1>7, <2>1, <2>2, BeforeMoves DEF BeforePcs, Score
    <2>7. BoardMoves(f)
        BY <1>8, <2>2 DEF DeepPcs
    <2>8. Advances
        <3>1. Trunc(3 * depth, 4) \in Int
            BY <1>7 DEF Trunc
        <3>2. nmpMinPly' \in Int /\ stopped' \in BOOLEAN /\ (stopped => stopped')
            BY <1>1, <1>2, <1>12, <3>1
        <3>3. QED BY <3>2 DEF Advances
    <2>9. g.ply = f.ply + Bump(f)
        BY <1>2, <2>2, <2>4 DEF Bump, DeepPcs
    <2>10. ~stopped' /\ f.pc = "verify" => f.val \in Scores(f.ply)
        BY <1>1, <1>6, <2>2
    <2>11. f.pc = "verify" /\ f.pc \in CallPcs \ {"singular"}
        BY <2>2 DEF CallPcs
    <2>12. ~f.pv /\ cells' = cells /\ f.line = Top.line
        BY <1>1, <1>7, <2>2
    <2>13. QED BY <1>1, <1>3, <2>4, <2>5, <2>6, <2>7, <2>8, <2>9, <2>10, <2>11, <2>12, QuietCall
<1>13. QED BY <1>9, <1>10, <1>11, <1>12 DEF v, depth

\* The verification search is over: nmp_min_ply is free again.
LEMMA AfterVerifyKeeps ==
    ASSUME IInv, AfterVerify
    PROVE  IInv'
<1>1. /\ frames # <<>> /\ ret # NoReturn /\ Top.fn = "search" /\ Top.pc = "verify"
      /\ nmpMinPly' = 0 /\ NoMove /\ NoTTStore /\ UNCHANGED <<cells, stopped>>
      /\ Return(Top.val, <<>>) \/ ToProbCut(Top)
    BY DEF AfterVerify, Returned
<1>2. /\ Top \in Frame /\ Kind(Top) /\ Count(Top) /\ stopped \in BOOLEAN
    BY <1>1, TopFacts
<1>3. Settled
    <2>1. stopped' \in BOOLEAN /\ (stopped => stopped') /\ nmpMinPly' \in Int
        BY <1>1, <1>2
    <2>2. QED BY <1>1, <2>1, NothingStored DEF Settled, Calm, Advances
<1>4. Top.line = <<>> /\ <<>> \in Lines
    BY <1>1, <1>2, EmptySeq DEF Count, BeforePcs, Lines
<1>5. Top.depth >= 1 /\ ~Top.pv /\ Top.val \in Int
    BY <1>1, <1>2, FrameFields DEF Kind
<1>6. CASE Return(Top.val, <<>>)
    <2>1. ~stopped' => Top.val \in Scores(Top.ply)
        BY <1>1, RetFacts
    <2>2. QED BY <1>1, <1>3, <1>4, <1>5, <1>6, <2>1, QuietReturn DEF DeepPcs
<1>7. CASE ToProbCut(Top)
    <2>1. PICK k : SameNode(k) /\ Goto(k) /\ k.pc = "probcut" /\ k.line = Top.line
                   /\ k.fn = "search"
        BY <1>1, <1>2, <1>5, <1>7, ProbCutNode DEF BeforePcs
    <2>2. QED BY <1>1, <1>3, <2>1, QuietGoto DEF CallPcs, DeepPcs
<1>8. QED BY <1>1, <1>6, <1>7

\* The window of a ProbCut search lies around a raised beta that is in range.
LEMMA ProbCutWindow ==
    ASSUME NEW f \in Frame, Kind(f), f.pc # "enter", ~is_decisive(f.beta)
    PROVE  /\ f.ply + 1 \in 0..MaxPly
           /\ -ProbCutBeta(f) \in Int /\ 1 - ProbCutBeta(f) \in Int
           /\ -VALUE_INFINITE <= -ProbCutBeta(f) /\ -ProbCutBeta(f) < 1 - ProbCutBeta(f)
           /\ -ProbCutBeta(f) = (1 - ProbCutBeta(f)) - 1
           /\ 1 - ProbCutBeta(f) <= VALUE_INFINITE /\ -ProbCutBeta(f) <= mate_in(f.ply + 1)
           /\ ProbCutBeta(f) \in Int /\ ProbCutBeta(f) >= f.beta
<1>1. f.beta \in Int /\ f.ply \in 0..MaxPly /\ f.ply < MaxPly
    BY FrameFields DEF Kind
<1>2. ProbCutMargin \in 0..(MaxPly + 2) /\ f.ply + 1 \in 0..MaxPly
    BY <1>1, Numbers, SearchAssumption
<1>3. QED BY <1>1, <1>2, Numbers
          DEF ProbCutBeta, is_decisive, is_win, is_loss, TBWin, VALUE_INFINITE, mate_in

\* The captures of ProbCut: the next one, or none.
LEMMA ProbCutKeeps ==
    ASSUME IInv, ProbCut
    PROVE  IInv'
<1>1. /\ frames # <<>> /\ Top.fn = "search" /\ Top.pc = "probcut"
      /\ NoTTStore /\ UNCHANGED <<cells, nmpMinPly, stopped>>
    BY DEF ProbCut, Running
<1>2. /\ Top \in Frame /\ Kind(Top) /\ Window(Top) /\ Count(Top) /\ Score(Top)
    BY <1>1, TopFacts
<1>3. StoresScore /\ stored'.bound = 0
    BY <1>1, NothingStored
<1>4. Top.depth >= 1 /\ Top.mv \in Nat
    BY <1>1, <1>2, FrameFields DEF Kind
<1>5. CASE Goto([Top EXCEPT !.pc = "moves", !.mv = 0]) /\ NoMove
    <2> DEFINE f == [Top EXCEPT !.pc = "moves", !.mv = 0]
    <2>1. f \in Frame
        BY <1>2 DEF Frame, SearchPcs, BeforePcs
    <2>2. /\ f.pc = "moves" /\ f.depth = Top.depth /\ f.fn = Top.fn /\ f.ply = Top.ply
          /\ f.root = Top.root /\ f.pv = Top.pv /\ f.cut = Top.cut /\ f.alpha = Top.alpha
          /\ f.beta = Top.beta /\ f.n = Top.n /\ f.best = Top.best /\ f.line = Top.line
          /\ f.tt = Top.tt
        BY <1>2 DEF Frame
    <2>3. Goto(f)
        BY <1>5
    <2> HIDE DEF f
    <2>4. SameNode(f)
        BY <1>1, <1>2, <1>4, <2>1, <2>2, BeforeMoves DEF BeforePcs, Score
    <2>5. Settled
        BY <1>1, <1>3, <1>5, Settles
    <2>6. QED BY <1>1, <2>2, <2>3, <2>4, <2>5, QuietGoto DEF DeepPcs, CallPcs
<1>6. CASE /\ ProbCutOpen(Top)
           /\ \E m \in (Top.mv + 1)..Moves \ {ExcludedHere(Top)} :
                /\ DoMove(m)
                /\ Call([Top EXCEPT !.pc = "probcut_q", !.mv = m],
                        QNode(Top.ply + 1, -ProbCutBeta(Top), 1 - ProbCutBeta(Top), FALSE))
    <2>1. PICK m \in (Top.mv + 1)..Moves :
                /\ DoMove(m)
                /\ Call([Top EXCEPT !.pc = "probcut_q", !.mv = m],
                        QNode(Top.ply + 1, -ProbCutBeta(Top), 1 - ProbCutBeta(Top), FALSE))
        BY <1>6
    <2>2. m \in Nat /\ m > 0 /\ ~is_decisive(Top.beta)
        BY <1>4, <1>6, SearchAssumption DEF ProbCutOpen
    <2> DEFINE f == [Top EXCEPT !.pc = "probcut_q", !.mv = m]
               g == QNode(Top.ply + 1, -ProbCutBeta(Top), 1 - ProbCutBeta(Top), FALSE)
    <2>3. f \in Frame
        BY <1>2, <2>2 DEF Frame, SearchPcs, BeforePcs
    <2>4. /\ f.pc = "probcut_q" /\ f.depth = Top.depth /\ f.fn = Top.fn /\ f.ply = Top.ply
          /\ f.root = Top.root /\ f.pv = Top.pv /\ f.cut = Top.cut /\ f.alpha = Top.alpha
          /\ f.beta = Top.beta /\ f.n = Top.n /\ f.best = Top.best /\ f.line = Top.line
          /\ f.tt = Top.tt /\ f.mv = m
        BY <1>2 DEF Frame
    <2>5. \A pv \in BOOLEAN : pv = FALSE =>
            LET q == QNode(Top.ply + 1, -ProbCutBeta(Top), 1 - ProbCutBeta(Top), pv)
            IN  q \in Frame /\ Local(q) /\ q.ply = Top.ply + 1 /\ ~q.pv /\ ~q.root /\ q.pc = "enter"
        BY <1>1, <1>2, <2>2, ProbCutWindow, FreshQuiescence
    <2>6. g \in Frame /\ Local(g) /\ g.ply = Top.ply + 1 /\ ~g.pv /\ ~g.root /\ g.pc = "enter"
        BY <2>5, Zenon
    <2>7. Call(f, g)
        BY <2>1
    <2> HIDE DEF f, g
    <2>8. BoardMoves(f)
        BY <1>1, <2>1, <2>2, <2>4
        DEF DoMove, BoardMoves, BoardGrows, Bump, DeepPcs, Made
    <2>9. f.tt.value = VALUE_NONE \/ f.tt.value \in OwnScores(f.ply)
        BY <1>2, <2>4 DEF Score
    <2>10. QED BY <1>1, <1>3, <1>4, <2>2, <2>3, <2>4, <2>6, <2>7, <2>8, <2>9, CallBefore
               DEF BeforePcs
<1>7. QED BY <1>5, <1>6 DEF ProbCut

\* The value of a capture over the raised beta is stored, and perhaps returned.
LEMMA ProbCutDoneKeeps ==
    ASSUME IInv, frames # <<>>, ret # NoReturn, Top.fn = "search",
           Top.pc \in {"probcut_q", "probcut_s"}, ProbCutDone(-ret.value),
           UNCHANGED <<cells, nmpMinPly, stopped>>
    PROVE  IInv'
<1> DEFINE v == -ret.value
<1>1. /\ Top \in Frame /\ Kind(Top) /\ Window(Top) /\ Count(Top) /\ Score(Top)
      /\ Top.ply \in 0..MaxPly
    BY TopFacts
<1>2. v \in Int /\ (~stopped => v \in Scores(Top.ply))
    BY ChildScore
<1>3. /\ UndoMove
      /\ NoTTStore \/ tt_store(value_to_tt(v, Top.ply), 2, TRUE)
      /\ \/ v >= ProbCutBeta(Top) /\ ~is_decisive(v) /\ Return(v - ProbCutMargin, <<>>)
         \/ Goto([Top EXCEPT !.pc = "probcut"])
    BY DEF ProbCutDone
<1> HIDE DEF v
<1>4. StoresScore
    <2>1. CASE NoTTStore
        BY <2>1, NothingStored
    <2>2. CASE tt_store(value_to_tt(v, Top.ply), 2, TRUE)
        BY <1>1, <1>2, <2>2, StoredScore DEF tt_store, StoresScore
    <2>3. QED BY <1>3, <2>1, <2>2
<1>5. Calm
    BY <1>4, Calms
<1>6. Top.line = <<>> /\ <<>> \in Lines /\ Top.depth >= 1 /\ Top.beta \in Int
      /\ ~is_decisive(Top.beta) /\ Top.mv > 0 /\ Top.mv \in Nat
    BY <1>1, FrameFields, EmptySeq DEF Count, Kind, Window, BeforePcs, Lines
<1>7. \A f : f.pc \notin DeepPcs => BoardMoves(f)
    <2>1. Top.pc \in DeepPcs /\ Made(Top) # 0
        BY <1>6 DEF DeepPcs, Made
    <2>2. QED BY <1>3, <2>1, TakenBack DEF UndoMove
<1>8. CASE v >= ProbCutBeta(Top) /\ ~is_decisive(v) /\ Return(v - ProbCutMargin, <<>>)
    <2>1. v - ProbCutMargin \in Int /\ ~is_decisive(v - ProbCutMargin)
        BY <1>2, <1>6, <1>8, SearchAssumption
        DEF ProbCutBeta, is_decisive, is_win, is_loss, TBWin
    <2>2. v - ProbCutMargin \in Scores(Top.ply)
        BY <1>1, <2>1, ScoreOwn
    <2>3. BoardMoves(Gone)
        BY <1>7, GoneBump DEF DeepPcs
    <2>4. QED BY <1>5, <1>6, <1>8, <2>1, <2>2, <2>3, PlainReturn
<1>9. CASE Goto([Top EXCEPT !.pc = "probcut"])
    <2> DEFINE f == [Top EXCEPT !.pc = "probcut"]
    <2>1. f \in Frame
        BY <1>1 DEF Frame, SearchPcs, BeforePcs
    <2>2. /\ f.pc = "probcut" /\ f.depth = Top.depth /\ f.fn = Top.fn /\ f.ply = Top.ply
          /\ f.root = Top.root /\ f.pv = Top.pv /\ f.cut = Top.cut /\ f.alpha = Top.alpha
          /\ f.beta = Top.beta /\ f.n = Top.n /\ f.best = Top.best /\ f.line = Top.line
          /\ f.tt = Top.tt
        BY <1>1 DEF Frame
    <2>3. Goto(f)
        BY <1>9
    <2> HIDE DEF f
    <2>4. SameNode(f)
        BY <1>1, <1>6, <2>1, <2>2, BeforeMoves DEF BeforePcs, Score
    <2>5. BoardMoves(f)
        BY <1>7, <2>2 DEF DeepPcs
    <2>6. QED BY <1>5, <2>2, <2>3, <2>4, <2>5, PlainGoto DEF CallPcs
<1>10. QED BY <1>3, <1>8, <1>9

\* A capture's qsearch is over, or its search.
LEMMA AfterProbCutKeeps ==
    ASSUME IInv, AfterProbCut
    PROVE  IInv'
<1> DEFINE f == [Top EXCEPT !.pc = "probcut_s"]
           depth == Top.depth - ProbCutReduction
           g == Node(Top.ply + 1, -ProbCutBeta(Top), 1 - ProbCutBeta(Top), depth, ~Top.cut, FALSE)
<1>1. /\ frames # <<>> /\ ret # NoReturn /\ Top.fn = "search"
      /\ Top.pc \in {"probcut_q", "probcut_s"} /\ UNCHANGED <<cells, nmpMinPly, stopped>>
    BY DEF AfterProbCut, Returned
<1>2. \/ ProbCutDone(-ret.value)
      \/ Top.pc = "probcut_q" /\ Call(f, g) /\ NoMove /\ NoTTStore
    BY DEF AfterProbCut, Returned
<1>3. CASE ProbCutDone(-ret.value)
    BY <1>1, <1>3, ProbCutDoneKeeps
<1>4. CASE Top.pc = "probcut_q" /\ Call(f, g) /\ NoMove /\ NoTTStore
    <2>1. /\ Top \in Frame /\ Kind(Top) /\ Window(Top) /\ Count(Top) /\ Score(Top)
        BY <1>1, TopFacts
    <2>2. StoresScore /\ stored'.bound = 0
        BY <1>4, NothingStored
    <2>3. /\ Top.depth >= 1 /\ Top.mv > 0 /\ ~is_decisive(Top.beta) /\ depth \in Int
          /\ (~Top.cut) \in BOOLEAN
        BY SMTT(30), <1>1, <1>4, <2>1, FrameFields, NumbersAssumption DEF Kind, Window, Count
    <2>4. f \in Frame
        BY <2>1 DEF Frame, SearchPcs, BeforePcs
    <2>5. /\ f.pc = "probcut_s" /\ f.depth = Top.depth /\ f.fn = Top.fn /\ f.ply = Top.ply
          /\ f.root = Top.root /\ f.pv = Top.pv /\ f.cut = Top.cut /\ f.alpha = Top.alpha
          /\ f.beta = Top.beta /\ f.n = Top.n /\ f.best = Top.best /\ f.line = Top.line
          /\ f.tt = Top.tt /\ f.mv = Top.mv
        BY <2>1 DEF Frame
    <2>6. Top.pc # "enter"
        BY <1>4
    <2>7. g \in Frame /\ Local(g)
        BY <2>1, <2>3, <2>6, ProbCutWindow, NodeFrame, FreshNode
    <2>8. g.pc = "enter" /\ ~g.pv /\ ~g.root /\ g.ply = Top.ply + 1
        BY DEF Node
    <2> HIDE DEF f, g
    <2>9. BoardMoves(f)
        BY <1>4, <2>5 DEF BoardMoves, BoardStays, Bump, DeepPcs, Made
    <2>10. f.tt.value = VALUE_NONE \/ f.tt.value \in OwnScores(f.ply)
        BY <2>1, <2>5 DEF Score
    <2>11. QED BY <1>1, <1>4, <2>2, <2>3, <2>4, <2>5, <2>7, <2>8, <2>9, <2>10, CallBefore
               DEF BeforePcs
<1>5. QED BY <1>2, <1>3, <1>4

\* ProbCut from the table alone.
LEMMA SmallProbCutKeeps ==
    ASSUME IInv, SmallProbCut
    PROVE  IInv'
<1>1. /\ frames # <<>> /\ Top.fn = "search" /\ Top.pc = "moves"
      /\ NoMove /\ NoTTStore /\ UNCHANGED <<cells, nmpMinPly, stopped>>
    BY DEF SmallProbCut, Running
<1>2. /\ Top \in Frame /\ Kind(Top) /\ Window(Top) /\ Count(Top) /\ Score(Top)
      /\ Top.ply \in 0..MaxPly
    BY <1>1, TopFacts
<1>3. Settled
    BY <1>1, Settles, NothingStored
<1>4. Top.line = <<>> /\ <<>> \in Lines /\ Top.depth >= 1 /\ Top.beta \in Int
      /\ Top.tt.value \in Int
    BY <1>1, <1>2, FrameFields, EmptySeq DEF Count, Kind, BeforePcs, Lines, Answers
<1> DEFINE v == Top.beta + SmallProbCutMargin
           f == [Top EXCEPT !.pc = "next", !.mv = 0]
<1>5. \/ /\ Top.tt.value >= v /\ ~is_decisive(Top.beta) /\ ~is_decisive(Top.tt.value)
         /\ Return(v, <<>>)
      \/ Goto(f)
    BY DEF SmallProbCut
<1>6. CASE /\ Top.tt.value >= v /\ ~is_decisive(Top.beta) /\ ~is_decisive(Top.tt.value)
           /\ Return(v, <<>>)
    <2>1. v \in Int /\ ~is_decisive(v)
        BY <1>4, <1>6, SearchAssumption DEF is_decisive, is_win, is_loss, TBWin
    <2>2. v \in Scores(Top.ply)
        BY <1>2, <2>1, ScoreOwn
    <2>3. QED BY <1>1, <1>3, <1>4, <1>6, <2>1, <2>2, QuietReturn DEF DeepPcs
<1>7. CASE Goto(f)
    <2>1. f \in Frame
        BY <1>2 DEF Frame, SearchPcs
    <2>2. /\ f.pc = "next" /\ f.depth = Top.depth /\ f.fn = Top.fn /\ f.ply = Top.ply
          /\ f.root = Top.root /\ f.pv = Top.pv /\ f.cut = Top.cut /\ f.alpha = Top.alpha
          /\ f.beta = Top.beta /\ f.n = Top.n /\ f.best = Top.best /\ f.line = Top.line
          /\ f.tt = Top.tt
        BY <1>2 DEF Frame
    <2> HIDE DEF f
    <2>3. SameNode(f)
        BY <1>1, <1>2, <1>4, <2>1, <2>2, BeforeMoves DEF BeforePcs, Score
    <2>4. QED BY <1>1, <1>3, <1>7, <2>2, <2>3, QuietGoto DEF DeepPcs, CallPcs
<1>8. QED BY <1>5, <1>6, <1>7
-----------------------------------------------------------------------------
(* search: the move loop. *)

\* The child's line cleared.
LEMMA ChildCleared ==
    ASSUME NEW c \in CellType, NEW ply \in 0..MaxPly
    PROVE  /\ ClearChild(c, ply) \in CellType
           /\ ClearChild(c, ply)[ply + 1].pv = <<>>
           /\ \A p \in 0..(MaxPly + 2) :
                /\ ClearChild(c, ply)[p].excluded = c[p].excluded
                /\ p # ply + 1 => ClearChild(c, ply)[p].pv = c[p].pv
<1>1. ply + 1 \in 0..(MaxPly + 2) /\ <<>> \in Lines
    BY Numbers, EmptySeq DEF Lines
<1>2. QED BY <1>1 DEF CellType, ClearChild

\* The node's line taken over from the child's, with the move in front.
LEMMA LineUpdated ==
    ASSUME NEW c \in CellType, NEW ply \in 0..MaxPly, NEW m \in Nat \ {0}
    PROVE  /\ update_pv(c, ply, m) \in CellType
           /\ update_pv(c, ply, m)[ply].pv = <<m>> \o c[ply + 1].pv
           /\ \A p \in 0..(MaxPly + 2) :
                /\ update_pv(c, ply, m)[p].excluded = c[p].excluded
                /\ p # ply => update_pv(c, ply, m)[p].pv = c[p].pv
<1>1. ply + 1 \in 0..(MaxPly + 2) /\ ply \in 0..(MaxPly + 2)
    BY Numbers
<1>2. c[ply + 1].pv \in Lines /\ <<m>> \in Lines
    BY <1>1 DEF CellType, Lines
<1>3. <<m>> \o c[ply + 1].pv \in Lines
    BY <1>2, ConcatProperties DEF Lines
<1>4. QED BY <1>1, <1>3 DEF CellType, update_pv

\* The excluded move of a ply set or cleared.
Excluding(c, ply, m) == [c EXCEPT ![ply].excluded = m]

\* Nothing else of the shared stack changes.
LEMMA ExclusionSet ==
    ASSUME NEW c \in CellType, NEW ply \in 0..MaxPly, NEW m \in Nat
    PROVE  /\ Excluding(c, ply, m) \in CellType /\ Excluding(c, ply, m)[ply].excluded = m
           /\ \A p \in 0..(MaxPly + 2) :
                /\ Excluding(c, ply, m)[p].pv = c[p].pv
                /\ p # ply => Excluding(c, ply, m)[p].excluded = c[p].excluded
<1>1. ply \in 0..(MaxPly + 2)
    BY Numbers
<1>2. QED BY <1>1 DEF CellType, Excluding

\* A step that leaves every excluded move and nmp_min_ply alone.
LEMMA ExclusionStays ==
    ASSUME IInv, frames # <<>>, cells' \in CellType,
           \A p \in 0..(MaxPly + 2) : cells'[p].excluded = cells[p].excluded,
           nmpMinPly' = nmpMinPly, Top.pc \notin {"singular", "verify"},
           NEW pc, pc # "singular", pc = "exclude" => cells[Top.ply].excluded = 0
    PROVE  ExclusionMoves(pc)
BY TopFacts DEF ExclusionMoves

\* A step that does not touch nmp_min_ply or the stop.
LEMMA AdvancesStill ==
    ASSUME IInv, frames # <<>>, UNCHANGED <<nmpMinPly, stopped>>
    PROVE  Advances
<1>1. stopped \in BOOLEAN /\ nmpMinPly \in Int /\ stopped' = stopped /\ nmpMinPly' = nmpMinPly
    BY TopFacts
<1>2. stopped' \in BOOLEAN /\ nmpMinPly' \in Int /\ (stopped => stopped')
    BY <1>1
<1>3. QED BY <1>2 DEF Advances

\* A node at a move: the one it was at, or the next.
LEMMA AtMove ==
    ASSUME IInv, frames # <<>>, Top.fn = "search", Top.pc \in {"next"} \cup MovePcs,
           NEW f \in Frame,
           f.fn = "search", f.ply = Top.ply, f.root = Top.root, f.pv = Top.pv, f.cut = Top.cut,
           f.alpha = Top.alpha, f.beta = Top.beta, f.best = Top.best, f.line = Top.line,
           f.tt = Top.tt, f.pc \in MovePcs, f.depth >= 1,
           \/ Top.pc = "next" /\ f.n = Top.n + 1 /\ f.mv > Top.mv
           \/ Top.pc \in MovePcs /\ f.n = Top.n /\ f.mv = Top.mv,
           f.pc \in {"exclude", "singular"}
               => ~f.root /\ f.mv = f.tt.move /\ ~is_decisive(f.tt.value),
           f.pc = "lmr" => f.n > 1
    PROVE  SameNode(f)
<1>1. Top \in Frame /\ Kind(Top) /\ Window(Top) /\ Count(Top) /\ Score(Top)
    BY TopFacts
<1>2. /\ f.pc \notin BeforePcs /\ f.pc \notin {"enter", "next", "tail", "stand"}
      /\ Top.pc # "enter" /\ f.mv \in Nat /\ f.n \in Nat /\ Top.n \in Nat /\ Top.mv \in Nat
      /\ f.pc \notin {"null", "verify", "probcut_q", "probcut_s"}
    BY <1>1, FrameFields DEF BeforePcs, MovePcs
<1>3. /\ 1 <= f.n /\ f.n <= f.mv
      /\ f.n > 1 => f.best # -VALUE_INFINITE /\ (f.root => f.alpha >= -Mate)
      /\ f.n = 1 => f.line = <<>> /\ f.best = -VALUE_INFINITE
    <2>1. CASE Top.pc = "next" /\ f.n = Top.n + 1 /\ f.mv > Top.mv
        BY <1>1, <1>2, <2>1 DEF Count, Window
    <2>2. CASE Top.pc \in MovePcs /\ f.n = Top.n /\ f.mv = Top.mv
        BY <1>1, <1>2, <2>2 DEF Count, Window
    <2>3. QED BY <2>1, <2>2
<1>4. Kind(f)
    BY <1>1, <1>2 DEF Kind, SearchPcs
<1>5. Window(f)
    BY <1>1, <1>2, <1>3 DEF Window
<1>6. Count(f)
    BY <1>2, <1>3 DEF Count
<1>7. Score(f)
    BY <1>1 DEF Score
<1>8. QED BY <1>4, <1>5, <1>6, <1>7 DEF SameNode, Local

\* Evaluations are no mates.
LEMMA EvalsAreScores ==
    ASSUME NEW ply \in 0..MaxPly, NEW e \in Evals
    PROVE  e \in Int /\ ~is_decisive(e) /\ e \in Scores(ply) /\ e # -VALUE_INFINITE
<1>1. e \in Int /\ ~is_decisive(e) /\ e # -VALUE_INFINITE
    BY NumbersAssumption, SearchAssumption, Numbers
    DEF is_decisive, is_win, is_loss, TBWin, VALUE_INFINITE
<1>2. QED BY <1>1, ScoreOwn

\* The picker's next move.
LEMMA NextMoveKeeps ==
    ASSUME IInv, NextMove
    PROVE  IInv'
<1>1. /\ frames # <<>> /\ Top.fn = "search" /\ Top.pc = "next"
      /\ NoMove /\ NoTTStore /\ UNCHANGED <<nmpMinPly, stopped>>
    BY DEF NextMove, Running
<1>2. /\ Top \in Frame /\ Kind(Top) /\ Window(Top) /\ Count(Top) /\ Score(Top)
      /\ Top.ply \in 0..MaxPly /\ cells \in CellType /\ HoldsLine(Top, cells, stopped)
      /\ Top.ply \in 0..(MaxPly + 2) /\ Top.ply + 1 \in 0..(MaxPly + 2)
    BY <1>1, TopFacts
<1>3. /\ Top.mv \in Nat /\ Top.n \in Nat /\ Top.depth \in Int /\ Top.depth >= 1
      /\ Top.best \in Int /\ Top.pv \in BOOLEAN /\ Top.ply \in Nat /\ Top.n <= Top.mv
    BY <1>1, <1>2, FrameFields DEF Kind, Count
<1>4. StoresScore /\ Advances
    BY <1>1, NothingStored, AdvancesStill
<1>5. PICK m \in (Top.mv + 1)..Moves :
        LET f == [Top EXCEPT !.mv = m, !.n = Top.n + 1, !.nd = Top.depth - 1, !.val = 0]
        IN /\ cells' = IF f.pv THEN ClearChild(cells, f.ply) ELSE cells
           /\ \/ /\ MayPrune(f)
                 /\ \E v \in PrunedBest(f) : Goto([f EXCEPT !.best = v])
              \/ Goto([f EXCEPT !.pc = "make"])
              \/ SingularOpen(f, m) /\ Goto([f EXCEPT !.pc = "exclude"])
    BY DEF NextMove
<1> DEFINE f == [Top EXCEPT !.mv = m, !.n = Top.n + 1, !.nd = Top.depth - 1, !.val = 0]
<1>6. m \in Nat /\ m > Top.mv
    BY <1>3, SearchAssumption
<1>7. f \in Frame
    <2>1. \A mv \in Nat, n \in Nat, nd \in Int, val \in Int :
            [Top EXCEPT !.mv = mv, !.n = n, !.nd = nd, !.val = val] \in Frame
        BY ZenonT(60), <1>2 DEF Frame
    <2>2. m \in Nat /\ Top.n + 1 \in Nat /\ Top.depth - 1 \in Int /\ 0 \in Int
        BY <1>3, <1>6
    <2>3. QED BY <2>1, <2>2, Zenon
<1>8. /\ f.mv = m /\ f.n = Top.n + 1 /\ f.pc = "next" /\ f.depth = Top.depth /\ f.fn = Top.fn
      /\ f.ply = Top.ply /\ f.root = Top.root /\ f.pv = Top.pv /\ f.cut = Top.cut
      /\ f.alpha = Top.alpha /\ f.beta = Top.beta /\ f.best = Top.best /\ f.line = Top.line
      /\ f.tt = Top.tt /\ f.check = Top.check
    BY <1>1, <1>2 DEF Frame
<1>9. cells' = IF f.pv THEN ClearChild(cells, f.ply) ELSE cells
    BY <1>5
<1>10. \/ /\ MayPrune(f)
          /\ \E v \in PrunedBest(f) : Goto([f EXCEPT !.best = v])
       \/ Goto([f EXCEPT !.pc = "make"])
       \/ SingularOpen(f, m) /\ Goto([f EXCEPT !.pc = "exclude"])
    BY <1>5
<1> DEFINE at(pc) == [f EXCEPT !.pc = pc]
<1>11. \A pc \in {"make", "exclude"} : at(pc) \in Frame
    BY ZenonT(60), <1>7 DEF Frame, SearchPcs, MovePcs
<1>12. \A pc \in {"make", "exclude"} :
        /\ at(pc).mv = m /\ at(pc).n = Top.n + 1 /\ at(pc).pc = pc /\ at(pc).depth = Top.depth
        /\ at(pc).fn = Top.fn /\ at(pc).ply = Top.ply /\ at(pc).root = Top.root
        /\ at(pc).pv = Top.pv /\ at(pc).cut = Top.cut /\ at(pc).alpha = Top.alpha
        /\ at(pc).beta = Top.beta /\ at(pc).best = Top.best /\ at(pc).line = Top.line
        /\ at(pc).tt = Top.tt
    BY <1>7, <1>8 DEF Frame
<1>13. \A v \in Int : [f EXCEPT !.best = v] \in Frame
    BY <1>7 DEF Frame
<1>14. \A v \in Int : LET h == [f EXCEPT !.best = v]
        IN  /\ h.mv = m /\ h.n = Top.n + 1 /\ h.pc = "next" /\ h.depth = Top.depth
            /\ h.fn = Top.fn /\ h.ply = Top.ply /\ h.root = Top.root /\ h.pv = Top.pv
            /\ h.cut = Top.cut /\ h.alpha = Top.alpha /\ h.beta = Top.beta /\ h.best = v
            /\ h.line = Top.line /\ h.tt = Top.tt
    BY <1>7, <1>8 DEF Frame
<1> DEFINE pruned(v) == [f EXCEPT !.best = v]
<1> HIDE DEF f, at, pruned
<1>15. /\ cells' \in CellType
       /\ \A p \in 0..(MaxPly + 2) :
            /\ cells'[p].excluded = cells[p].excluded
            /\ p # Top.ply + 1 \/ ~Top.pv => cells'[p].pv = cells[p].pv
       /\ Top.pv => cells'[Top.ply + 1].pv = <<>>
    <2>1. CASE Top.pv
        BY <1>2, <1>8, <1>9, <2>1, ChildCleared
    <2>2. CASE ~Top.pv
        BY <1>2, <1>8, <1>9, <2>2
    <2>3. QED BY <2>1, <2>2
<1>16. LinesMove
    BY <1>15 DEF LinesMove
<1>17. Top.pv /\ ~Top.root => cells'[Top.ply].pv = Top.line
    BY <1>1, <1>2, <1>3, <1>15 DEF HoldsLine
<1>18. ASSUME NEW pc \in {"make", "exclude"}, Goto(at(pc)),
              pc = "exclude" => ~Top.root /\ m = Top.tt.move /\ ~is_decisive(Top.tt.value)
                                /\ cells[Top.ply].excluded = 0
       PROVE  IInv'
    <2> DEFINE h == at(pc)
    <2>1. h \in Frame /\ pc \in MovePcs /\ pc # "lmr" /\ pc # "singular"
        BY <1>11 DEF MovePcs
    <2>2. /\ h.mv = m /\ h.n = Top.n + 1 /\ h.pc = pc /\ h.depth = Top.depth
          /\ h.fn = Top.fn /\ h.ply = Top.ply /\ h.root = Top.root
          /\ h.pv = Top.pv /\ h.cut = Top.cut /\ h.alpha = Top.alpha
          /\ h.beta = Top.beta /\ h.best = Top.best /\ h.line = Top.line
          /\ h.tt = Top.tt
        BY <1>12
    <2> HIDE DEF h
    <2>3. SameNode(h)
        BY <1>1, <1>3, <1>6, <1>18, <2>1, <2>2, AtMove
    <2>4. HoldsLine(h, cells', stopped')
        BY <1>15, <1>17, <2>2 DEF HoldsLine
    <2>5. ExclusionMoves(h.pc)
        BY <1>1, <1>15, <1>18, <2>1, <2>2, ExclusionStays
    <2>6. BoardMoves(h)
        BY <1>1, <2>2 DEF BoardMoves, BoardStays, Bump, DeepPcs
    <2>7. Goto(h)
        BY <1>18 DEF h
    <2>8. h.pc \notin CallPcs /\ h.pc # "fold"
        BY <2>2 DEF CallPcs
    <2>9. QED BY <1>1, <1>4, <1>16, <2>3, <2>4, <2>5, <2>6, <2>7, <2>8, GotoKeeps
<1>19. CASE MayPrune(f) /\ \E v \in PrunedBest(f) : Goto(pruned(v))
    <2>1. PICK v \in PrunedBest(f) : Goto(pruned(v))
        BY <1>19
    <2>2. ~Top.root /\ ~is_loss(Top.best)
        BY <1>8, <1>19 DEF MayPrune
    <2>3. Top.best # -VALUE_INFINITE /\ Top.best \in Scores(Top.ply)
        BY <1>2, <2>2, Numbers DEF is_loss, TBWin, VALUE_INFINITE, Score
    <2>4. v = Top.best \/ v \in Evals
        BY <1>8, <2>1 DEF PrunedBest
    <2>5. v \in Int /\ v # -VALUE_INFINITE /\ v \in Scores(Top.ply)
        BY <1>2, <1>3, <2>3, <2>4, EvalsAreScores
    <2> DEFINE h == pruned(v)
    <2>6. h \in Frame
        BY <1>13, <2>5 DEF pruned
    <2>7. /\ h.mv = m /\ h.n = Top.n + 1 /\ h.pc = "next" /\ h.depth = Top.depth
          /\ h.fn = Top.fn /\ h.ply = Top.ply /\ h.root = Top.root /\ h.pv = Top.pv
          /\ h.cut = Top.cut /\ h.alpha = Top.alpha /\ h.beta = Top.beta /\ h.best = v
          /\ h.line = Top.line /\ h.tt = Top.tt
        BY <1>14, <2>5 DEF pruned
    <2> HIDE DEF h
    <2>8. Kind(h)
        BY <1>1, <1>2, <2>7 DEF Kind, SearchPcs
    <2>9. Window(h)
        BY <1>1, <1>2, <2>2, <2>7 DEF Window, MovePcs
    <2>10. Count(h)
        BY <1>1, <1>3, <1>6, <2>2, <2>5, <2>7 DEF Count, BeforePcs, MovePcs
    <2>11. Score(h)
        BY <1>2, <2>5, <2>7 DEF Score
    <2>12. SameNode(h)
        BY <2>6, <2>7, <2>8, <2>9, <2>10, <2>11 DEF SameNode, Local
    <2>13. HoldsLine(h, cells', stopped')
        BY <1>15, <1>17, <2>7 DEF HoldsLine
    <2>14. ExclusionMoves(h.pc)
        BY <1>1, <1>15, <2>7, ExclusionStays
    <2>15. BoardMoves(h)
        BY <1>1, <2>7 DEF BoardMoves, BoardStays, Bump, DeepPcs
    <2>16. Goto(h)
        BY <2>1 DEF h
    <2>17. h.pc \notin CallPcs /\ h.pc # "fold"
        BY <2>7 DEF CallPcs
    <2>18. QED BY <1>1, <1>4, <1>16, <2>12, <2>13, <2>14, <2>15, <2>16, <2>17, GotoKeeps
<1>20. CASE Goto(at("make"))
    BY <1>18, <1>20
<1>21. CASE SingularOpen(f, m) /\ Goto(at("exclude"))
    <2>1. ~Top.root /\ m = Top.tt.move /\ ~is_decisive(Top.tt.value) /\ cells[Top.ply].excluded = 0
        BY <1>8, <1>21 DEF SingularOpen, ExcludedHere
    <2>2. QED BY <1>18, <1>21, <2>1
<1>22. QED BY <1>10, <1>19, <1>20, <1>21 DEF at, pruned

\* The node is called again without its table move.
LEMMA SingularKeeps ==
    ASSUME IInv, Singular
    PROVE  IInv'
<1> DEFINE sb == Top.tt.value - SingularMargin
           f == [Top EXCEPT !.pc = "singular"]
           g == AgainNode(Top.ply, sb, Trunc(Top.nd, 2), Top.cut, Top.check)
<1>1. /\ frames # <<>> /\ Top.fn = "search" /\ Top.pc = "exclude"
      /\ cells' = Excluding(cells, Top.ply, Top.mv)
      /\ Call(f, g) /\ NoMove /\ NoTTStore /\ UNCHANGED <<nmpMinPly, stopped>>
    BY DEF Singular, Running, AgainNode, Excluding
<1>2. /\ Top \in Frame /\ Kind(Top) /\ Window(Top) /\ Count(Top) /\ Score(Top)
      /\ Top.ply \in 0..MaxPly /\ cells \in CellType /\ HoldsLine(Top, cells, stopped)
      /\ Top.ply \in 0..(MaxPly + 2) /\ Top.ply + 1 \in 0..(MaxPly + 2)
    BY <1>1, TopFacts
<1>3. /\ Top.mv \in Nat /\ Top.mv # 0 /\ ~Top.root /\ Top.mv = Top.tt.move
      /\ ~is_decisive(Top.tt.value) /\ Top.tt.value \in Int /\ Top.nd \in Int
      /\ Top.depth >= 1 /\ Top.cut \in BOOLEAN /\ Top.check \in BOOLEAN
    <2>1. 1 <= Top.n /\ Top.n <= Top.mv /\ Top.n \in Nat /\ Top.mv \in Nat
        BY <1>1, <1>2, FrameFields DEF Count, MovePcs
    <2>2. QED BY <1>1, <1>2, <2>1, FrameFields DEF Kind, Window, Count, Answers, MovePcs
<1>4. StoresScore /\ stored'.bound = 0 /\ Advances
    BY <1>1, NothingStored, AdvancesStill
<1>5. /\ sb \in Int /\ -VALUE_INFINITE <= sb - 1 /\ sb <= VALUE_INFINITE
      /\ sb - 1 <= mate_in(Top.ply) /\ Trunc(Top.nd, 2) \in Int
    BY <1>2, <1>3, Numbers, SingularAssumption
    DEF VALUE_INFINITE, mate_in, is_decisive, is_win, is_loss, TBWin, Trunc
<1> HIDE DEF sb
<1>6. g \in Frame /\ Local(g) /\ g.ply = Top.ply /\ ~g.pv /\ ~g.root /\ g.pc = "enter"
    BY <1>2, <1>3, <1>5, FreshAgain
<1>7. f \in Frame
    BY <1>2 DEF Frame, SearchPcs, MovePcs
<1>8. /\ f.mv = Top.mv /\ f.n = Top.n /\ f.pc = "singular" /\ f.depth = Top.depth
      /\ f.fn = Top.fn /\ f.ply = Top.ply /\ f.root = Top.root /\ f.pv = Top.pv
      /\ f.cut = Top.cut /\ f.alpha = Top.alpha /\ f.beta = Top.beta /\ f.best = Top.best
      /\ f.line = Top.line /\ f.tt = Top.tt
    BY <1>2 DEF Frame
<1> HIDE DEF f, g
<1>9. SameNode(f)
    BY <1>1, <1>3, <1>7, <1>8, AtMove DEF MovePcs
<1>10. /\ cells' \in CellType /\ cells'[Top.ply].excluded = Top.mv
       /\ \A p \in 0..(MaxPly + 2) :
            /\ cells'[p].pv = cells[p].pv
            /\ p # Top.ply => cells'[p].excluded = cells[p].excluded
    <2> DEFINE b == Excluding(cells, Top.ply, Top.mv)
    <2>1. Top.mv \in Nat
        BY <1>1, <1>2, <1>3
    <2>2. /\ b \in CellType /\ b[Top.ply].excluded = Top.mv
          /\ \A p \in 0..(MaxPly + 2) :
                b[p].pv = cells[p].pv /\ (p # Top.ply => b[p].excluded = cells[p].excluded)
        BY ZenonT(60), <1>2, <2>1, ExclusionSet
    <2>3. cells' = b
        BY <1>1
    <2> HIDE DEF b
    <2>4. QED BY <2>2, <2>3
<1>11. LinesMove
    BY <1>10 DEF LinesMove
<1>12. HoldsLine(f, cells', stopped') /\ HoldsLine(g, cells', stopped')
    BY <1>1, <1>2, <1>6, <1>8, <1>10 DEF HoldsLine
<1>13. ExclusionMoves(f.pc)
    BY <1>1, <1>3, <1>8, <1>10 DEF ExclusionMoves
<1>14. BoardMoves(f)
    BY <1>1, <1>8 DEF BoardMoves, BoardStays, Bump, DeepPcs
<1>15. Link(f, g)
    BY <1>2, <1>6, <1>8 DEF Link, CallPcs, Bump, DeepPcs
<1>16. f.pc # "verify"
    BY <1>8
<1>17. QED BY <1>1, <1>4, <1>6, <1>9, <1>11, <1>12, <1>13, <1>14, <1>15, <1>16, CallKeeps

\* The move is singular, or the node fails high without it, or neither.
LEMMA AfterSingularKeeps ==
    ASSUME IInv, AfterSingular
    PROVE  IInv'
<1>1. /\ frames # <<>> /\ ret # NoReturn /\ Top.fn = "search" /\ Top.pc = "singular"
      /\ cells' = Excluding(cells, Top.ply, 0)
      /\ NoMove /\ NoTTStore /\ UNCHANGED <<nmpMinPly, stopped>>
    BY DEF AfterSingular, Returned, Excluding
<1>2. /\ Top \in Frame /\ Kind(Top) /\ Window(Top) /\ Count(Top) /\ Score(Top)
      /\ Top.ply \in 0..MaxPly /\ cells \in CellType /\ HoldsLine(Top, cells, stopped)
      /\ Top.ply \in 0..(MaxPly + 2) /\ Top.ply + 1 \in 0..(MaxPly + 2)
    BY <1>1, TopFacts
<1>3. /\ Top.nd \in Int /\ Top.depth \in Int /\ Top.depth >= 1 /\ ret.value \in Int
    BY <1>1, <1>2, FrameFields, RetFacts DEF Kind
<1>4. StoresScore /\ Advances
    BY <1>1, NothingStored, AdvancesStill
<1>5. Top.line = <<>> /\ <<>> \in Lines
    <2>1. /\ 1 <= Top.n /\ Top.n <= Top.mv /\ Top.n \in Nat /\ Top.mv \in Nat
          /\ Top.mv = Top.tt.move /\ Top.tt.move \in {0, 1}
        BY <1>1, <1>2, FrameFields DEF Count, MovePcs, Answers
    <2>2. Top.n = 1
        BY <2>1
    <2>3. QED BY <1>1, <1>2, <2>2, EmptySeq DEF Count, MovePcs, Lines
<1>6. /\ cells' \in CellType /\ cells'[Top.ply].excluded = 0
      /\ \A p \in 0..(MaxPly + 2) :
            /\ cells'[p].pv = cells[p].pv
            /\ p # Top.ply => cells'[p].excluded = cells[p].excluded
    <2> DEFINE b == Excluding(cells, Top.ply, 0)
    <2>1. 0 \in Nat
        BY <1>1, <1>2
    <2>2. /\ b \in CellType /\ b[Top.ply].excluded = 0
          /\ \A p \in 0..(MaxPly + 2) :
                b[p].pv = cells[p].pv /\ (p # Top.ply => b[p].excluded = cells[p].excluded)
        BY SMTT(30), <1>2, <2>1, ExclusionSet
    <2>3. cells' = b
        BY <1>1
    <2> HIDE DEF b
    <2>4. QED BY <2>2, <2>3
<1>7. LinesMove
    BY <1>6 DEF LinesMove
<1>8. \A pc \in {"make", "gone"} : ExclusionMoves(pc)
    BY <1>1, <1>6 DEF ExclusionMoves
<1> DEFINE GoesOn(ext, deeper) ==
        Goto([Top EXCEPT !.pc = "make", !.nd = Top.nd + ext, !.depth = Top.depth + deeper])
<1>9. \/ ~is_decisive(ret.value) /\ Return(ret.value, <<>>)
      \/ \E ext \in 1..3 : GoesOn(ext, 1)
      \/ GoesOn(IF Top.tt.value >= Top.beta THEN -3 ELSE IF Top.cut THEN -2 ELSE 0, 0)
    BY DEF AfterSingular
<1>10. CASE ~is_decisive(ret.value) /\ Return(ret.value, <<>>)
    <2>1. ret.value \in Scores(Top.ply)
        BY <1>2, <1>3, <1>10, ScoreOwn
    <2>2. BoardMoves(Gone)
        BY <1>1, GoneBump DEF BoardMoves, BoardStays, Bump, DeepPcs
    <2>3. Top.pv /\ ~Top.root => cells'[Top.ply].pv = <<>>
        BY <1>1, <1>2, <1>5, <1>6 DEF HoldsLine
    <2>4. QED BY <1>1, <1>3, <1>4, <1>5, <1>7, <1>8, <1>10, <2>1, <2>2, <2>3, ReturnKeeps
<1>11. ASSUME NEW ext \in -3..3, NEW deeper \in 0..1, GoesOn(ext, deeper)
       PROVE  IInv'
    <2> DEFINE f == [Top EXCEPT !.pc = "make", !.nd = Top.nd + ext, !.depth = Top.depth + deeper]
    <2>1. Top.nd + ext \in Int /\ Top.depth + deeper \in Int /\ Top.depth + deeper >= 1
        BY <1>3
    <2>2. f \in Frame
        <3>1. \A nd \in Int, depth \in Int :
                [Top EXCEPT !.pc = "make", !.nd = nd, !.depth = depth] \in Frame
            BY <1>2 DEF Frame, SearchPcs, MovePcs
        <3>2. QED BY <2>1, <3>1, Zenon
    <2>3. /\ f.mv = Top.mv /\ f.n = Top.n /\ f.pc = "make" /\ f.depth = Top.depth + deeper
          /\ f.fn = Top.fn /\ f.ply = Top.ply /\ f.root = Top.root /\ f.pv = Top.pv
          /\ f.cut = Top.cut /\ f.alpha = Top.alpha /\ f.beta = Top.beta /\ f.best = Top.best
          /\ f.line = Top.line /\ f.tt = Top.tt
        BY <1>2 DEF Frame
    <2>4. Goto(f)
        BY <1>11
    <2> HIDE DEF f
    <2>5. SameNode(f)
        BY <1>1, <2>1, <2>2, <2>3, AtMove DEF MovePcs
    <2>6. HoldsLine(f, cells', stopped')
        BY <1>1, <1>2, <1>6, <2>3 DEF HoldsLine
    <2>7. ExclusionMoves(f.pc) /\ f.pc \notin CallPcs /\ f.pc # "fold"
        BY <1>8, <2>3 DEF CallPcs
    <2>8. BoardMoves(f)
        BY <1>1, <2>3 DEF BoardMoves, BoardStays, Bump, DeepPcs
    <2>9. QED BY <1>1, <1>4, <1>7, <2>4, <2>5, <2>6, <2>7, <2>8, GotoKeeps
<1> HIDE DEF GoesOn
<1>12. QED BY <1>9, <1>10, <1>11

\* An activation of the move loop, wherever it is at its move.
Follows(f) ==
    /\ f \in Frame /\ f.fn = "search" /\ f.ply = Top.ply /\ f.root = Top.root
    /\ f.pv = Top.pv /\ f.cut = Top.cut /\ f.alpha = Top.alpha /\ f.beta = Top.beta
    /\ f.best = Top.best /\ f.line = Top.line /\ f.tt = Top.tt /\ f.depth = Top.depth
    /\ f.n = Top.n /\ f.mv = Top.mv

\* Its move is on the board after the step.
OnBoard == \A h : h.pc \in {"lmr", "zero", "pv", "fold"} /\ h.mv = Top.mv => BoardMoves(h)

\* It is the same node, at another place of its move.
LEMMA FollowsAt ==
    ASSUME IInv, frames # <<>>, Top.fn = "search", Top.pc \in MovePcs, NEW f, Follows(f),
           f.pc \in MovePcs \ {"exclude", "singular"}, f.pc = "lmr" => f.n > 1
    PROVE  SameNode(f)
<1>1. f \in Frame /\ Kind(Top) /\ Top.pc # "enter"
    BY TopFacts DEF Follows, MovePcs
<1>2. f.depth >= 1
    BY <1>1 DEF Kind, Follows
<1>3. QED BY <1>1, <1>2, AtMove DEF Follows

\* The child searched on the null window of its parent.
LEMMA ZeroChild ==
    ASSUME IInv, frames # <<>>, Top.fn = "search", Top.pc \in MovePcs, Top.root => Top.n > 1,
           NEW depth \in Int, NEW cut \in BOOLEAN, NEW prior \in Int, NEW g,
           \/ g = ZeroWindow(Top, depth, cut)
           \/ g = [ZeroWindow(Top, depth, cut) EXCEPT !.prior = prior]
    PROVE  g \in Frame /\ Local(g) /\ g.ply = Top.ply + 1 /\ ~g.pv /\ ~g.root /\ g.pc = "enter"
<1> DEFINE z == Node(Top.ply + 1, -(Top.alpha + 1), -Top.alpha, depth, cut, FALSE)
<1>1. /\ Top \in Frame /\ Kind(Top) /\ Window(Top) /\ Top.ply \in 0..MaxPly /\ Top.pc # "enter"
    BY TopFacts DEF MovePcs
<1>2. Top.alpha \in Int /\ Top.beta \in Int /\ Top.ply \in Nat /\ Top.ply < MaxPly
    BY <1>1, FrameFields DEF Kind
<1>2a. -VALUE_INFINITE <= Top.alpha /\ Top.alpha < Top.beta /\ Top.beta <= VALUE_INFINITE
      /\ VALUE_INFINITE \in Int
    BY <1>1, Numbers DEF Window, VALUE_INFINITE
<1>3. /\ Top.ply + 1 \in 0..MaxPly /\ -(Top.alpha + 1) \in Int /\ -Top.alpha \in Int
      /\ -VALUE_INFINITE <= -(Top.alpha + 1) /\ -(Top.alpha + 1) < -Top.alpha
      /\ -Top.alpha <= VALUE_INFINITE /\ -(Top.alpha + 1) = (-Top.alpha) - 1
    <2>1. Top.alpha + 1 <= VALUE_INFINITE
        BY <1>2, <1>2a
    <2>2. \A a \in Int : -(a + 1) \in Int /\ -(a + 1) < -a /\ -(a + 1) = (-a) - 1
        OBVIOUS
    <2>3. -VALUE_INFINITE <= -(Top.alpha + 1) /\ -Top.alpha <= VALUE_INFINITE
        BY <1>2, <1>2a, <2>1
    <2>4. Top.ply + 1 \in 0..MaxPly /\ -Top.alpha \in Int
        BY SMTT(30), <1>2, Numbers
    <2>5. QED BY <1>2, <2>2, <2>3, <2>4
<1>4. -(Top.alpha + 1) <= mate_in(Top.ply + 1)
    <2>1. CASE Top.root
        BY <1>1, <1>2, <2>1, Numbers DEF Window, Kind, mate_in
    <2>2. CASE ~Top.root
        BY <1>1, <1>2, <2>2, Numbers DEF Window, mate_in, mated_in
    <2>3. QED BY <2>1, <2>2
<1>5. z \in Frame /\ Local(z)
    BY <1>3, <1>4, NodeFrame, FreshNode
<1>6. z = ZeroWindow(Top, depth, cut)
    BY DEF ZeroWindow
<1>7. CASE g = z
    BY <1>5, <1>7 DEF Node
<1>8. CASE g = [z EXCEPT !.prior = prior]
    <2>1. z.ply = Top.ply + 1 /\ z.pv = FALSE /\ z.root = FALSE /\ z.pc = "enter"
        BY DEF Node
    <2> HIDE DEF z
    <2>2. g \in Frame
        BY <1>5, <1>8 DEF Frame
    <2>3. /\ g.fn = z.fn /\ g.pc = z.pc /\ g.root = z.root /\ g.ply = z.ply /\ g.alpha = z.alpha
          /\ g.beta = z.beta /\ g.pv = z.pv /\ g.cut = z.cut /\ g.n = z.n /\ g.best = z.best
          /\ g.line = z.line /\ g.tt = z.tt /\ g.depth = z.depth /\ g.check = z.check
          /\ g.mv = z.mv
        BY <1>5, <1>8 DEF Frame
    <2>4. Kind(g) /\ Window(g)
        BY <1>5, <2>3 DEF Local, Kind, Window
    <2>5. Count(g)
        BY <1>5, <2>1, <2>3 DEF Local, Count, MovePcs
    <2>6. Score(g)
        BY <1>5, <2>3 DEF Local, Score
    <2>7. QED BY <2>1, <2>2, <2>3, <2>4, <2>5, <2>6 DEF Local
<1>9. QED BY <1>6, <1>7, <1>8

\* A call of it.
LEMMA ZeroCallKeeps ==
    ASSUME IInv, frames # <<>>, Top.fn = "search", Top.pc \in {"make", "lmr"},
           Top.root => Top.n > 1, NEW f, Follows(f), f.pc \in {"lmr", "zero"},
           f.pc = "lmr" => f.n > 1, OnBoard, NoTTStore, UNCHANGED <<cells, nmpMinPly, stopped>>,
           NEW depth \in Int, NEW cut \in BOOLEAN, NEW prior \in Int, NEW g,
           \/ g = ZeroWindow(Top, depth, cut)
           \/ g = [ZeroWindow(Top, depth, cut) EXCEPT !.prior = prior],
           Call(f, g)
    PROVE  IInv'
<1>1. Top.pc \in MovePcs
    BY DEF MovePcs
<1>2. g \in Frame /\ Local(g) /\ g.ply = Top.ply + 1 /\ ~g.pv /\ ~g.root /\ g.pc = "enter"
    BY <1>1, ZeroChild
<1>3. SameNode(f)
    BY <1>1, FollowsAt DEF MovePcs
<1>4. BoardMoves(f)
    BY DEF OnBoard, Follows
<1>5. stored'.bound = 0 /\ Advances
    BY NothingStored, AdvancesStill
<1>6. Bump(f) = 1 /\ f.line = Top.line /\ f.ply = Top.ply
    BY DEF Bump, DeepPcs, Follows
<1>7. f.pc \in CallPcs \ {"singular"} /\ f.pc \notin {"pv", "child", "verify"}
    BY DEF CallPcs
<1>8. cells' = cells /\ nmpMinPly' = nmpMinPly
    OBVIOUS
<1>9. QED BY <1>2, <1>3, <1>4, <1>5, <1>6, <1>7, <1>8, QuietCall

\* The child of a PV node on the full window.
LEMMA PvSearchKeeps ==
    ASSUME IInv, frames # <<>>, Top.fn = "search", Top.pc \in {"make", "lmr", "zero"}, Top.pv,
           NEW f, Follows(f), PvSearch(f), OnBoard, NoTTStore, UNCHANGED <<nmpMinPly, stopped>>
    PROVE  IInv'
<1>1. /\ Top \in Frame /\ Kind(Top) /\ Window(Top) /\ Top.ply \in 0..MaxPly
      /\ cells \in CellType /\ HoldsLine(Top, cells, stopped)
      /\ Top.ply \in 0..(MaxPly + 2) /\ Top.ply + 1 \in 0..(MaxPly + 2)
    BY TopFacts
<1>2. /\ Top.alpha \in Int /\ Top.beta \in Int /\ Top.ply \in Nat /\ Top.ply < MaxPly
      /\ f \in Frame /\ f.nd \in Int
    BY <1>1, FrameFields DEF Kind, Follows
<1>3. PICK depth \in {f.nd} \cup (IF f.mv = f.tt.move THEN {Larger(f.nd, 1)} ELSE {}) :
        Call([f EXCEPT !.pc = "pv"], Node(f.ply + 1, -f.beta, -f.alpha, depth, FALSE, TRUE))
    BY DEF PvSearch
<1>4. depth \in Int
    BY <1>2, <1>3 DEF Larger
<1> DEFINE h == [f EXCEPT !.pc = "pv"]
           g == Node(Top.ply + 1, -Top.beta, -Top.alpha, depth, FALSE, TRUE)
<1>5. Call(h, g)
    BY <1>3 DEF Follows
<1>6. h \in Frame
    BY <1>2 DEF Frame, SearchPcs, MovePcs
<1>7. Follows(h) /\ h.pc = "pv"
    BY <1>2, <1>6 DEF Frame, Follows
<1>7a. -VALUE_INFINITE <= Top.alpha /\ Top.alpha < Top.beta /\ Top.beta <= VALUE_INFINITE
      /\ VALUE_INFINITE \in Int /\ (~Top.root => mated_in(Top.ply) <= Top.alpha)
    BY <1>1, Numbers DEF Window, VALUE_INFINITE
<1>8. /\ Top.ply + 1 \in 0..MaxPly /\ -Top.beta \in Int /\ -Top.alpha \in Int
      /\ -VALUE_INFINITE <= -Top.beta /\ -Top.beta < -Top.alpha /\ -Top.alpha <= VALUE_INFINITE
    BY SMTT(30), <1>2, <1>7a, Numbers
<1>9. -Top.beta <= mate_in(Top.ply + 1)
    <2>1. CASE Top.root
        BY <1>1, <1>2, <2>1, Numbers DEF Window, Kind, mate_in
    <2>2. CASE ~Top.root
        <3>1. /\ Top.alpha \in Int /\ Top.beta \in Int /\ Top.ply \in Int
              /\ Top.alpha < Top.beta /\ mated_in(Top.ply) <= Top.alpha
            BY <1>2, <1>7a, <2>2
        <3>2. QED BY <3>1, Numbers DEF mate_in, mated_in
    <2>3. QED BY <2>1, <2>2
<1>10. g \in Frame /\ Local(g)
    <2>1. \A cut, pv \in BOOLEAN : pv /\ ~cut =>
            /\ Node(Top.ply + 1, -Top.beta, -Top.alpha, depth, cut, pv) \in Frame
            /\ Local(Node(Top.ply + 1, -Top.beta, -Top.alpha, depth, cut, pv))
        BY <1>4, <1>8, <1>9, NodeFrame, FreshNode
    <2>2. QED BY <2>1, Zenon
<1>11. /\ g.pc = "enter" /\ g.pv = TRUE /\ g.root = FALSE /\ g.ply = Top.ply + 1
       /\ g.fn = "search" /\ g.line = <<>>
    BY DEF Node
<1> HIDE DEF g, h
<1>12. SameNode(h)
    BY <1>7, FollowsAt DEF MovePcs
<1>13. cells' = ClearChild(cells, Top.ply)
    BY DEF PvSearch, Follows
<1>14. /\ cells' \in CellType
       /\ \A p \in 0..(MaxPly + 2) :
            /\ cells'[p].excluded = cells[p].excluded
            /\ p # Top.ply + 1 => cells'[p].pv = cells[p].pv
       /\ cells'[Top.ply + 1].pv = <<>>
    BY <1>1, <1>13, ChildCleared
<1>15. LinesMove
    BY <1>14 DEF LinesMove
<1>16. HoldsLine(h, cells', stopped') /\ HoldsLine(g, cells', stopped')
    BY <1>1, <1>2, <1>7, <1>11, <1>14 DEF HoldsLine, Follows
<1>17. ExclusionMoves(h.pc)
    BY <1>7, <1>14, ExclusionStays
<1>18. BoardMoves(h)
    BY <1>7 DEF OnBoard, Follows
<1>19. Link(h, g)
    BY <1>7, <1>11 DEF Link, CallPcs, Bump, DeepPcs, Follows
<1>20. stored'.bound = 0 /\ Advances
    BY NothingStored, AdvancesStill
<1>21. h.pc # "verify" /\ ~g.root
    BY <1>7, <1>11
<1>22. QED BY <1>5, <1>10, <1>11, <1>12, <1>15, <1>16, <1>17, <1>18, <1>19, <1>20, <1>21, CallKeeps

\* A move whose value is known waits to be folded in.
LEMMA ToFold ==
    ASSUME IInv, frames # <<>>, Top.fn = "search", Top.pc \in {"lmr", "zero", "pv"},
           NEW f, Follows(f), NEW v \in Int, NEW tail \in Lines,
           Goto([f EXCEPT !.pc = "fold", !.val = v, !.tail = tail]),
           OnBoard, NoTTStore, UNCHANGED <<cells, nmpMinPly, stopped>>,
           ~stopped => v \in Scores(Top.ply),
           Top.pv /\ ~stopped => cells[Top.ply + 1].pv = tail
    PROVE  IInv'
<1> DEFINE h == [f EXCEPT !.pc = "fold", !.val = v, !.tail = tail]
<1>1. Top \in Frame /\ cells \in CellType /\ HoldsLine(Top, cells, stopped) /\ f \in Frame
    BY TopFacts DEF Follows
<1>2. h \in Frame
    BY <1>1 DEF Frame, SearchPcs, MovePcs
<1>3. Follows(h) /\ h.pc = "fold" /\ h.val = v /\ h.tail = tail
    BY <1>1, <1>2 DEF Frame, Follows
<1>4. Goto(h)
    OBVIOUS
<1> HIDE DEF h
<1>5. SameNode(h)
    BY <1>3, FollowsAt DEF MovePcs
<1>6. cells' = cells /\ stopped' = stopped /\ nmpMinPly' = nmpMinPly
    OBVIOUS
<1>7. HoldsLine(h, cells', stopped')
    BY <1>1, <1>3, <1>6 DEF HoldsLine, Follows
<1>8. LinesMove
    BY <1>1, <1>6 DEF LinesMove
<1>9. ExclusionMoves(h.pc)
    BY <1>1, <1>3, <1>6, ExclusionStays
<1>10. BoardMoves(h)
    BY <1>3 DEF OnBoard, Follows
<1>11. StoresScore /\ Advances
    BY NothingStored, AdvancesStill
<1>12. h.pc \notin CallPcs /\ (~stopped' /\ h.pc = "fold" => h.val \in Scores(h.ply))
    BY <1>3, <1>6 DEF CallPcs, Follows
<1>13. QED BY <1>4, <1>5, <1>7, <1>8, <1>9, <1>10, <1>11, <1>12, GotoKeeps

\* A null-window value leads to the full-window search, or is folded in.
LEMMA ToPvOrFoldKeeps ==
    ASSUME IInv, frames # <<>>, Top.fn = "search", Top.pc \in {"lmr", "zero"},
           NEW f, Follows(f), NEW v \in Int, ToPvOrFold(f, v),
           OnBoard, NoTTStore, UNCHANGED <<nmpMinPly, stopped>>,
           ~stopped => v \in Scores(Top.ply)
    PROVE  IInv'
<1>1. CASE f.pv /\ PvSearch(f)
    BY <1>1, PvSearchKeeps DEF Follows
<1>2. CASE Goto([f EXCEPT !.pc = "fold", !.val = v, !.tail = <<>>]) /\ UNCHANGED cells
    <2>1. <<>> \in Lines
        BY EmptySeq DEF Lines
    <2>2. Top.pv => cells[Top.ply + 1].pv = <<>>
        BY TopFacts DEF HoldsLine
    <2>3. UNCHANGED <<cells, nmpMinPly, stopped>>
        BY <1>2
    <2>4. QED BY <1>2, <2>1, <2>2, <2>3, ToFold
<1>3. QED BY <1>1, <1>2 DEF ToPvOrFold

\* The move is made, and searched for the first time.
LEMMA MakeMoveKeeps ==
    ASSUME IInv, MakeMove
    PROVE  IInv'
<1>1. /\ frames # <<>> /\ Top.fn = "search" /\ Top.pc = "make" /\ DoMove(Top.mv)
      /\ NoTTStore /\ UNCHANGED <<nmpMinPly, stopped>>
    BY DEF MakeMove, Running
<1>2. /\ Top \in Frame /\ Kind(Top) /\ Window(Top) /\ Count(Top) /\ Top.ply \in 0..MaxPly
    BY <1>1, TopFacts
<1>3. /\ Top.mv \in Nat /\ Top.n \in Nat /\ 1 <= Top.n /\ Top.n <= Top.mv /\ Top.nd \in Int
      /\ Top.cut \in BOOLEAN /\ Top.pv \in BOOLEAN /\ (Top.root => Top.pv)
    BY <1>1, <1>2, FrameFields DEF Count, Kind, MovePcs
<1>4. OnBoard
    <2> SUFFICES ASSUME NEW h, h.pc \in {"lmr", "zero", "pv", "fold"}, h.mv = Top.mv
                 PROVE  BoardMoves(h)
        BY DEF OnBoard
    <2>1. Bump(h) = 1 /\ Bump(Top) = 0 /\ Made(h) = Top.mv /\ Top.mv # 0
        BY <1>1, <1>3 DEF Bump, DeepPcs, Made
    <2>2. board' = Append(board, Top.mv) /\ accDepth' = accDepth + 1
        BY <1>1 DEF DoMove
    <2>3. QED BY <2>1, <2>2 DEF BoardMoves, BoardGrows
<1>5. \/ /\ Top.n > 1
         /\ \E x \in {1, Larger(1, Top.nd + 2)} :
                LET d == x + (IF Top.pv THEN 1 ELSE 0)
                IN Call([Top EXCEPT !.pc = "lmr", !.d = d],
                        [ZeroWindow(Top, d, TRUE) EXCEPT !.prior = Larger(0, Top.nd - d)])
         /\ UNCHANGED cells
      \/ /\ ~Top.pv \/ Top.n > 1
         /\ \E less \in 0..(IF Top.nd > 2 THEN 2 ELSE 1) :
                Call([Top EXCEPT !.pc = "zero"], ZeroWindow(Top, Top.nd - less, ~Top.cut))
         /\ UNCHANGED cells
      \/ Top.pv /\ PvSearch(Top)
    BY DEF MakeMove
<1>6. ASSUME NEW d \in Int, Top.n > 1, UNCHANGED cells,
             Call([Top EXCEPT !.pc = "lmr", !.d = d],
                  [ZeroWindow(Top, d, TRUE) EXCEPT !.prior = Larger(0, Top.nd - d)])
      PROVE  IInv'
    <2> DEFINE f == [Top EXCEPT !.pc = "lmr", !.d = d]
               p == Larger(0, Top.nd - d)
    <2>1. f \in Frame
        BY <1>2, <1>6 DEF Frame, SearchPcs, MovePcs
    <2>2. Follows(f) /\ f.pc = "lmr"
        BY <1>1, <1>2, <2>1 DEF Frame, Follows
    <2>3. p \in Int
        BY <1>3, <1>6 DEF Larger
    <2> HIDE DEF f, p
    <2>4. Call(f, [ZeroWindow(Top, d, TRUE) EXCEPT !.prior = p])
        BY <1>6 DEF f, p
    <2>5. \A cut \in BOOLEAN : Call(f, [ZeroWindow(Top, d, cut) EXCEPT !.prior = p]) => IInv'
        BY <1>1, <1>4, <1>6, <2>2, <2>3, ZeroCallKeeps DEF Follows
    <2>6. QED BY <2>4, <2>5, Zenon
<1>7. ASSUME NEW d \in Int, ~Top.pv \/ Top.n > 1, UNCHANGED cells,
             Call([Top EXCEPT !.pc = "zero"], ZeroWindow(Top, d, ~Top.cut))
      PROVE  IInv'
    <2> DEFINE f == [Top EXCEPT !.pc = "zero"]
    <2>1. f \in Frame
        BY <1>2 DEF Frame, SearchPcs, MovePcs
    <2>2. Follows(f) /\ f.pc = "zero"
        BY <1>1, <1>2, <2>1 DEF Frame, Follows
    <2>3. Top.root => Top.n > 1
        BY <1>3, <1>7
    <2>4. Call(f, ZeroWindow(Top, d, ~Top.cut)) /\ (~Top.cut) \in BOOLEAN /\ 0 \in Int
        BY <1>3, <1>7
    <2> HIDE DEF f
    <2>5. \A cut \in BOOLEAN : Call(f, ZeroWindow(Top, d, cut)) => IInv'
        BY <1>1, <1>4, <1>7, <2>2, <2>3, <2>4, ZeroCallKeeps
    <2>6. QED BY <2>4, <2>5, Zenon
<1>8. CASE /\ Top.n > 1
           /\ \E x \in {1, Larger(1, Top.nd + 2)} :
                LET d == x + (IF Top.pv THEN 1 ELSE 0)
                IN Call([Top EXCEPT !.pc = "lmr", !.d = d],
                        [ZeroWindow(Top, d, TRUE) EXCEPT !.prior = Larger(0, Top.nd - d)])
           /\ UNCHANGED cells
    <2>1. PICK x \in {1, Larger(1, Top.nd + 2)} :
                LET d == x + (IF Top.pv THEN 1 ELSE 0)
                IN Call([Top EXCEPT !.pc = "lmr", !.d = d],
                        [ZeroWindow(Top, d, TRUE) EXCEPT !.prior = Larger(0, Top.nd - d)])
        BY <1>8
    <2>2. x + (IF Top.pv THEN 1 ELSE 0) \in Int
        BY <1>3 DEF Larger
    <2>3. QED BY <1>6, <1>8, <2>1, <2>2
<1>9. CASE /\ ~Top.pv \/ Top.n > 1
           /\ \E less \in 0..(IF Top.nd > 2 THEN 2 ELSE 1) :
                Call([Top EXCEPT !.pc = "zero"], ZeroWindow(Top, Top.nd - less, ~Top.cut))
           /\ UNCHANGED cells
    <2>1. PICK less \in 0..(IF Top.nd > 2 THEN 2 ELSE 1) :
                Call([Top EXCEPT !.pc = "zero"], ZeroWindow(Top, Top.nd - less, ~Top.cut))
        BY <1>9
    <2>2. Top.nd - less \in Int
        BY <1>3
    <2>3. QED BY <1>7, <1>9, <2>1, <2>2
<1>10. CASE Top.pv /\ PvSearch(Top)
    <2>1. Follows(Top)
        BY <1>1, <1>2 DEF Follows
    <2>2. QED BY <1>1, <1>4, <1>10, <2>1, PvSearchKeeps
<1>11. QED BY <1>5, <1>8, <1>9, <1>10

\* A step between two searches of the same move.
LEMMA StillOnBoard ==
    ASSUME IInv, frames # <<>>, Top.pc \in {"lmr", "zero", "pv"}, NoMove
    PROVE  OnBoard
BY DEF OnBoard, BoardMoves, BoardStays, Bump, DeepPcs, Made

\* The reduced search is over.
LEMMA AfterReducedKeeps ==
    ASSUME IInv, AfterReduced
    PROVE  IInv'
<1>1. /\ frames # <<>> /\ ret # NoReturn /\ Top.fn = "search" /\ Top.pc = "lmr"
      /\ NoMove /\ NoTTStore /\ UNCHANGED <<nmpMinPly, stopped>>
    BY DEF AfterReduced, Returned
<1>2. /\ Top \in Frame /\ Count(Top)
    BY <1>1, TopFacts
<1>3. /\ Top.nd \in Int /\ Top.d \in Int /\ Top.cut \in BOOLEAN /\ Top.n > 1
    BY <1>1, <1>2, FrameFields DEF Count
<1>4. OnBoard
    BY <1>1, StillOnBoard
<1> DEFINE v == -ret.value
           deeper == IF Top.d < Top.nd /\ v > Top.best + 2 THEN 1 ELSE 0
           shallower == IF v < Top.best + 1 THEN 1 ELSE 0
           nd == Top.nd + deeper - shallower
           f == [Top EXCEPT !.nd = nd, !.d = 0]
           k == [Top EXCEPT !.d = 0]
<1>5. v \in Int /\ (~stopped => v \in Scores(Top.ply))
    BY <1>1, ChildScore
<1>6. \/ Call([f EXCEPT !.pc = "zero"], ZeroWindow(f, f.nd, ~f.cut)) /\ UNCHANGED cells
      \/ ToPvOrFold(f, v)
      \/ ToPvOrFold(k, v)
    BY DEF AfterReduced
<1>7. deeper \in Int /\ shallower \in Int
    OBVIOUS
<1> HIDE DEF v, deeper, shallower
<1>8. nd \in Int
    BY <1>3, <1>7
<1> HIDE DEF nd
<1>9. f \in Frame /\ k \in Frame
    <2>1. \A i \in Int, j \in Int : [Top EXCEPT !.nd = i, !.d = j] \in Frame
        BY <1>2 DEF Frame
    <2>2. \A j \in Int : [Top EXCEPT !.d = j] \in Frame
        BY <1>2 DEF Frame
    <2>3. 0 \in Int
        OBVIOUS
    <2>4. QED BY <1>8, <2>1, <2>2, <2>3, Zenon
<1>10. Follows(f) /\ Follows(k) /\ f.nd = nd
    BY <1>1, <1>2, <1>9 DEF Frame, Follows
<1> HIDE DEF f, k
<1>11. CASE Call([f EXCEPT !.pc = "zero"], ZeroWindow(f, f.nd, ~f.cut)) /\ UNCHANGED cells
    <2> DEFINE h == [f EXCEPT !.pc = "zero"]
    <2>1. h \in Frame
        BY <1>9 DEF Frame, SearchPcs, MovePcs
    <2>2. Follows(h) /\ h.pc = "zero"
        BY <1>9, <1>10, <2>1 DEF Frame, Follows
    <2>3. Call(h, ZeroWindow(Top, nd, ~Top.cut)) /\ (~Top.cut) \in BOOLEAN /\ 0 \in Int
        <3>1. f.nd = nd /\ f.ply = Top.ply /\ f.alpha = Top.alpha /\ f.cut = Top.cut
            BY <1>10 DEF Follows
        <3>2. ZeroWindow(f, f.nd, ~f.cut) = ZeroWindow(Top, nd, ~Top.cut)
            BY <3>1, Zenon DEF ZeroWindow
        <3>3. Call(h, ZeroWindow(f, f.nd, ~f.cut))
            BY <1>11
        <3>4. Call(h, ZeroWindow(Top, nd, ~Top.cut))
            BY <3>2, <3>3, Zenon
        <3>5. QED BY <1>3, <3>4
    <2> HIDE DEF h
    <2>4. \A cut \in BOOLEAN : Call(h, ZeroWindow(Top, nd, cut)) => IInv'
        BY <1>1, <1>3, <1>4, <1>8, <1>11, <2>2, <2>3, ZeroCallKeeps
    <2>5. QED BY <2>3, <2>4, Zenon
<1>12. CASE ToPvOrFold(f, v)
    BY <1>1, <1>4, <1>5, <1>10, <1>12, ToPvOrFoldKeeps
<1>13. CASE ToPvOrFold(k, v)
    BY <1>1, <1>4, <1>5, <1>10, <1>13, ToPvOrFoldKeeps
<1>14. QED BY <1>6, <1>11, <1>12, <1>13

\* The null-window search at full depth is over.
LEMMA AfterZeroKeeps ==
    ASSUME IInv, AfterZero
    PROVE  IInv'
<1>1. /\ frames # <<>> /\ ret # NoReturn /\ Top.fn = "search" /\ Top.pc = "zero"
      /\ NoMove /\ NoTTStore /\ UNCHANGED <<nmpMinPly, stopped>> /\ ToPvOrFold(Top, -ret.value)
    BY DEF AfterZero, Returned
<1>2. Follows(Top)
    BY <1>1, TopFacts DEF Follows
<1>3. OnBoard
    BY <1>1, StillOnBoard
<1>4. -ret.value \in Int /\ (~stopped => -ret.value \in Scores(Top.ply))
    BY <1>1, ChildScore
<1>5. QED BY <1>1, <1>2, <1>3, <1>4, ToPvOrFoldKeeps

\* The full-window search is over.
LEMMA AfterPvKeeps ==
    ASSUME IInv, AfterPv
    PROVE  IInv'
<1>1. /\ frames # <<>> /\ ret # NoReturn /\ Top.fn = "search" /\ Top.pc = "pv"
      /\ NoMove /\ NoTTStore /\ UNCHANGED <<cells, nmpMinPly, stopped>>
      /\ Goto([Top EXCEPT !.pc = "fold", !.val = -ret.value, !.tail = ret.line])
    BY DEF AfterPv, Returned
<1>2. Follows(Top)
    BY <1>1, TopFacts DEF Follows
<1>3. OnBoard
    BY <1>1, StillOnBoard
<1>4. -ret.value \in Int /\ (~stopped => -ret.value \in Scores(Top.ply))
    BY <1>1, ChildScore
<1>5. ret.line \in Lines /\ (Top.pv /\ ~stopped => cells[Top.ply + 1].pv = ret.line)
    BY <1>1, RetFacts
<1>6. QED BY <1>1, <1>2, <1>3, <1>4, <1>5, ToFold

\* The fields a fold changes.
LEMMA FoldedFrame ==
    ASSUME NEW f \in Frame, NEW pc \in SearchPcs, NEW val \in Int, NEW tail \in Lines,
           NEW b \in Int, NEW m \in Nat, NEW l \in Lines
    PROVE  [f EXCEPT !.pc = pc, !.val = val, !.tail = tail, !.best = b,
                     !.bestMove = m, !.line = l] \in Frame
BY Zenon DEF Frame

\* What a node folds in is a score of its own, or of no meaning after a stop.
LEMMA FoldedScore ==
    ASSUME IInv, frames # <<>>, Top.pc = "fold", ~stopped
    PROVE  Top.val \in Scores(Top.ply)
<1>1. Stack /\ Values
    BY DEF IInv, Core
<1>2. Len(frames) \in Nat \ {0} /\ Top = frames[Len(frames)]
    BY <1>1, TopIsLast
<1>3. QED BY <1>1, <1>2 DEF Values

\* The value of a move is folded in: nothing of it, a better value, a better line,
\* or the cutoff.
LEMMA FoldKeeps ==
    ASSUME IInv, Fold
    PROVE  IInv'
<1>1. /\ frames # <<>> /\ Top.fn = "search" /\ Top.pc = "fold" /\ UndoMove
      /\ NoTTStore /\ UNCHANGED <<nmpMinPly, stopped>>
    BY DEF Fold, Running
<1>2. /\ Top \in Frame /\ Kind(Top) /\ Window(Top) /\ Count(Top) /\ Score(Top)
      /\ Top.ply \in 0..MaxPly /\ cells \in CellType /\ HoldsLine(Top, cells, stopped)
      /\ Top.ply \in 0..(MaxPly + 2) /\ Top.ply + 1 \in 0..(MaxPly + 2)
    BY <1>1, TopFacts
<1>3. /\ Top.mv \in Nat \ {0} /\ Top.n \in Nat /\ 1 <= Top.n /\ Top.n <= Top.mv
      /\ Top.val \in Int /\ Top.best \in Int /\ Top.alpha \in Int /\ Top.beta \in Int
      /\ Top.depth \in Int /\ Top.depth >= 1 /\ Top.bestMove \in Nat /\ Top.line \in Lines
      /\ Top.tail \in Lines /\ Top.pv \in BOOLEAN /\ Top.root \in BOOLEAN
    <2>1. /\ Top.mv \in Nat /\ Top.n \in Nat /\ 1 <= Top.n /\ Top.n <= Top.mv /\ Top.depth >= 1
        BY <1>1, <1>2, FrameFields DEF Count, Kind, MovePcs
    <2>2. Top.bestMove \in Nat
        BY <1>2 DEF Frame
    <2>3. QED BY <1>2, <2>1, <2>2, FrameFields
<1>4. StoresScore /\ Advances /\ stopped' = stopped
    BY <1>1, NothingStored, AdvancesStill
<1>5. \A f : f.pc \notin DeepPcs => BoardMoves(f)
    <2>1. Top.pc \in DeepPcs /\ Made(Top) # 0
        BY <1>1, <1>3 DEF DeepPcs, Made
    <2>2. QED BY <1>1, <2>1, TakenBack DEF UndoMove
<1>6. PICK inc \in {0} \cup (IF MayTie(Top) THEN {1} ELSE {}) :
        LET v == Top.val
            better == v + inc > Top.best
            raises == better /\ v + inc > Top.alpha
            f == [Top EXCEPT !.pc = "next", !.val = 0, !.tail = <<>>,
                     !.best = IF better THEN v ELSE @,
                     !.bestMove = IF raises THEN Top.mv ELSE @,
                     !.line = IF raises /\ Top.pv /\ ~Top.root THEN <<Top.mv>> \o Top.tail
                              ELSE @]
        IN IF stopped THEN Return(0, <<>>) /\ UNCHANGED cells
           ELSE /\ cells' = IF raises /\ Top.pv /\ ~Top.root
                            THEN update_pv(cells, Top.ply, Top.mv) ELSE cells
                /\ IF raises /\ v >= Top.beta THEN Goto([f EXCEPT !.pc = "tail"])
                   ELSE IF raises
                   THEN Goto([f EXCEPT !.alpha = v,
                                 !.depth = IF f.depth > 2 /\ f.depth < DeepDepth /\ ~is_decisive(v)
                                           THEN f.depth - 2 ELSE @])
                   ELSE Goto(f)
    BY DEF Fold
<1> DEFINE v == Top.val
           better == v + inc > Top.best
           raises == better /\ v + inc > Top.alpha
           best == IF better THEN v ELSE Top.best
           bestMove == IF raises THEN Top.mv ELSE Top.bestMove
           line == IF raises /\ Top.pv /\ ~Top.root THEN <<Top.mv>> \o Top.tail ELSE Top.line
           f == [Top EXCEPT !.pc = "next", !.val = 0, !.tail = <<>>, !.best = best,
                            !.bestMove = bestMove, !.line = line]
           depth == IF f.depth > 2 /\ f.depth < DeepDepth /\ ~is_decisive(v)
                    THEN f.depth - 2 ELSE f.depth
<1>6a. inc \in {0, 1} /\ inc \in Int
    BY <1>6
<1>7. CASE stopped
    <2>1. Return(0, <<>>) /\ cells' = cells
        BY <1>6, <1>7
    <2>2. Calm
        BY <1>1, <1>4, <2>1, Calms
    <2>3. BoardMoves(Gone)
        BY <1>1, <1>5, GoneBump DEF DeepPcs
    <2>4. <<>> \in Lines /\ 0 \in Int /\ stopped'
        BY <1>4, <1>7, EmptySeq DEF Lines
    <2>5. QED BY <1>1, <2>1, <2>2, <2>3, <2>4, PlainReturn
<1>8. CASE ~stopped
    <2>1. cells' = IF raises /\ Top.pv /\ ~Top.root
                   THEN update_pv(cells, Top.ply, Top.mv) ELSE cells
        BY <1>6, <1>8
    <2>2. \/ raises /\ v >= Top.beta /\ Goto([f EXCEPT !.pc = "tail"])
          \/ raises /\ ~(v >= Top.beta) /\ Goto([f EXCEPT !.alpha = v, !.depth = depth])
          \/ ~raises /\ Goto(f)
        BY <1>6, <1>8
    <2>3. v \in Scores(Top.ply) /\ v \in Int /\ v > -VALUE_INFINITE /\ -Mate <= v
        BY <1>1, <1>2, <1>8, FoldedScore, ScoreNumber
    <2>4. /\ line \in Lines /\ best \in Int /\ bestMove \in Nat
          /\ best # -VALUE_INFINITE /\ best \in Scores(Top.ply)
        <3>1. <<Top.mv>> \o Top.tail \in Lines
            <4>1. <<Top.mv>> \in Lines /\ Top.tail \in Lines
                BY <1>3 DEF Lines
            <4>2. QED BY <4>1, ConcatProperties DEF Lines
        <3>2. CASE better
            BY <1>3, <2>3, <3>1, <3>2
        <3>3. CASE ~better
            BY <1>2, <1>3, <2>3, <3>3, Numbers DEF Score, VALUE_INFINITE
        <3>4. QED BY <3>2, <3>3
    <2>5. f \in Frame
        <3>1. "next" \in SearchPcs /\ 0 \in Int /\ <<>> \in Lines
            BY EmptySeq DEF SearchPcs, Lines
        <3> HIDE DEF best, bestMove, line
        <3>2. QED BY <1>2, <2>4, <3>1, FoldedFrame, Zenon
    <2>6. /\ f.pc = "next" /\ f.depth = Top.depth /\ f.fn = Top.fn /\ f.ply = Top.ply
          /\ f.root = Top.root /\ f.pv = Top.pv /\ f.cut = Top.cut /\ f.alpha = Top.alpha
          /\ f.beta = Top.beta /\ f.n = Top.n /\ f.mv = Top.mv /\ f.tt = Top.tt
          /\ f.best = best /\ f.line = line
        BY <1>2 DEF Frame
    <2> HIDE DEF f
    <2>7. depth \in Int /\ depth >= 1
        BY <1>3, <2>6
    <2>8. /\ cells' \in CellType
          /\ \A p \in 0..(MaxPly + 2) :
                /\ cells'[p].excluded = cells[p].excluded
                /\ ~Top.pv \/ p # Top.ply => cells'[p].pv = cells[p].pv
          /\ Top.pv /\ ~Top.root => cells'[Top.ply].pv = line
        <3>1. CASE raises /\ Top.pv /\ ~Top.root
            <4>1. Top.tail = cells[Top.ply + 1].pv
                BY <1>1, <1>2, <1>8, <3>1 DEF HoldsLine
            <4>2. cells' = update_pv(cells, Top.ply, Top.mv) /\ line = <<Top.mv>> \o Top.tail
                BY <2>1, <3>1
            <4> DEFINE u == update_pv(cells, Top.ply, Top.mv)
            <4>3. /\ u \in CellType /\ u[Top.ply].pv = <<Top.mv>> \o cells[Top.ply + 1].pv
                  /\ \A p \in 0..(MaxPly + 2) :
                        /\ u[p].excluded = cells[p].excluded
                        /\ p # Top.ply => u[p].pv = cells[p].pv
                BY <1>2, <1>3, LineUpdated
            <4>4. cells' = u
                BY <4>2
            <4> HIDE DEF line, raises, u
            <4>5. QED BY <3>1, <4>1, <4>2, <4>3, <4>4
        <3>2. CASE ~(raises /\ Top.pv /\ ~Top.root)
            <4>1. cells' = cells /\ line = Top.line
                BY <2>1, <3>2
            <4> HIDE DEF line, raises
            <4>2. QED BY <1>1, <1>2, <4>1 DEF HoldsLine
        <3>3. QED BY <3>1, <3>2
    <2>9. LinesMove
        BY <2>8 DEF LinesMove
    <2>10. /\ ~raises /\ Top.root /\ Top.n = 1 => Top.alpha >= -Mate
           /\ raises => v >= Top.alpha
        <3>1. ASSUME ~raises, Top.root, Top.n = 1
              PROVE  Top.alpha >= -Mate
            <4>1. better
                BY <1>1, <1>2, <1>3, <2>3, <3>1 DEF Count, MovePcs, VALUE_INFINITE
            <4>2. ~(v + inc > Top.alpha)
                BY <3>1, <4>1
            <4>3. QED BY <1>3, <2>3, <4>2, Numbers
        <3>2. QED BY <1>3, <3>1
    <2>11. /\ -VALUE_INFINITE <= Top.alpha /\ Top.alpha < Top.beta /\ Top.beta <= VALUE_INFINITE
           /\ Top.pv \/ Top.alpha = Top.beta - 1
           /\ ~(Top.pv /\ Top.cut) /\ (Top.root => Top.beta > -Mate)
           /\ ~Top.root => mated_in(Top.ply) <= Top.alpha /\ Top.beta <= mate_in(Top.ply + 1)
           /\ Top.root /\ Top.n > 1 => Top.alpha >= -Mate
        BY <1>1, <1>2 DEF Window, MovePcs
    <2> DEFINE lower == raises /\ ~(v >= Top.beta)
    <2>12. lower => v < Top.beta /\ (Top.pv \/ v = Top.beta - 1)
        BY <1>3, <2>3, <2>10, <2>11
    <2>13. /\ ~raises => (Top.root => Top.alpha >= -Mate)
           /\ raises => (~Top.root => mated_in(Top.ply) <= v)
        <3>1. mated_in(Top.ply) \in Int
            BY <1>2, Numbers DEF mated_in
        <3>2. QED BY <1>3, <2>3, <2>10, <2>11, <3>1
    <2>14. ASSUME NEW h \in Frame, Goto(h),
                  h.pc = "next" \/ (raises /\ h.pc = "tail"), h.depth >= 1, h.fn = Top.fn,
                  h.ply = Top.ply, h.root = Top.root, h.pv = Top.pv, h.cut = Top.cut,
                  h.alpha = (IF lower THEN v ELSE Top.alpha), h.beta = Top.beta, h.n = Top.n,
                  h.mv = Top.mv, h.tt = Top.tt, h.best = best, h.line = line,
                  h.pc = "next" => lower \/ ~raises
           PROVE  IInv'
        <3> HIDE DEF best, line
        <3>1. Kind(h)
            BY <1>1, <1>2, <2>14 DEF Kind, SearchPcs
        <3>2. Window(h)
            <4>1. CASE lower
                <5>1. h.alpha = v
                    BY <2>14, <4>1
                <5> HIDE DEF v, lower
                <5>2. v < Top.beta /\ (Top.pv \/ v = Top.beta - 1) /\ -VALUE_INFINITE <= v
                      /\ -Mate <= v
                    BY <2>3, <2>12, <4>1, Numbers DEF VALUE_INFINITE
                <5>3. ~Top.root => mated_in(Top.ply) <= v
                    BY <2>13, <4>1 DEF lower
                <5>4. QED BY <1>1, <2>11, <2>14, <5>1, <5>2, <5>3 DEF Window
            <4>2. CASE ~lower
                <5>1. h.alpha = Top.alpha
                    BY <2>14, <4>2
                <5>2. h.pc = "next" => (Top.root => Top.alpha >= -Mate)
                    BY <2>13, <2>14, <4>2
                <5> HIDE DEF v, lower, raises
                <5>3. h.pc \notin MovePcs /\ h.pc \notin {"enter", "probcut_q", "probcut_s"}
                    BY <2>14 DEF MovePcs
                <5>4. QED BY <1>1, <2>11, <2>14, <5>1, <5>2, <5>3 DEF Window, MovePcs
            <4>3. QED BY <4>1, <4>2
        <3> HIDE DEF lower, raises, better, v
        <3>3. h.pc \notin MovePcs \cup BeforePcs
            BY <2>14 DEF MovePcs, BeforePcs
        <3>4. Count(h)
            BY <1>1, <1>3, <2>4, <2>14, <3>3 DEF Count, MovePcs
        <3>5. Score(h)
            BY <1>2, <2>4, <2>14 DEF Score
        <3>6. SameNode(h)
            BY <2>14, <3>1, <3>2, <3>4, <3>5 DEF SameNode, Local
        <3>7. HoldsLine(h, cells', stopped')
            BY <2>8, <2>14 DEF HoldsLine
        <3>8. ExclusionMoves(h.pc)
            BY <1>1, <2>8, <2>14, ExclusionStays
        <3>9. BoardMoves(h)
            BY <1>5, <2>14 DEF DeepPcs
        <3>10. h.pc \notin CallPcs /\ h.pc # "fold"
            BY <2>14 DEF CallPcs
        <3>11. QED BY <1>1, <1>4, <2>9, <2>14, <3>6, <3>7, <3>8, <3>9, <3>10, GotoKeeps
    <2> DEFINE h1 == [f EXCEPT !.pc = "tail"]
               h2 == [f EXCEPT !.alpha = v, !.depth = depth]
    <2>15. h1 \in Frame /\ h2 \in Frame
        <3>1. h1 \in Frame
            BY <2>5 DEF Frame, SearchPcs
        <3> HIDE DEF v, depth
        <3>2. h2 \in Frame
            BY <2>3, <2>5, <2>7 DEF Frame
        <3>3. QED BY <3>1, <3>2
    <2>16. /\ h1.pc = "tail" /\ h1.alpha = f.alpha /\ h1.depth = f.depth /\ h1.fn = f.fn
           /\ h1.ply = f.ply /\ h1.root = f.root /\ h1.pv = f.pv /\ h1.cut = f.cut
           /\ h1.beta = f.beta /\ h1.n = f.n /\ h1.mv = f.mv /\ h1.tt = f.tt
           /\ h1.best = f.best /\ h1.line = f.line
        BY <2>5 DEF Frame
    <2>17. /\ h2.pc = f.pc /\ h2.alpha = v /\ h2.depth = depth /\ h2.fn = f.fn
           /\ h2.ply = f.ply /\ h2.root = f.root /\ h2.pv = f.pv /\ h2.cut = f.cut
           /\ h2.beta = f.beta /\ h2.n = f.n /\ h2.mv = f.mv /\ h2.tt = f.tt
           /\ h2.best = f.best /\ h2.line = f.line
        <3> HIDE DEF v, depth
        <3>1. QED BY <2>5 DEF Frame
    <2> HIDE DEF h1, h2, depth, best, line, raises
    <2>18. CASE raises /\ v >= Top.beta /\ Goto(h1)
        BY <1>3, <2>6, <2>14, <2>15, <2>16, <2>18
    <2>19. CASE raises /\ ~(v >= Top.beta) /\ Goto(h2)
        BY <2>6, <2>7, <2>14, <2>15, <2>17, <2>19
    <2>20. CASE ~raises /\ Goto(f)
        BY <1>3, <2>5, <2>6, <2>14, <2>20
    <2>21. QED BY <2>2, <2>18, <2>19, <2>20 DEF h1, h2
<1>9. QED BY <1>7, <1>8

\* The picker has no more moves.
LEMMA LoopEndKeeps ==
    ASSUME IInv, LoopEnd
    PROVE  IInv'
<1> DEFINE f == [Top EXCEPT !.pc = "tail", !.mv = 0]
<1>1. /\ frames # <<>> /\ Top.fn = "search" /\ Top.pc = "next" /\ (Top.root => Top.n > 0)
      /\ NoMove /\ NoTTStore /\ UNCHANGED <<cells, nmpMinPly, stopped>> /\ Goto(f)
    BY DEF LoopEnd, Running
<1>2. /\ Top \in Frame /\ Kind(Top) /\ Window(Top) /\ Count(Top) /\ Score(Top)
    BY <1>1, TopFacts
<1>3. Settled
    BY <1>1, Settles, NothingStored
<1>4. f \in Frame
    BY <1>2 DEF Frame, SearchPcs
<1>5. /\ f.pc = "tail" /\ f.depth = Top.depth /\ f.fn = Top.fn /\ f.ply = Top.ply
      /\ f.root = Top.root /\ f.pv = Top.pv /\ f.cut = Top.cut /\ f.alpha = Top.alpha
      /\ f.beta = Top.beta /\ f.n = Top.n /\ f.best = Top.best /\ f.line = Top.line
      /\ f.tt = Top.tt
    BY <1>2 DEF Frame
<1> HIDE DEF f
<1>6. Kind(f)
    BY <1>1, <1>2, <1>5 DEF Kind, SearchPcs
<1>7. Window(f)
    BY <1>1, <1>2, <1>5 DEF Window, MovePcs
<1>8. Count(f)
    BY <1>1, <1>2, <1>5 DEF Count, MovePcs, BeforePcs
<1>9. Score(f)
    BY <1>2, <1>5 DEF Score
<1>10. SameNode(f)
    BY <1>4, <1>5, <1>6, <1>7, <1>8, <1>9 DEF SameNode, Local
<1>11. f.pc \notin CallPcs /\ f.pc \notin {"fold", "exclude", "make"}
    BY <1>5 DEF CallPcs
<1>12. QED BY <1>1, <1>3, <1>5, <1>10, <1>11, QuietGoto DEF DeepPcs

\* A fail high that is no mate, softened towards beta, is no mate either.
LEMMA SoftenedScore ==
    ASSUME NEW ply \in 0..MaxPly, NEW alpha \in Int, NEW beta \in Int, NEW best \in Int,
           NEW depth \in Nat, alpha < beta, beta <= best,
           ~is_decisive(best), ~is_decisive(alpha)
    PROVE  Trunc(best * depth + beta, depth + 1) \in Scores(ply)
<1> DEFINE v == Trunc(best * depth + beta, depth + 1)
<1>1. v \in beta..best
    BY TruncWeighted
<1> HIDE DEF v
<1>2. v \in Int /\ ~is_decisive(v)
    BY <1>1, Numbers DEF is_decisive, is_win, is_loss, TBWin
<1>3. QED BY <1>2, ScoreOwn DEF v

\* The node's value, softened, stored and returned.
LEMMA FinishKeeps ==
    ASSUME IInv, Finish
    PROVE  IInv'
<1> DEFINE excluded == ExcludedHere(Top) # 0
           softened ==
               IF Top.best >= Top.beta /\ ~is_decisive(Top.best) /\ ~is_decisive(Top.alpha)
               THEN Trunc(Top.best * Top.depth + Top.beta, Top.depth + 1) ELSE Top.best
           best == IF Top.n = 0 THEN (IF excluded THEN Top.alpha ELSE mated_in(Top.ply))
                   ELSE softened
           bound == IF best >= Top.beta THEN 2
                    ELSE IF Top.pv /\ Top.bestMove # 0 THEN 3 ELSE 1
<1>1. /\ frames # <<>> /\ Top.fn = "search" /\ Top.pc = "tail"
      /\ NoMove /\ UNCHANGED <<cells, nmpMinPly, stopped>> /\ Return(best, Top.line)
      /\ NoTTStore \/ tt_store(value_to_tt(best, Top.ply), bound, Top.n > 0)
    BY DEF Finish, Running
<1>2. /\ Top \in Frame /\ Kind(Top) /\ Window(Top) /\ Count(Top) /\ Score(Top)
      /\ Top.ply \in 0..MaxPly
    BY <1>1, TopFacts
<1>3. /\ Top.best \in Int /\ Top.alpha \in Int /\ Top.beta \in Int /\ Top.depth \in Int
      /\ Top.n \in Nat /\ Top.line \in Lines /\ Top.root \in BOOLEAN
    BY <1>2, FrameFields
<1>4. Top.depth \in Nat /\ Top.alpha < Top.beta
    BY <1>1, <1>2, <1>3 DEF Kind, Window
<1>5. best \in Scores(Top.ply)
    <2>1. CASE Top.n = 0
        <3>1. ~Top.root
            BY <1>1, <1>2, <2>1 DEF Count
        <3>2. mated_in(Top.ply) <= Top.alpha /\ Top.beta <= mate_in(Top.ply + 1)
            BY <1>1, <1>2, <3>1 DEF Window
        <3>3. Top.alpha \in OwnScores(Top.ply) /\ mated_in(Top.ply) \in OwnScores(Top.ply)
              /\ mated_in(Top.ply) \in Int
            BY <1>2, <1>3, <1>4, <3>2, Numbers DEF OwnScores, mated_in, mate_in
        <3>4. Top.alpha \in Scores(Top.ply) /\ mated_in(Top.ply) \in Scores(Top.ply)
            BY <1>2, <1>3, <3>3, ScoreOwn
        <3>5. QED BY <2>1, <3>4
    <2>2. CASE Top.n # 0
        <3>1. Top.best \in Scores(Top.ply)
            BY <1>1, <1>2, <1>3, <2>2 DEF Count, Score
        <3>2. CASE Top.best >= Top.beta /\ ~is_decisive(Top.best) /\ ~is_decisive(Top.alpha)
            <4>1. Trunc(Top.best * Top.depth + Top.beta, Top.depth + 1) \in Scores(Top.ply)
                BY <1>2, <1>3, <1>4, <3>2, SoftenedScore
            <4>2. QED BY <2>2, <3>2, <4>1
        <3>3. QED BY <2>2, <3>1, <3>2
    <2>3. QED BY <2>1, <2>2
<1> HIDE DEF best, bound
<1>6. best \in Int
    BY <1>2, <1>5, ScoreNumber
<1>7. StoresScore
    <2>1. CASE NoTTStore
        BY <2>1, NothingStored
    <2>2. CASE tt_store(value_to_tt(best, Top.ply), bound, Top.n > 0)
        BY <1>2, <1>5, <2>2, StoredScore DEF tt_store, StoresScore
    <2>3. QED BY <1>1, <2>1, <2>2
<1>8. Settled
    BY <1>1, <1>7, Settles
<1>9. QED BY <1>1, <1>3, <1>5, <1>6, <1>8, QuietReturn DEF DeepPcs
-----------------------------------------------------------------------------
(* qsearch. *)

\* An activation of qsearch that goes on, its window perhaps raised.
LEMMA AtQuiescence ==
    ASSUME IInv, frames # <<>>, Top.fn = "qsearch", NEW f \in Frame,
           f.fn = "qsearch", f.ply = Top.ply, f.root = Top.root, f.pv = Top.pv, f.cut = Top.cut,
           f.beta = Top.beta, Top.alpha <= f.alpha, f.alpha < f.beta,
           f.pc \in QSearchPcs \ {"enter"}, Top.ply < MaxPly, f.pc = "stand" => ~f.check,
           Count(f), Score(f)
    PROVE  SameNode(f)
<1>1. Top \in Frame /\ Kind(Top) /\ Window(Top)
    BY TopFacts
<1>2. /\ Top.alpha \in Int /\ Top.beta \in Int /\ f.alpha \in Int /\ ~Top.root
      /\ Top.root \in BOOLEAN
    BY <1>1, FrameFields DEF Kind
<1>3. Kind(f)
    BY <1>2 DEF Kind, QSearchPcs
<1>4. /\ -VALUE_INFINITE <= Top.alpha /\ Top.alpha < Top.beta /\ Top.beta <= VALUE_INFINITE
      /\ Top.pv \/ Top.alpha = Top.beta - 1
      /\ ~(Top.pv /\ Top.cut)
    BY <1>1 DEF Window
<1>5. -VALUE_INFINITE <= f.alpha /\ (f.pv \/ f.alpha = f.beta - 1)
    BY <1>2, <1>4, Numbers DEF VALUE_INFINITE
<1>6. Window(f)
    BY <1>2, <1>4, <1>5 DEF Window, QSearchPcs
<1>7. QED BY <1>3, <1>6 DEF SameNode, Local

\* The node's own line cleared.
Cleared(c, ply) == [c EXCEPT ![ply].pv = <<>>]

\* Nothing else of the shared stack changes with it.
LEMMA OwnCleared ==
    ASSUME NEW c \in CellType, NEW ply \in 0..MaxPly
    PROVE  /\ Cleared(c, ply) \in CellType /\ Cleared(c, ply)[ply].pv = <<>>
           /\ \A p \in 0..(MaxPly + 2) :
                /\ Cleared(c, ply)[p].excluded = c[p].excluded
                /\ p # ply => Cleared(c, ply)[p].pv = c[p].pv
<1>1. ply \in 0..(MaxPly + 2) /\ <<>> \in Lines
    BY Numbers, EmptySeq DEF Lines
<1>2. QED BY <1>1 DEF CellType, Cleared

\* The check for a stop, the draws, and the ply limit.
LEMMA QEnterKeeps ==
    ASSUME IInv, QEnter
    PROVE  IInv'
<1>1. /\ frames # <<>> /\ Top.fn = "qsearch" /\ Top.pc = "enter"
      /\ NoMove /\ NoTTStore /\ nmpMinPly' = nmpMinPly /\ stopped' \in {stopped, TRUE}
    BY DEF QEnter, Running
<1>2. /\ Top \in Frame /\ Kind(Top) /\ Window(Top) /\ Count(Top) /\ Score(Top)
      /\ Top.ply \in 0..MaxPly /\ Top.ply \in 0..(MaxPly + 2) /\ cells \in CellType
    BY <1>1, TopFacts
<1>3. Advances
    <2>1. stopped \in BOOLEAN /\ nmpMinPly \in Int
        BY <1>1, TopFacts
    <2>2. QED BY <1>1, <2>1, Zenon DEF Advances
<1>4. StoresScore
    BY <1>1, NothingStored
<1>5. /\ Top.line = <<>> /\ <<>> \in Lines /\ 0 \in Int /\ Top.n = 0
      /\ Top.best = -VALUE_INFINITE
    BY <1>1, <1>2, EmptySeq DEF Count, Lines
<1>6. \/ stopped' /\ Return(0, <<>>) /\ cells' = cells
      \/ /\ ~stopped' /\ cells' = (IF Top.pv THEN Cleared(cells, Top.ply) ELSE cells)
         /\ \/ \E v \in RepetitionScores(Top.ply) \cup DrawScores : Return(v, <<>>)
            \/ /\ Top.ply < MaxPly
               /\ \E check \in BOOLEAN : Goto([Top EXCEPT !.pc = "probe", !.check = check])
    <2>1. Top.check \in BOOLEAN
        BY <1>2, FrameFields
    <2>2. QED BY <2>1 DEF QEnter, Cleared
<1>7. CASE stopped' /\ Return(0, <<>>) /\ cells' = cells
    <2>1. Settled
        BY <1>1, <1>3, <1>4, <1>7 DEF Settled, Calm
    <2>2. QED BY <1>1, <1>5, <1>7, <2>1, QuietReturn DEF DeepPcs
<1>8. CASE ~stopped' /\ cells' = (IF Top.pv THEN Cleared(cells, Top.ply) ELSE cells)
    <2>1. /\ cells' \in CellType /\ (Top.pv => cells'[Top.ply].pv = <<>>)
          /\ \A p \in 0..(MaxPly + 2) :
                /\ cells'[p].excluded = cells[p].excluded
                /\ ~Top.pv \/ p # Top.ply => cells'[p].pv = cells[p].pv
        <3> DEFINE c == Cleared(cells, Top.ply)
        <3>1. /\ c \in CellType /\ c[Top.ply].pv = <<>>
              /\ \A p \in 0..(MaxPly + 2) :
                    /\ c[p].excluded = cells[p].excluded
                    /\ p # Top.ply => c[p].pv = cells[p].pv
            BY <1>2, OwnCleared
        <3>2. cells' = IF Top.pv THEN c ELSE cells
            BY <1>8
        <3> HIDE DEF c
        <3>3. QED BY <1>2, <3>1, <3>2
    <2>2. LinesMove
        BY <2>1 DEF LinesMove
    <2>3. \A pc : pc # "singular" /\ pc # "exclude" => ExclusionMoves(pc)
        BY <1>1, <2>1, ExclusionStays
    <2>4. ASSUME NEW v \in RepetitionScores(Top.ply) \cup DrawScores, Return(v, <<>>)
          PROVE  IInv'
        <3>1. v \in Scores(Top.ply) /\ v \in Int
            BY <1>2, DrawsAreScores, ScoreNumber
        <3>2. BoardMoves(Gone)
            BY <1>1, GoneBump DEF BoardMoves, BoardStays, Bump, DeepPcs
        <3>3. ExclusionMoves("gone")
            BY <2>3
        <3>4. QED BY <1>1, <1>3, <1>4, <1>5, <2>1, <2>2, <2>4, <3>1, <3>2, <3>3, ReturnKeeps
    <2>5. ASSUME Top.ply < MaxPly, NEW check \in BOOLEAN,
                 Goto([Top EXCEPT !.pc = "probe", !.check = check])
          PROVE  IInv'
        <3> DEFINE f == [Top EXCEPT !.pc = "probe", !.check = check]
        <3>1. f \in Frame
            BY <1>2 DEF Frame, QSearchPcs
        <3>2. /\ f.pc = "probe" /\ f.fn = Top.fn /\ f.ply = Top.ply /\ f.root = Top.root
              /\ f.pv = Top.pv /\ f.cut = Top.cut /\ f.alpha = Top.alpha /\ f.beta = Top.beta
              /\ f.n = Top.n /\ f.best = Top.best /\ f.line = Top.line /\ f.tt = Top.tt
            BY <1>2 DEF Frame
        <3>3. Goto(f)
            BY <2>5
        <3> HIDE DEF f
        <3>4. Count(f) /\ Score(f)
            BY <1>1, <1>2, <1>5, <3>2 DEF Count, Score
        <3>5. Top.alpha \in Int /\ Top.alpha <= f.alpha /\ f.alpha < f.beta
            BY <1>2, <3>2, FrameFields DEF Window
        <3>6. SameNode(f)
            BY <1>1, <2>5, <3>1, <3>2, <3>4, <3>5, AtQuiescence DEF QSearchPcs
        <3>7. HoldsLine(f, cells', stopped')
            BY <1>5, <2>1, <3>2 DEF HoldsLine
        <3>8. ExclusionMoves(f.pc) /\ f.pc \notin CallPcs
            BY <2>3, <3>2 DEF CallPcs
        <3>9. BoardMoves(f)
            BY <1>1, <3>2 DEF BoardMoves, BoardStays, Bump, DeepPcs
        <3>10. QED BY <1>1, <1>3, <1>4, <2>2, <3>2, <3>3, <3>6, <3>7, <3>8, <3>9, GotoKeeps
    <2>6. QED BY <1>6, <1>8, <2>4, <2>5
<1>9. QED BY <1>6, <1>7, <1>8

\* The table and its cutoff.
LEMMA QProbeKeeps ==
    ASSUME IInv, QProbe
    PROVE  IInv'
<1>1. /\ frames # <<>> /\ Top.fn = "qsearch" /\ Top.pc = "probe"
      /\ NoMove /\ NoTTStore /\ UNCHANGED <<cells, nmpMinPly, stopped>>
    BY DEF QProbe, Running
<1>2. /\ Top \in Frame /\ Kind(Top) /\ Window(Top) /\ Count(Top) /\ Score(Top)
      /\ Top.ply \in 0..MaxPly
    BY <1>1, TopFacts
<1>3. Settled
    BY <1>1, Settles, NothingStored
<1>4. /\ Top.line = <<>> /\ <<>> \in Lines /\ Top.n = 0 /\ Top.best = -VALUE_INFINITE
      /\ Top.ply < MaxPly /\ Top.check \in BOOLEAN
    BY <1>1, <1>2, EmptySeq, FrameFields DEF Count, Kind, Lines
<1>5. PICK tt \in Probes(Top.ply) :
        \/ Return(tt.value, <<>>) /\ tt.value # VALUE_NONE
        \/ Goto([Top EXCEPT !.tt = IF Top.check THEN Miss ELSE tt,
                            !.pc = IF Top.check THEN "next" ELSE "stand"])
    BY DEF QProbe
<1>6. tt \in Answers /\ (tt.value = VALUE_NONE \/ tt.value \in OwnScores(Top.ply))
    BY <1>2, ProbesAreScores
<1>7. CASE Return(tt.value, <<>>) /\ tt.value # VALUE_NONE
    <2>1. tt.value \in Scores(Top.ply) /\ tt.value \in Int
        BY <1>2, <1>6, <1>7, ScoreOwn DEF Answers
    <2>2. QED BY <1>1, <1>3, <1>4, <1>7, <2>1, QuietReturn DEF DeepPcs
<1> DEFINE t == IF Top.check THEN Miss ELSE tt
           pc == IF Top.check THEN "next" ELSE "stand"
           f == [Top EXCEPT !.tt = t, !.pc = pc]
<1>8. CASE Goto(f)
    <2>1. t \in Answers /\ (t.value = VALUE_NONE \/ t.value \in OwnScores(Top.ply))
        BY <1>6, Numbers DEF Miss, Answers, VALUE_NONE
    <2>2. pc \in QSearchPcs
        BY DEF QSearchPcs
    <2> HIDE DEF t, pc
    <2>3. f \in Frame
        BY <1>2, <2>1, <2>2 DEF Frame
    <2>4. /\ f.pc = pc /\ f.fn = Top.fn /\ f.ply = Top.ply /\ f.root = Top.root
          /\ f.pv = Top.pv /\ f.cut = Top.cut /\ f.alpha = Top.alpha /\ f.beta = Top.beta
          /\ f.n = Top.n /\ f.best = Top.best /\ f.line = Top.line /\ f.tt = t
          /\ f.check = Top.check
        BY <1>2 DEF Frame
    <2> HIDE DEF f
    <2>5. pc = IF Top.check THEN "next" ELSE "stand"
        BY DEF pc
    <2>6. Count(f) /\ Score(f)
        BY <1>1, <1>2, <1>4, <2>1, <2>4, <2>5 DEF Count, Score
    <2>7. Top.alpha \in Int /\ Top.alpha <= f.alpha /\ f.alpha < f.beta
        BY <1>2, <2>4, FrameFields DEF Window
    <2>8. SameNode(f)
        BY <1>1, <1>4, <2>2, <2>3, <2>4, <2>5, <2>6, <2>7, AtQuiescence DEF QSearchPcs
    <2>9. f.pc \notin CallPcs /\ f.pc \notin {"fold", "exclude", "make"}
        BY <2>4, <2>5 DEF CallPcs
    <2>10. QED BY <1>1, <1>3, <1>8, <2>4, <2>8, <2>9, QuietGoto DEF DeepPcs
<1>9. QED BY <1>5, <1>7, <1>8

\* The mate in one.
LEMMA QMateKeeps ==
    ASSUME IInv, QMate
    PROVE  IInv'
<1> DEFINE v == mate_in(Top.ply + 1)
<1>1. /\ frames # <<>> /\ Top.fn = "qsearch" /\ Top.pc = "stand"
      /\ NoMove /\ UNCHANGED <<cells, nmpMinPly, stopped>>
      /\ tt_store(v, 3, FALSE) /\ Return(v, <<>>)
    BY DEF QMate, Running
<1>2. Top \in Frame /\ Count(Top) /\ Top.ply \in 0..MaxPly
    BY <1>1, TopFacts
<1>3. Top.line = <<>> /\ <<>> \in Lines
    BY <1>1, <1>2, EmptySeq DEF Count, Lines
<1>4. v \in Int /\ v \in Scores(Top.ply)
    BY <1>2, ScoreOwn, Numbers DEF mate_in
<1>5. StoresScore
    BY <1>1, <1>2, Numbers DEF tt_store, StoresScore, mate_in
<1>6. Settled
    BY <1>1, <1>5, Settles
<1> HIDE DEF v
<1>7. QED BY <1>1, <1>3, <1>4, <1>6, QuietReturn DEF DeepPcs

\* The evaluation, which may already reach beta.
LEMMA StandPatKeeps ==
    ASSUME IInv, StandPat
    PROVE  IInv'
<1>1. /\ frames # <<>> /\ Top.fn = "qsearch" /\ Top.pc = "stand"
      /\ NoMove /\ UNCHANGED <<cells, nmpMinPly, stopped>>
    BY DEF StandPat, Running
<1>2. /\ Top \in Frame /\ Kind(Top) /\ Window(Top) /\ Count(Top) /\ Score(Top)
      /\ Top.ply \in 0..MaxPly
    BY <1>1, TopFacts
<1>3. /\ Top.line = <<>> /\ <<>> \in Lines /\ Top.n = 0 /\ Top.ply < MaxPly
      /\ Top.alpha \in Int /\ Top.beta \in Int /\ Top.tt \in Answers
      /\ -VALUE_INFINITE <= Top.alpha /\ Top.alpha < Top.beta
    BY <1>1, <1>2, EmptySeq, FrameFields DEF Count, Kind, Window, Lines
<1>4. PICK static \in Evals :
        LET tt == Top.tt
            stand == IF /\ tt.value # VALUE_NONE /\ ~is_decisive(tt.value)
                        /\ bound_matches(tt.bound, tt.value > static)
                     THEN tt.value ELSE static
            high == Trunc(stand + Top.beta, 2)
        IN IF stand >= Top.beta
           THEN /\ Return(high, <<>>)
                /\ IF tt.hit THEN NoTTStore ELSE tt_store(value_to_tt(high, Top.ply), 2, FALSE)
           ELSE /\ Goto([Top EXCEPT !.pc = "next", !.tt = Miss, !.best = stand,
                            !.alpha = Larger(Top.alpha, stand)])
                /\ NoTTStore
    BY DEF StandPat
<1> DEFINE stand == IF /\ Top.tt.value # VALUE_NONE /\ ~is_decisive(Top.tt.value)
                       /\ bound_matches(Top.tt.bound, Top.tt.value > static)
                    THEN Top.tt.value ELSE static
           high == Trunc(stand + Top.beta, 2)
           alpha == Larger(Top.alpha, stand)
           f == [Top EXCEPT !.pc = "next", !.tt = Miss, !.best = stand, !.alpha = alpha]
<1>5. /\ stand \in Int /\ ~is_decisive(stand) /\ stand \in Scores(Top.ply)
      /\ stand # -VALUE_INFINITE
    <2>1. static \in Int /\ ~is_decisive(static) /\ Top.tt.value \in Int
        BY <1>2, <1>3, EvalsAreScores DEF Answers
    <2>2. stand \in Int /\ ~is_decisive(stand)
        BY <2>1
    <2> HIDE DEF stand
    <2>3. stand \in Scores(Top.ply)
        BY <1>2, <2>2, ScoreOwn
    <2>4. QED BY <1>2, <2>2, <2>3, ScoreNumber, Numbers DEF VALUE_INFINITE
<1>6. \/ /\ stand >= Top.beta /\ Return(high, <<>>)
         /\ NoTTStore \/ tt_store(value_to_tt(high, Top.ply), 2, FALSE)
      \/ ~(stand >= Top.beta) /\ Goto(f) /\ NoTTStore
    BY <1>4
<1> HIDE DEF stand
<1>7. CASE /\ stand >= Top.beta /\ Return(high, <<>>)
           /\ NoTTStore \/ tt_store(value_to_tt(high, Top.ply), 2, FALSE)
    <2>1. Top.beta <= stand /\ -VALUE_INFINITE <= Top.beta
        BY <1>3, <1>5, <1>7, Numbers DEF VALUE_INFINITE
    <2>2. high \in Scores(Top.ply)
        BY <1>2, <1>3, <1>5, <2>1, AverageIsScore
    <2> HIDE DEF high
    <2>3. high \in Int
        BY <1>2, <2>2, ScoreNumber
    <2>4. StoresScore
        <3>1. CASE NoTTStore
            BY <3>1, NothingStored
        <3>2. CASE tt_store(value_to_tt(high, Top.ply), 2, FALSE)
            BY <1>2, <2>2, <3>2, StoredScore DEF tt_store, StoresScore
        <3>3. QED BY <1>7, <3>1, <3>2
    <2>5. Settled
        BY <1>1, <2>4, Settles
    <2>6. QED BY <1>1, <1>3, <1>7, <2>2, <2>3, <2>5, QuietReturn DEF DeepPcs
<1>8. CASE ~(stand >= Top.beta) /\ Goto(f) /\ NoTTStore
    <2>1. alpha \in Int /\ Top.alpha <= alpha /\ alpha < Top.beta
        BY <1>3, <1>5, <1>8 DEF Larger
    <2>2. Miss \in Answers /\ Miss.value = VALUE_NONE
        BY Numbers DEF Miss, Answers, VALUE_NONE
    <2> HIDE DEF alpha
    <2>3. f \in Frame
        BY <1>2, <1>5, <2>1, <2>2 DEF Frame, QSearchPcs
    <2>4. /\ f.pc = "next" /\ f.fn = Top.fn /\ f.ply = Top.ply /\ f.root = Top.root
          /\ f.pv = Top.pv /\ f.cut = Top.cut /\ f.alpha = alpha /\ f.beta = Top.beta
          /\ f.n = Top.n /\ f.best = stand /\ f.line = Top.line /\ f.tt = Miss
        BY <1>2 DEF Frame
    <2>5. Goto(f)
        BY <1>8
    <2> HIDE DEF f
    <2>6. Count(f) /\ Score(f)
        BY <1>1, <1>3, <1>5, <2>2, <2>4 DEF Count, Score
    <2>7. SameNode(f)
        BY <1>1, <1>3, <2>1, <2>3, <2>4, <2>6, AtQuiescence DEF QSearchPcs
    <2>8. Settled
        BY <1>1, <1>8, Settles, NothingStored
    <2>9. QED BY <1>1, <2>4, <2>5, <2>7, <2>8, QuietGoto DEF DeepPcs, CallPcs
<1>9. QED BY <1>6, <1>7, <1>8

\* The node's value: mated, or the best of its moves, softened, stored and returned.
LEMMA QTailKeeps ==
    ASSUME IInv, QTail
    PROVE  IInv'
<1> DEFINE best == IF ~is_decisive(Top.best) /\ Top.best > Top.beta
                   THEN Trunc(Top.best + Top.beta, 2) ELSE Top.best
           bound == IF best >= Top.beta THEN 2 ELSE 1
<1>1. /\ frames # <<>> /\ Top.fn = "qsearch" /\ Top.pc \in {"tail", "next"}
      /\ NoMove /\ UNCHANGED <<cells, nmpMinPly, stopped>>
      /\ \/ Top.check /\ Top.n = 0 /\ Return(mated_in(Top.ply), <<>>) /\ NoTTStore
         \/ /\ ~(Top.check /\ Top.n = 0) /\ Return(best, Top.line)
            /\ tt_store(value_to_tt(best, Top.ply), bound, Top.n > 0)
    BY DEF QTail, Running
<1>2. /\ Top \in Frame /\ Kind(Top) /\ Window(Top) /\ Count(Top) /\ Score(Top)
      /\ Top.ply \in 0..MaxPly
    BY <1>1, TopFacts
<1>3. /\ Top.best \in Int /\ Top.beta \in Int /\ Top.alpha \in Int /\ Top.line \in Lines
      /\ <<>> \in Lines /\ Top.n \in Nat /\ Top.check \in BOOLEAN
    BY <1>2, FrameFields, EmptySeq DEF Lines
<1>4. CASE Top.check /\ Top.n = 0 /\ Return(mated_in(Top.ply), <<>>) /\ NoTTStore
    <2>1. Top.line = <<>>
        BY <1>1, <1>2, <1>4 DEF Count
    <2>2. mated_in(Top.ply) \in Int /\ mated_in(Top.ply) \in OwnScores(Top.ply)
        BY <1>2, Numbers DEF OwnScores, mated_in, mate_in
    <2>3. mated_in(Top.ply) \in Scores(Top.ply)
        BY <1>2, <2>2, ScoreOwn
    <2>4. Settled
        BY <1>1, <1>4, Settles, NothingStored
    <2>5. QED BY <1>1, <1>3, <1>4, <2>1, <2>2, <2>3, <2>4, QuietReturn DEF DeepPcs
<1>5. CASE /\ ~(Top.check /\ Top.n = 0) /\ Return(best, Top.line)
           /\ tt_store(value_to_tt(best, Top.ply), bound, Top.n > 0)
    <2>1. Top.best \in Scores(Top.ply)
        BY <1>1, <1>2, <1>5 DEF Count, Score
    <2>2. best \in Scores(Top.ply)
        <3>1. CASE ~is_decisive(Top.best) /\ Top.best > Top.beta
            <4>1. Top.beta <= Top.best /\ -VALUE_INFINITE <= Top.beta
                BY <1>2, <1>3, <3>1, Numbers DEF Window, VALUE_INFINITE
            <4>2. Trunc(Top.best + Top.beta, 2) \in Scores(Top.ply)
                BY <1>2, <1>3, <3>1, <4>1, AverageIsScore
            <4>3. QED BY <3>1, <4>2
        <3>2. QED BY <2>1, <3>1
    <2> HIDE DEF best, bound
    <2>3. best \in Int
        BY <1>2, <2>2, ScoreNumber
    <2>4. StoresScore
        BY <1>2, <1>5, <2>2, StoredScore DEF tt_store, StoresScore
    <2>5. Settled
        BY <1>1, <2>4, Settles
    <2>6. QED BY <1>1, <1>3, <1>5, <2>2, <2>3, <2>5, QuietReturn DEF DeepPcs
<1>6. QED BY <1>1, <1>4, <1>5

\* The next capture or evasion: pruned while nothing is lost, or searched.
LEMMA QNextMoveKeeps ==
    ASSUME IInv, QNextMove
    PROVE  IInv'
<1>1. /\ frames # <<>> /\ Top.fn = "qsearch" /\ Top.pc = "next"
      /\ NoTTStore /\ UNCHANGED <<cells, nmpMinPly, stopped>>
    BY DEF QNextMove, Running
<1>2. /\ Top \in Frame /\ Kind(Top) /\ Window(Top) /\ Count(Top) /\ Score(Top)
      /\ Top.ply \in 0..MaxPly /\ cells \in CellType /\ HoldsLine(Top, cells, stopped)
    BY <1>1, TopFacts
<1>3. /\ Top.n \in Nat /\ Top.mv \in Nat /\ Top.n + 1 \in Nat /\ Top.ply < MaxPly
      /\ Top.alpha \in Int /\ Top.beta \in Int /\ Top.best \in Int /\ Top.pv \in BOOLEAN
      /\ -VALUE_INFINITE <= Top.alpha /\ Top.alpha < Top.beta /\ Top.beta <= VALUE_INFINITE
      /\ Top.pv \/ Top.alpha = Top.beta - 1
    BY <1>1, <1>2, FrameFields DEF Kind, Window
<1>4. PICK m \in (Top.mv + 1)..Moves :
        LET f == [Top EXCEPT !.mv = m, !.n = Top.n + 1]
        IN \/ /\ ~is_loss(f.best)
              /\ \E v \in {f.best} \cup (IF f.check THEN {}
                                         ELSE {e \in Evals : f.best < e /\ e <= f.alpha}) :
                    Goto([f EXCEPT !.best = v])
              /\ NoMove
           \/ /\ DoMove(m)
              /\ Call([f EXCEPT !.pc = "child"],
                      QNode(f.ply + 1, -f.beta, -f.alpha, f.pv))
    BY DEF QNextMove
<1>5. m \in Nat \ {0}
    BY <1>3, SearchAssumption
<1> DEFINE f == [Top EXCEPT !.mv = m, !.n = Top.n + 1]
<1>6. f \in Frame
    BY <1>2, <1>3, <1>5 DEF Frame
<1>7. /\ f.pc = "next" /\ f.fn = "qsearch" /\ f.ply = Top.ply /\ f.root = Top.root
      /\ f.pv = Top.pv /\ f.cut = Top.cut /\ f.alpha = Top.alpha /\ f.beta = Top.beta
      /\ f.n = Top.n + 1 /\ f.best = Top.best /\ f.line = Top.line /\ f.tt = Top.tt
      /\ f.mv = m /\ f.check = Top.check
    BY <1>1, <1>2 DEF Frame
<1>8. \/ /\ ~is_loss(Top.best) /\ NoMove
         /\ \E v \in {Top.best} \cup {e \in Evals : Top.best < e} : Goto([f EXCEPT !.best = v])
      \/ DoMove(m) /\ Call([f EXCEPT !.pc = "child"],
                           QNode(Top.ply + 1, -Top.beta, -Top.alpha, Top.pv))
    BY <1>4, <1>7
<1> HIDE DEF f
<1>9. ASSUME ~is_loss(Top.best), NoMove, NEW v \in {Top.best} \cup Evals,
             Goto([f EXCEPT !.best = v])
      PROVE  IInv'
    <2> DEFINE h == [f EXCEPT !.best = v]
    <2>1. Top.best # -VALUE_INFINITE
        BY <1>3, <1>9, Numbers DEF is_loss, TBWin, VALUE_INFINITE
    <2>2. v \in Int /\ v # -VALUE_INFINITE /\ v \in Scores(Top.ply)
        BY <1>2, <1>3, <2>1, EvalsAreScores DEF Score
    <2>3. h \in Frame
        BY <1>6, <2>2 DEF Frame
    <2>4. /\ h.pc = "next" /\ h.fn = "qsearch" /\ h.ply = Top.ply /\ h.root = Top.root
          /\ h.pv = Top.pv /\ h.cut = Top.cut /\ h.alpha = Top.alpha /\ h.beta = Top.beta
          /\ h.n = Top.n + 1 /\ h.best = v /\ h.line = Top.line /\ h.tt = Top.tt
        BY <1>6, <1>7 DEF Frame
    <2> HIDE DEF h
    <2>5. Count(h) /\ Score(h)
        BY <1>2, <1>3, <2>2, <2>4 DEF Count, Score
    <2>6. SameNode(h)
        BY <1>1, <1>3, <2>3, <2>4, <2>5, AtQuiescence DEF QSearchPcs
    <2>7. Settled
        BY <1>1, <1>9, Settles, NothingStored
    <2>8. Goto(h)
        BY <1>9 DEF h
    <2>9. QED BY <1>1, <2>4, <2>6, <2>7, <2>8, QuietGoto DEF DeepPcs, CallPcs
<1>10. CASE DoMove(m) /\ Call([f EXCEPT !.pc = "child"],
                              QNode(Top.ply + 1, -Top.beta, -Top.alpha, Top.pv))
    <2> DEFINE h == [f EXCEPT !.pc = "child"]
               g == QNode(Top.ply + 1, -Top.beta, -Top.alpha, Top.pv)
    <2>1. h \in Frame
        BY <1>6 DEF Frame, QSearchPcs
    <2>2. /\ h.pc = "child" /\ h.fn = "qsearch" /\ h.ply = Top.ply /\ h.root = Top.root
          /\ h.pv = Top.pv /\ h.cut = Top.cut /\ h.alpha = Top.alpha /\ h.beta = Top.beta
          /\ h.n = Top.n + 1 /\ h.best = Top.best /\ h.line = Top.line /\ h.tt = Top.tt
          /\ h.mv = m /\ h.check = Top.check
        BY <1>6, <1>7 DEF Frame
    <2>3. /\ Top.ply + 1 \in 0..MaxPly /\ -Top.beta \in Int /\ -Top.alpha \in Int
          /\ -VALUE_INFINITE <= -Top.beta /\ -Top.beta < -Top.alpha
          /\ -Top.alpha <= VALUE_INFINITE /\ (Top.pv \/ -Top.beta = -Top.alpha - 1)
        BY <1>2, <1>3, Numbers DEF VALUE_INFINITE
    <2>4. /\ g \in Frame /\ Local(g) /\ g.ply = Top.ply + 1 /\ g.pv = Top.pv /\ ~g.root
          /\ g.fn = "qsearch" /\ g.pc = "enter"
        <3>1. ASSUME NEW a \in Int, NEW b \in Int, NEW p \in BOOLEAN,
                     a = -Top.beta, b = -Top.alpha, p = Top.pv
              PROVE  LET q == QNode(Top.ply + 1, a, b, p)
                     IN  /\ q \in Frame /\ Local(q) /\ q.ply = Top.ply + 1 /\ q.pv = p
                         /\ ~q.root /\ q.fn = "qsearch" /\ q.pc = "enter"
            <4>1. /\ Top.ply + 1 \in 0..MaxPly /\ -VALUE_INFINITE <= a /\ a < b
                  /\ b <= VALUE_INFINITE /\ (p \/ a = b - 1)
                BY <1>3, <2>3, <3>1
            <4>2. QED BY <4>1, FreshQuiescence
        <3>2. Top.pv \in BOOLEAN /\ -Top.beta \in Int /\ -Top.alpha \in Int
            BY <1>3, <2>3
        <3>3. QED BY <3>1, <3>2, Zenon
    <2>5. Call(h, g)
        BY <1>10
    <2> HIDE DEF h, g
    <2>6. Count(h) /\ Score(h)
        BY <1>1, <1>2, <1>3, <1>5, <2>2 DEF Count, Score
    <2>7. SameNode(h)
        BY <1>1, <1>3, <2>1, <2>2, <2>6, AtQuiescence DEF QSearchPcs
    <2>8. Link(h, g)
        BY <2>2, <2>4 DEF Link, CallPcs, Bump, DeepPcs
    <2>9. stored'.bound = 0 /\ Advances /\ cells' = cells /\ stopped' = stopped
        BY <1>1, NothingStored, AdvancesStill
    <2>10. HoldsLine(h, cells', stopped') /\ HoldsLine(g, cells', stopped')
        BY <1>1, <1>2, <2>2, <2>4, <2>9 DEF HoldsLine
    <2>11. LinesMove
        BY <1>2, <2>9 DEF LinesMove
    <2>12. ExclusionMoves(h.pc)
        BY <1>1, <1>2, <2>2, ExclusionStays
    <2>13. BoardMoves(h)
        BY <1>1, <1>5, <1>10, <2>2 DEF DoMove, BoardMoves, BoardGrows, Bump, DeepPcs, Made
    <2>14. h.pc # "verify"
        BY <2>2
    <2>15. QED BY <1>1, <2>4, <2>5, <2>7, <2>8, <2>9, <2>10, <2>11, <2>12, <2>13, <2>14, CallKeeps
<1>11. QED BY <1>8, <1>9, <1>10

\* The fields the value of a child changes.
LEMMA RaisedFrame ==
    ASSUME NEW f \in Frame, NEW pc \in QSearchPcs, NEW b \in Int, NEW m \in Nat, NEW l \in Lines,
           NEW a \in Int
    PROVE  [f EXCEPT !.pc = pc, !.best = b, !.bestMove = m, !.line = l, !.alpha = a] \in Frame
BY Zenon DEF Frame

\* A child's value is back: nothing of it after a stop, else a better value, a
\* better line, or the cutoff.
LEMMA QAfterChildKeeps ==
    ASSUME IInv, QAfterChild
    PROVE  IInv'
<1> DEFINE v == -ret.value
           better == v > Top.best
           raises == better /\ v > Top.alpha
           pc == IF raises /\ v >= Top.beta THEN "tail" ELSE "next"
           best == IF better THEN v ELSE Top.best
           bestMove == IF raises THEN Top.mv ELSE Top.bestMove
           line == IF raises /\ Top.pv THEN <<Top.mv>> \o ret.line ELSE Top.line
           alpha == IF raises /\ v < Top.beta THEN v ELSE Top.alpha
           f == [Top EXCEPT !.pc = pc, !.best = best, !.bestMove = bestMove, !.line = line,
                            !.alpha = alpha]
<1>1. /\ frames # <<>> /\ ret # NoReturn /\ Top.fn = "qsearch" /\ Top.pc = "child" /\ UndoMove
      /\ NoTTStore /\ UNCHANGED <<nmpMinPly, stopped>>
      /\ \/ stopped /\ Return(Top.best, <<>>) /\ cells' = cells
         \/ /\ ~stopped /\ Goto(f)
            /\ cells' = IF raises /\ Top.pv THEN update_pv(cells, Top.ply, Top.mv) ELSE cells
    BY DEF QAfterChild, Returned
<1>2. /\ Top \in Frame /\ Kind(Top) /\ Window(Top) /\ Count(Top) /\ Score(Top)
      /\ Top.ply \in 0..MaxPly /\ cells \in CellType /\ HoldsLine(Top, cells, stopped)
      /\ Top.ply \in 0..(MaxPly + 2) /\ Top.ply + 1 \in 0..(MaxPly + 2)
    BY <1>1, TopFacts
<1>3. /\ Top.n \in Nat /\ Top.n > 0 /\ Top.mv \in Nat \ {0} /\ Top.ply < MaxPly
      /\ Top.alpha \in Int /\ Top.beta \in Int /\ Top.best \in Int /\ Top.pv \in BOOLEAN
      /\ Top.line \in Lines /\ Top.bestMove \in Nat /\ Top.alpha < Top.beta
      /\ ~Top.root
    <2>1. Top.bestMove \in Nat
        BY <1>2 DEF Frame
    <2>2. Top.root => Top.fn = "search"
        BY <1>2 DEF Kind
    <2>3. QED BY <1>1, <1>2, <2>1, <2>2, FrameFields DEF Kind, Window, Count
<1>4. StoresScore /\ Advances /\ stopped' = stopped
    BY <1>1, NothingStored, AdvancesStill
<1>5. \A h : h.pc \notin DeepPcs => BoardMoves(h)
    <2>1. Top.pc \in DeepPcs /\ Made(Top) # 0
        BY <1>1, <1>3 DEF DeepPcs, Made
    <2>2. QED BY <1>1, <2>1, TakenBack DEF UndoMove
<1>6. CASE stopped /\ Return(Top.best, <<>>) /\ cells' = cells
    <2>1. Calm
        BY <1>1, <1>4, <1>6, Calms
    <2>2. BoardMoves(Gone)
        BY <1>1, <1>5, GoneBump DEF DeepPcs
    <2>3. <<>> \in Lines
        BY EmptySeq DEF Lines
    <2>4. QED BY <1>1, <1>3, <1>4, <1>6, <2>1, <2>2, <2>3, PlainReturn
<1>7. CASE /\ ~stopped /\ Goto(f)
           /\ cells' = IF raises /\ Top.pv THEN update_pv(cells, Top.ply, Top.mv) ELSE cells
    <2>1. /\ v \in Int /\ v \in Scores(Top.ply) /\ v # -VALUE_INFINITE /\ v > -VALUE_INFINITE
        BY <1>1, <1>2, <1>7, ChildScore, ScoreNumber
    <2>2. ret.line \in Lines /\ (Top.pv => cells[Top.ply + 1].pv = ret.line)
        BY <1>1, <1>7, RetFacts
    <2>3. <<Top.mv>> \o ret.line \in Lines
        <3>1. <<Top.mv>> \in Lines
            BY <1>3 DEF Lines
        <3>2. QED BY <2>2, <3>1, ConcatProperties DEF Lines
    <2> HIDE DEF v
    <2>4. /\ best \in Int /\ best # -VALUE_INFINITE /\ best \in Scores(Top.ply)
        <3>1. CASE better
            BY <2>1, <3>1
        <3>2. CASE ~better
            <4>1. Top.best # -VALUE_INFINITE
                BY <1>3, <2>1, <3>2
            <4>2. QED BY <1>2, <1>3, <3>2, <4>1 DEF Score
        <3>3. QED BY <3>1, <3>2
    <2>5. /\ alpha \in Int /\ Top.alpha <= alpha /\ alpha < Top.beta
        BY <1>3, <2>1
    <2>6. line \in Lines /\ bestMove \in Nat /\ pc \in QSearchPcs /\ pc \in {"tail", "next"}
        BY <1>3, <2>3 DEF QSearchPcs
    <2>7. /\ cells' \in CellType
          /\ \A p \in 0..(MaxPly + 2) :
                /\ cells'[p].excluded = cells[p].excluded
                /\ ~Top.pv \/ p # Top.ply => cells'[p].pv = cells[p].pv
          /\ Top.pv => cells'[Top.ply].pv = line
        <3>1. CASE raises /\ Top.pv
            <4> DEFINE u == update_pv(cells, Top.ply, Top.mv)
            <4>1. /\ u \in CellType /\ u[Top.ply].pv = <<Top.mv>> \o cells[Top.ply + 1].pv
                  /\ \A p \in 0..(MaxPly + 2) :
                        /\ u[p].excluded = cells[p].excluded
                        /\ p # Top.ply => u[p].pv = cells[p].pv
                BY <1>2, <1>3, LineUpdated
            <4>2. cells' = u /\ line = <<Top.mv>> \o ret.line
                BY <1>7, <3>1
            <4> HIDE DEF line, raises, u
            <4>3. QED BY <2>2, <3>1, <4>1, <4>2
        <3>2. CASE ~(raises /\ Top.pv)
            <4>1. cells' = cells /\ line = Top.line
                BY <1>7, <3>2
            <4> HIDE DEF line, raises
            <4>2. QED BY <1>1, <1>2, <1>3, <4>1 DEF HoldsLine
        <3>3. QED BY <3>1, <3>2
    <2> HIDE DEF better, raises, pc, best, bestMove, line, alpha
    <2>8. f \in Frame
        BY <1>2, <2>4, <2>5, <2>6, RaisedFrame
    <2>9. /\ f.pc = pc /\ f.fn = Top.fn /\ f.ply = Top.ply /\ f.root = Top.root
          /\ f.pv = Top.pv /\ f.cut = Top.cut /\ f.alpha = alpha /\ f.beta = Top.beta
          /\ f.n = Top.n /\ f.best = best /\ f.line = line /\ f.tt = Top.tt
          /\ f.check = Top.check
        BY <1>2 DEF Frame
    <2>10. Goto(f)
        BY <1>7
    <2> HIDE DEF f
    <2>11. Count(f) /\ Score(f)
        BY <1>1, <1>2, <1>3, <2>4, <2>6, <2>9 DEF Count, Score
    <2>12. SameNode(f)
        BY <1>1, <1>3, <2>5, <2>6, <2>8, <2>9, <2>11, AtQuiescence
    <2>13. HoldsLine(f, cells', stopped')
        BY <2>6, <2>7, <2>9 DEF HoldsLine
    <2>14. LinesMove
        BY <2>7 DEF LinesMove
    <2>15. ExclusionMoves(f.pc)
        BY <1>1, <2>6, <2>7, <2>9, ExclusionStays
    <2>16. BoardMoves(f)
        BY <1>5, <2>6, <2>9 DEF DeepPcs
    <2>17. f.pc \notin CallPcs /\ f.pc # "fold"
        BY <2>6, <2>9 DEF CallPcs
    <2>18. QED BY <1>1, <1>4, <2>10, <2>12, <2>13, <2>14, <2>15, <2>16, <2>17, GotoKeeps
<1>8. QED BY <1>1, <1>6, <1>7
-----------------------------------------------------------------------------
(* The invariant. *)

\* The call of the root at the head of an iteration.
RootNode(alpha, beta, depth, cut, pv, root) ==
    [Node(0, alpha, beta, depth, cut, pv) EXCEPT !.root = root]

\* It is well formed when the aspiration window is.
LEMMA FreshRoot ==
    ASSUME NEW alpha \in Int, NEW beta \in Int, NEW depth \in Nat \ {0},
           NEW cut \in BOOLEAN, NEW pv \in BOOLEAN, NEW root \in BOOLEAN, ~cut, pv, root,
           -VALUE_INFINITE <= alpha, alpha < beta, beta <= VALUE_INFINITE, beta > -Mate
    PROVE  LET f == RootNode(alpha, beta, depth, cut, pv, root)
           IN  /\ f \in Frame /\ Local(f) /\ f.root /\ f.ply = 0 /\ f.pc = "enter"
<1> DEFINE g == Node(0, alpha, beta, depth, cut, pv)
           f == RootNode(alpha, beta, depth, cut, pv, root)
<1>1. g \in Frame
    <2>1. 0 \in 0..MaxPly /\ depth \in Int
        BY Numbers
    <2>2. QED BY <2>1, NodeFrame
<1>2. /\ g.fn = "search" /\ g.pc = "enter" /\ g.ply = 0 /\ g.pv = pv /\ g.cut = cut
      /\ g.alpha = alpha /\ g.beta = beta /\ g.depth = depth /\ g.n = 0
      /\ g.best = -VALUE_INFINITE /\ g.line = <<>> /\ g.tt = Miss
    BY DEF Node
<1>3. f = [g EXCEPT !.root = root]
    BY DEF RootNode
<1> HIDE DEF g, f
<1>4. f \in Frame
    BY <1>1, <1>3 DEF Frame
<1>5. /\ f.fn = "search" /\ f.pc = "enter" /\ f.ply = 0 /\ f.pv /\ ~f.cut /\ f.root
      /\ f.alpha = alpha /\ f.beta = beta /\ f.depth = depth /\ f.n = 0
      /\ f.best = -VALUE_INFINITE /\ f.line = <<>> /\ f.tt = Miss
    BY <1>1, <1>2, <1>3 DEF Frame
<1>6. Kind(f)
    BY <1>5 DEF Kind, SearchPcs
<1>7. Window(f)
    BY <1>5 DEF Window, MovePcs
<1>8. Count(f)
    BY <1>5 DEF Count, BeforePcs, MovePcs
<1>9. Score(f)
    BY <1>5 DEF Score, Miss
<1>10. QED BY <1>4, <1>5, <1>6, <1>7, <1>8, <1>9 DEF Local, f

\* It holds at the head of every iteration.
LEMMA InitHolds ==
    ASSUME Init
    PROVE  IInv
<1>1. /\ ret = NoReturn /\ board = <<>> /\ accDepth = 0
      /\ cells = [ply \in 0..(MaxPly + 2) |-> [excluded |-> 0, pv |-> <<>>]]
      /\ nmpMinPly = 0 /\ stopped = FALSE /\ stored.bound = 0
    BY DEF Init, NoStore
<1>2. PICK w \in Windows, depth \in 1..RootDepth :
        frames = <<RootNode(w[1], w[2], depth, FALSE, TRUE, TRUE)>>
    BY Zenon DEF Init, RootNode
<1> DEFINE f == RootNode(w[1], w[2], depth, FALSE, TRUE, TRUE)
<1>3. f \in Frame /\ Local(f) /\ f.root /\ f.ply = 0 /\ f.pc = "enter"
    <2>1. /\ w[1] \in Int /\ w[2] \in Int /\ depth \in Nat \ {0} /\ -VALUE_INFINITE <= w[1]
          /\ w[1] < w[2] /\ w[2] <= VALUE_INFINITE /\ w[2] > -Mate
        BY <1>2, WindowsAssumption, SearchAssumption DEF VALUE_INFINITE
    <2>2. ASSUME NEW cut \in BOOLEAN, NEW pv \in BOOLEAN, NEW root \in BOOLEAN, ~cut, pv, root
          PROVE  LET r == RootNode(w[1], w[2], depth, cut, pv, root)
                 IN  r \in Frame /\ Local(r) /\ r.root /\ r.ply = 0 /\ r.pc = "enter"
        <3>1. ASSUME NEW a \in Int, NEW b \in Int, a = w[1], b = w[2]
              PROVE  LET r == RootNode(a, b, depth, cut, pv, root)
                     IN  r \in Frame /\ Local(r) /\ r.root /\ r.ply = 0 /\ r.pc = "enter"
            <4>1. /\ depth \in Nat \ {0} /\ -VALUE_INFINITE <= a /\ a < b
                  /\ b <= VALUE_INFINITE /\ b > -Mate
                BY <2>1, <3>1
            <4>2. ~cut /\ pv /\ root
                BY <2>2
            <4>3. QED BY <4>1, <4>2, FreshRoot
        <3>2. QED BY <2>1, <3>1, Zenon
    <2>3. FALSE \in BOOLEAN /\ TRUE \in BOOLEAN
        OBVIOUS
    <2>4. QED BY <2>2, <2>3, Zenon
<1>3a. frames = <<f>>
    BY <1>2
<1> HIDE DEF f
<1>4. /\ frames = <<f>> /\ frames # <<>> /\ Len(frames) = 1 /\ frames[1] = f /\ Top = f
      /\ frames \in Seq(Frame)
    BY <1>3, <1>3a DEF Top
<1>5. Bump(f) = 0 /\ Waiting = {}
    BY <1>3, <1>4 DEF Bump, DeepPcs, Waiting
<1>6. Stack
    BY <1>3, <1>4 DEF Stack
<1>7. Control
    <2>1. Top.pc \notin CallPcs
        BY <1>3, <1>4 DEF CallPcs
    <2>2. ret = NoReturn
        BY <1>1
    <2>3. stopped \in BOOLEAN /\ nmpMinPly \in Int
        <3>1. stopped = FALSE /\ nmpMinPly = 0
            BY <1>1
        <3>2. stopped \in BOOLEAN
            BY <3>1, Zenon
        <3>3. QED BY <3>1, <3>2
    <2>4. QED BY <1>4, <2>1, <2>2, <2>3 DEF Control
<1>8. Values
    BY <1>1, <1>3, <1>4 DEF Values
<1>9. CellLines
    <2>1. cells \in CellType
        BY <1>1, EmptySeq DEF CellType, Lines
    <2>2. HoldsLine(f, cells, stopped)
        BY <1>3 DEF HoldsLine
    <2>3. ret = NoReturn
        BY <1>1
    <2>4. QED BY <1>4, <2>1, <2>2, <2>3 DEF CellLines
<1>10. Exclusion
    BY <1>1, <1>3, <1>4 DEF Exclusion
<1>11. Board
    <2>1. board \in Seq(Nat) /\ Len(board) = 0
        BY <1>1, EmptySeq
    <2>2. {k \in 1..Len(board) : board[k] # 0} = {}
        BY <2>1
    <2>3. QED BY <1>1, <1>3, <1>4, <1>5, <2>1, <2>2, FS_EmptySet DEF Board
<1>12. MateRange
    BY <1>1 DEF MateRange
<1>13. QED BY <1>6, <1>7, <1>8, <1>9, <1>10, <1>11, <1>12 DEF IInv, Core

\* A step that changes nothing keeps it.
LEMMA StutterKeeps ==
    ASSUME IInv, UNCHANGED vars
    PROVE  IInv'
<1>1. /\ frames' = frames /\ ret' = ret /\ board' = board /\ accDepth' = accDepth
      /\ cells' = cells /\ nmpMinPly' = nmpMinPly /\ stopped' = stopped /\ stored' = stored
    BY DEF vars
<1>2. Top' = Top /\ Waiting' = Waiting
    BY <1>1 DEF Top, Waiting
<1>3. ReturnPly' = ReturnPly
    BY <1>1, <1>2 DEF ReturnPly
<1>4. StoringPly' = StoringPly
    BY <1>1, <1>2, <1>3 DEF StoringPly
<1>5. Stack'
    BY <1>1 DEF IInv, Core, Stack
<1>6. Control'
    BY <1>1, <1>2 DEF IInv, Core, Control
<1>7. Values'
    BY <1>1, <1>3 DEF IInv, Core, Values
<1>8. CellLines'
    BY <1>1, <1>2 DEF IInv, Core, CellLines
<1>9. Exclusion'
    BY <1>1 DEF IInv, Core, Exclusion
<1>10. Board'
    BY <1>1, <1>2 DEF IInv, Core, Board
<1>11. MateRange'
    BY <1>1, <1>3, <1>4 DEF IInv, MateRange
<1>12. QED BY <1>5, <1>6, <1>7, <1>8, <1>9, <1>10, <1>11 DEF IInv, Core

\* Every step keeps it.
LEMMA NextHolds ==
    ASSUME IInv, [Next]_vars
    PROVE  IInv'
<1>1. CASE Dive \/ Enter \/ Probe \/ Evaluate \/ AfterNull \/ AfterVerify
    BY <1>1, DiveKeeps, EnterKeeps, ProbeKeeps, EvaluateKeeps, AfterNullKeeps, AfterVerifyKeeps
<1>2. CASE ProbCut \/ AfterProbCut \/ SmallProbCut \/ NextMove \/ Singular \/ AfterSingular
    BY <1>2, ProbCutKeeps, AfterProbCutKeeps, SmallProbCutKeeps, NextMoveKeeps, SingularKeeps,
       AfterSingularKeeps
<1>3. CASE MakeMove \/ AfterReduced \/ AfterZero \/ AfterPv \/ Fold \/ LoopEnd \/ Finish
    BY <1>3, MakeMoveKeeps, AfterReducedKeeps, AfterZeroKeeps, AfterPvKeeps, FoldKeeps,
       LoopEndKeeps, FinishKeeps
<1>4. CASE QEnter \/ QProbe \/ QMate \/ StandPat \/ QNextMove \/ QAfterChild \/ QTail
    BY <1>4, QEnterKeeps, QProbeKeeps, QMateKeeps, StandPatKeeps, QNextMoveKeeps,
       QAfterChildKeeps, QTailKeeps
<1>5. CASE UNCHANGED vars
    BY <1>5, StutterKeeps
<1>6. QED BY <1>1, <1>2, <1>3, <1>4, <1>5 DEF Next

\* The invariant holds in every state of every search of a worker.
THEOREM Inductive == Spec => []IInv
<1>1. Init => IInv
    BY InitHolds
<1>2. IInv /\ [Next]_vars => IInv'
    BY NextHolds
<1>3. QED BY <1>1, <1>2, PTL DEF Spec

\* The stack, the board and the excluded moves, as Unwinds states them.
LEMMA UnwindsHolds ==
    ASSUME IInv
    PROVE  Unwinds
<1>1. Stack /\ Control /\ CellLines /\ Exclusion /\ Board
    BY DEF IInv, Core
<1> DEFINE n == Len(frames)
<1>2. n \in Nat /\ \A i \in 1..n : frames[i] \in Frame /\ frames[i].ply \in 0..MaxPly
    <2>1. frames \in Seq(Frame)
        BY <1>1 DEF Stack
    <2>2. \A i \in 1..n : frames[i] \in Frame
        BY <2>1
    <2>3. QED BY <2>1, <2>2, FrameFields
<1>3. frames # <<>> => n \in 1..n /\ Top = frames[n] /\ Len(board) = Top.ply + Bump(Top)
    BY <1>1, TopIsLast DEF Board
<1>4. frames = <<>> => n = 0
    OBVIOUS
<1>5. \A i \in Waiting : i \in 1..n /\ frames[i].pc \in DeepPcs /\ Bump(frames[i]) = 1
    BY DEF Waiting, Bump
<1>6. \A i, j \in 1..n : i < j => frames[i].ply + Bump(frames[i]) <= frames[j].ply
    BY <1>1 DEF Stack
<1>7. BoardFollows
    <2>1. ASSUME NEW i \in Waiting
          PROVE  frames[i].ply < Len(board)
        <3>1. i \in 1..n /\ Bump(frames[i]) = 1 /\ frames # <<>>
            BY <1>4, <1>5
        <3>2. CASE i = n
            BY <1>2, <1>3, <3>1, <3>2
        <3>3. CASE i # n
            <4>1. i < n /\ n \in 1..n
                BY <1>2, <3>1, <3>3
            <4>2. frames[i].ply + 1 <= frames[n].ply
                BY <1>6, <3>1, <4>1
            <4>3. Bump(Top) \in {0, 1}
                BY DEF Bump
            <4>4. QED BY <1>2, <1>3, <3>1, <4>1, <4>2, <4>3
        <3>4. QED BY <3>2, <3>3
    <2>2. ASSUME NEW i \in Waiting, NEW j \in Waiting, i < j
          PROVE  frames[i].ply < frames[j].ply
        BY <1>2, <1>5, <1>6, <2>2
    <2>3. QED BY <1>1, <2>1, <2>2 DEF Board, BoardFollows
<1>8. frames # <<>> /\ ret = NoReturn /\ Top.pc # "fold" => Top.ply = Len(board)
    <2>1. ASSUME frames # <<>>, ret = NoReturn, Top.pc # "fold"
          PROVE  Top.ply = Len(board)
        <3>1. Top.pc \notin CallPcs
            BY <1>1, <2>1 DEF Control
        <3>2. Bump(Top) = 0
            BY <2>1, <3>1 DEF Bump, DeepPcs, CallPcs
        <3>3. QED BY <1>2, <1>3, <2>1, <3>2
    <2>2. QED BY <2>1
<1>9. \A ply \in DOMAIN cells : cells[ply].excluded # 0 <=> ply \in Awaiting("singular")
    <2>1. DOMAIN cells = 0..(MaxPly + 2)
        BY <1>1 DEF CellLines, CellType
    <2>2. QED BY <1>1, <2>1 DEF Exclusion, Awaiting
<1>10. nmpMinPly # 0 => Awaiting("verify") # {}
    BY <1>1 DEF Exclusion, Awaiting
<1>11. accDepth = Cardinality({k \in 1..Len(board) : board[k] # 0})
    BY <1>1 DEF Board
<1>12. QED BY <1>2, <1>7, <1>8, <1>9, <1>10, <1>11 DEF Unwinds

\* Whatever the order of null moves, verification, singular and ProbCut searches,
\* reductions and aborts, position, accumulator and search stack follow the
\* activations exactly (do_move, undo_move, push and pop of qsearch.rs).
THEOREM UnwindsAlways == Spec => []Unwinds
<1>1. IInv => Unwinds
    BY UnwindsHolds
<1>2. QED BY <1>1, Inductive, PTL

\* Every call meets the assertions at the head of search, and every value that is
\* returned or stored before a stop is one its ply can have.
THEOREM WindowsAndValuesAlways == Spec => []WindowsAndValues
<1>1. IInv => WindowsAndValues
    <2>1. IInv => AssertionsHold
        BY DEF IInv, Core, Stack, Local, Window, AssertionsHold
    <2>2. QED BY <2>1 DEF IInv, WindowsAndValues
<1>2. QED BY <1>1, Inductive, PTL

\* The line in a PV node's cell of the shared stack is the one its own searches
\* returned.
THEOREM PvIsTheLineAlways == Spec => []PvIsTheLine
<1>1. IInv => PvIsTheLine
    BY DEF IInv, Core, CellLines, HoldsLine, PvIsTheLine
<1>2. QED BY <1>1, Inductive, PTL
=============================================================================
