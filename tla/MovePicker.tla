----------------------------- MODULE MovePicker -----------------------------
(***************************************************************************)
(* The move picker of attic-search/movepick.rs.  The search asks it for    *)
(* one move at a time; it generates, scores and sorts lazily, as each      *)
(* stage is entered, on one buffer with index boundaries into it.  Between *)
(* two calls the search searches the move it got, which changes the        *)
(* histories the next stage is scored with, and may ask to skip quiets.    *)
(*                                                                         *)
(* Generation and SEE are functions of the position, chosen once; scores   *)
(* are arbitrary at each call.  A scored move is [mv, value].              *)
(***************************************************************************)
EXTENDS Integers, Sequences, SequencesExt

CONSTANTS
    Captures,       \* what the capture generator emits, in order
    Quiets,         \* what the quiet generator emits, in order
    TTMoves,        \* the moves the transposition table may hold
    Illegal,        \* the sets of pseudo-legal moves that may be illegal
    SeeValues,      \* the values an exchange may have
    CaptureScores,  \* the values a capture or an evasion may score
    QuietScores,    \* the values a quiet may score
    Depths          \* the depths of the main search

None == "none"
Moves == ToSet(Captures) \cup ToSet(Quiets)
GoodQuietThreshold == -14000
(* i32::MIN: below every score. *)
NoLimit == -2147483647 - 1

(* Division truncates towards zero. *)
TruncDiv(n, d) == IF n >= 0 THEN n \div d ELSE -((-n) \div d)

(* The generators emit every move once. *)
ASSUME GeneratorsAssumption ==
    /\ Captures \in Seq(Moves) /\ Quiets \in Seq(Moves)
    /\ IsInjective(Captures) /\ IsInjective(Quiets)
    /\ ToSet(Captures) \cap ToSet(Quiets) = {} /\ None \notin Moves
ASSUME ScoresAssumption == CaptureScores \subseteq Int /\ QuietScores \subseteq Int

VARIABLES
    position,   \* the legal moves and the value of the exchange on each
    picker,     \* the picker
    skips,      \* how many moves had come out when quiets were first skipped
    out,        \* the moves that came out, and None at the end
    twin        \* the twin of the tests, and what came out of it

vars == <<position, picker, skips, out, twin>>

See(m, threshold) == position.see[m] >= threshold
IsLegal(m) == m \in position.legal

----------------------------------------------------------------------------
(* partial_insertion_sort: the elements at or above the limit, and the     *)
(* first one, end up sorted in front; each promotion swaps the element in  *)
(* its way into the place it leaves.                                       *)

\* Mutant of PlaceFor: an equal element is overtaken.
PlaceForUnstable(a, last, e) ==
    CHOOSE q \in 1..last :
        /\ \A i \in q..(last - 1) : a[i].value <= e.value
        /\ q > 1 => ~(a[q - 1].value <= e.value)

PlaceFor(a, last, e) ==
    CHOOSE q \in 1..last :
        /\ \A i \in q..(last - 1) : a[i].value < e.value
        /\ q > 1 => ~(a[q - 1].value < e.value)

Promoted(s, p) ==
    LET e    == s.a[p]
        last == s.last + 1
        b    == [s.a EXCEPT ![p] = s.a[last]]
        q    == PlaceFor(b, last, e)
    IN  IF e.value < s.limit THEN s
        ELSE [s EXCEPT !.last = last,
                       !.a = [i \in DOMAIN b |-> IF i = q THEN e
                                                ELSE IF i \in (q + 1)..last THEN b[i - 1]
                                                ELSE b[i]]]
PartialInsertionSort(a, limit) ==
    IF a = <<>> THEN a
    ELSE FoldLeft(Promoted, [last |-> 1, a |-> a, limit |-> limit],
                  [i \in 1..(Len(a) - 1) |-> i + 1]).a

----------------------------------------------------------------------------
(* Construction.  The transposition table's move is taken when it is legal *)
(* here; ProbCut takes a capture only.                                     *)

Kinds == {"Main", "QSearch", "Evasion", "ProbCut"}

\* Mutant of FilterTT: the table's move is not tested for legality.
FilterTTUnchecked(kind, tt, legal) ==
    IF kind = "ProbCut" => tt \in ToSet(Captures) THEN tt ELSE None

FilterTT(kind, tt, legal) ==
    IF tt \in legal /\ (kind = "ProbCut" => tt \in ToSet(Captures)) THEN tt ELSE None

NewPicker(kind, tt, depth, threshold) ==
    [kind |-> kind, tt |-> tt, depth |-> depth, threshold |-> threshold,
     skipQuiets |-> FALSE, stage |-> "Tt", buf |-> <<>>,
     cur |-> 1, endCur |-> 1, endBad |-> 1, endCaptures |-> 1, endGenerated |-> 1]

----------------------------------------------------------------------------
(* One call.  Each stage yields a move, [s, mv], or goes on to the next.    *)
(* Indices are one more than in the code; an end is one past its segment.   *)

Yield(s, mv) == [s |-> s, mv |-> mv]

(* select: the first entry from cur that is not the table's move and passes. *)
Ahead(s) == {i \in s.cur..(s.endCur - 1) : s.buf[i].mv # s.tt}
First(S) == CHOOSE i \in S : \A j \in S : i <= j
Passed(s) == [s EXCEPT !.cur = s.endCur]
YieldAt(s, i) == Yield([s EXCEPT !.cur = i + 1], s.buf[i].mv)
Select(s, hits) ==
    IF hits = {} THEN Yield(Passed(s), None) ELSE YieldAt(s, First(hits))

(* generate_capture_list, the scoring in place and the full sort. *)
ListOf(kind) == IF kind = "Evasion" THEN Captures \o Quiets ELSE Captures
Keep(list, m) == IF IsLegal(m) /\ m # picker.tt THEN Append(list, m) ELSE list
SortedList(s, score) ==
    LET kept == FoldLeft(Keep, <<>>, ListOf(s.kind))
    IN  PartialInsertionSort([i \in DOMAIN kept |-> [mv |-> kept[i], value |-> score[kept[i]]]],
                             NoLimit)
ListInit(s, score, stage) ==
    LET list == SortedList(s, score)
        end  == Len(list) + 1
    IN  [s EXCEPT !.buf = list, !.endCaptures = end, !.endGenerated = end,
                  !.cur = 1, !.endBad = 1, !.endCur = end, !.stage = stage]

BadQuiet(s) ==
    IF s.skipQuiets THEN Yield([s EXCEPT !.stage = "Done"], None)
    ELSE Select(s, {i \in Ahead(s) : s.buf[i].value <= GoodQuietThreshold /\ IsLegal(s.buf[i].mv)})

BadCapture(s) ==
    LET r == Select(s, Ahead(s)) IN
    IF r.mv # None THEN r
    ELSE BadQuiet([r.s EXCEPT !.cur = s.endCaptures, !.endCur = s.endGenerated,
                              !.stage = "BadQuiet"])

GoodQuiet(s) ==
    LET r == IF s.skipQuiets THEN Yield(s, None)
             ELSE Select(s, {i \in Ahead(s) :
                               s.buf[i].value > GoodQuietThreshold /\ IsLegal(s.buf[i].mv)})
    IN  IF r.mv # None THEN r
        ELSE BadCapture([r.s EXCEPT !.cur = 1, !.endCur = s.endBad, !.stage = "BadCapture"])

(* The raw quiets, table's move and illegal ones included, are scored and    *)
(* partially sorted: their presence shapes the order of the others.          *)
ScoredQuiets(s, score) ==
    PartialInsertionSort([i \in DOMAIN Quiets |-> [mv |-> Quiets[i], value |-> score[Quiets[i]]]],
                         -3560 * s.depth)
QuietInit(s, score) ==
    LET all == IF s.skipQuiets THEN s.buf ELSE s.buf \o ScoredQuiets(s, score)
        end == IF s.skipQuiets THEN s.endGenerated ELSE Len(all) + 1
    IN  GoodQuiet([s EXCEPT !.buf = all, !.endGenerated = end, !.cur = s.endCaptures,
                            !.endCur = end, !.stage = "GoodQuiet"])

(* The captures that lose the exchange are swapped into the front region.    *)
Compact(s, i) ==
    [s EXCEPT !.buf = [@ EXCEPT ![s.endBad] = s.buf[i], ![i] = s.buf[s.endBad]],
              !.endBad = @ + 1]
GoodCapture(s, score) ==
    LET hits == {i \in Ahead(s) : See(s.buf[i].mv, TruncDiv(-s.buf[i].value, 18))}
        stop == IF hits = {} THEN s.endCur ELSE First(hits)
        left == FoldLeft(Compact, s, [k \in 1..(stop - s.cur) |-> s.cur + k - 1])
    IN  IF hits = {} THEN QuietInit(Passed(left), score) ELSE YieldAt(left, stop)

AnyMove(s) == Select(s, Ahead(s))
ProbCutMove(s) == Select(s, {i \in Ahead(s) : See(s.buf[i].mv, s.threshold)})

(* What a call does from the stage it finds. *)
FromInit(s, score) ==
    CASE s.kind = "Main" -> GoodCapture(ListInit(s, score, "GoodCapture"), score)
      [] s.kind \in {"QSearch", "Evasion"} -> AnyMove(ListInit(s, score, s.kind))
      [] s.kind = "ProbCut" -> ProbCutMove(ListInit(s, score, "ProbCut"))
NextMove(s, score) ==
    CASE s.stage = "Tt" -> IF s.tt # None THEN Yield([s EXCEPT !.stage = "Init"], s.tt)
                           ELSE FromInit(s, score)
      [] s.stage = "Init" -> FromInit(s, score)
      [] s.stage = "GoodCapture" -> GoodCapture(s, score)
      [] s.stage = "GoodQuiet" -> GoodQuiet(s)
      [] s.stage = "BadCapture" -> BadCapture(s)
      [] s.stage = "BadQuiet" -> BadQuiet(s)
      [] s.stage \in {"QSearch", "Evasion"} -> AnyMove(s)
      [] s.stage = "ProbCut" -> ProbCutMove(s)
      [] s.stage = "Done" -> Yield(s, None)

----------------------------------------------------------------------------
(* The twin the tests compare the picker with: one list per stage, split    *)
(* when the stage is entered, a list popped per yield.                      *)

NewTwin(s) ==
    [kind |-> s.kind, tt |-> s.tt, depth |-> s.depth, threshold |-> s.threshold,
     skipQuiets |-> FALSE, stage |-> "Tt", goodCaptures |-> <<>>, badCaptures |-> <<>>,
     goodQuiets |-> <<>>, badQuiets |-> <<>>, out |-> <<>>]

MovesWhere(list, Ok(_)) ==
    LET kept == SelectSeq(list, Ok) IN [i \in DOMAIN kept |-> kept[i].mv]

InitCaptures(t, score) ==
    LET list == SortedList(t, score)
        good(e) == CASE t.kind = "Main" -> See(e.mv, TruncDiv(-e.value, 18))
                     [] t.kind = "ProbCut" -> See(e.mv, t.threshold)
                     [] OTHER -> TRUE
    IN  [t EXCEPT !.goodCaptures = MovesWhere(list, good),
                  !.badCaptures = IF t.kind # "Main" THEN <<>>
                                  ELSE MovesWhere(list, LAMBDA e : ~good(e)),
                  !.stage = "GoodCapture"]
InitQuiets(t, score) ==
    LET playable(e) == e.mv # t.tt /\ IsLegal(e.mv)
        list == ScoredQuiets(t, score)
    IN  [t EXCEPT !.goodQuiets = MovesWhere(list, LAMBDA e :
                                    playable(e) /\ e.value > GoodQuietThreshold),
                  !.badQuiets = MovesWhere(list, LAMBDA e :
                                    playable(e) /\ e.value <= GoodQuietThreshold),
                  !.stage = "GoodQuiet"]

Popped(t, list) == Yield([t EXCEPT ![list] = Tail(@)], Head(t[list]))
TwinBadQuiet(t) ==
    IF t.skipQuiets \/ t.badQuiets = <<>> THEN Yield([t EXCEPT !.stage = "Done"], None)
    ELSE Popped(t, "badQuiets")
TwinBadCapture(t) ==
    IF t.badCaptures # <<>> THEN Popped(t, "badCaptures")
    ELSE TwinBadQuiet([t EXCEPT !.stage = "BadQuiet"])
TwinGoodQuiet(t) ==
    IF ~t.skipQuiets /\ t.goodQuiets # <<>> THEN Popped(t, "goodQuiets")
    ELSE TwinBadCapture([t EXCEPT !.stage = "BadCapture"])
TwinGoodCapture(t, score) ==
    IF t.goodCaptures # <<>> THEN Popped(t, "goodCaptures")
    ELSE TwinGoodQuiet(IF t.kind = "Main" /\ ~t.skipQuiets THEN InitQuiets(t, score)
                       ELSE [t EXCEPT !.stage = "GoodQuiet"])
TwinNext(t, score) ==
    CASE t.stage = "Tt" -> IF t.tt # None THEN Yield([t EXCEPT !.stage = "Init"], t.tt)
                           ELSE TwinGoodCapture(InitCaptures(t, score), score)
      [] t.stage = "Init" -> TwinGoodCapture(InitCaptures(t, score), score)
      [] t.stage = "GoodCapture" -> TwinGoodCapture(t, score)
      [] t.stage = "GoodQuiet" -> TwinGoodQuiet(t)
      [] t.stage = "BadCapture" -> TwinBadCapture(t)
      [] t.stage = "BadQuiet" -> TwinBadQuiet(t)
      [] t.stage = "Done" -> Yield(t, None)

----------------------------------------------------------------------------

Scores ==
    {[m \in Moves |-> IF m \in ToSet(Captures) THEN c[m] ELSE q[m]] :
        c \in [ToSet(Captures) -> CaptureScores], q \in [ToSet(Quiets) -> QuietScores]}

Init ==
    /\ position \in {[legal |-> Moves \ I, see |-> v] :
                        I \in Illegal, v \in [ToSet(Captures) -> SeeValues]}
    /\ \E kind \in Kinds, tt \in TTMoves \cup {None}, threshold \in SeeValues :
       \E depth \in IF kind = "Main" THEN Depths ELSE {0} :
          picker = NewPicker(kind, FilterTT(kind, tt, position.legal), depth,
                             IF kind = "ProbCut" THEN threshold ELSE 0)
    /\ skips = -1
    /\ out = <<>>
    /\ twin = NewTwin(picker)

(* The next call, with whatever the histories now score. *)
Call(score) ==
    /\ None \notin ToSet(out)
    /\ LET r == NextMove(picker, score)
           t == TwinNext(twin, score)
       IN  /\ picker' = r.s
           /\ out' = Append(out, r.mv)
           /\ twin' = [t.s EXCEPT !.out = Append(@, t.mv)]
    /\ UNCHANGED <<position, skips>>

(* skip_quiet_moves: the search prunes the remaining quiets. *)
SkipQuietMoves ==
    /\ None \notin ToSet(out)
    /\ ~picker.skipQuiets
    /\ picker' = [picker EXCEPT !.skipQuiets = TRUE]
    /\ twin' = [twin EXCEPT !.skipQuiets = TRUE]
    /\ skips' = Len(out)
    /\ UNCHANGED <<position, out>>

(* Only these stages score. *)
ScoresNow ==
    IF picker.stage \in {"Tt", "Init", "GoodCapture"} THEN Scores
    ELSE {CHOOSE f \in Scores : TRUE}

Next ==
    \/ \E score \in ScoresNow : Call(score)
    \/ SkipQuietMoves

Spec == Init /\ [][Next]_vars

----------------------------------------------------------------------------
(* Properties.                                                             *)

Exhausted == None \in ToSet(out)
Came == ToSet(out) \ {None}
Before(a, b) == \E i, j \in DOMAIN out : i < j /\ out[i] = a /\ out[j] = b

(* Only legal moves come out, once each, the table's first; a picker that ran dry  *)
(* has given every move of its kind that is legal; the quiets it has not    *)
(* given when they are skipped stay unseen, the deferred captures do not.   *)
Wanted ==
    LET legal == position.legal \cap ToSet(ListOf(picker.kind)) IN
    CASE picker.kind = "Main" -> position.legal
      [] picker.kind = "ProbCut" -> {m \in legal : See(m, picker.threshold)}
      [] OTHER -> legal
YieldsEach ==
    /\ IsInjective(out)
    /\ Came \subseteq position.legal
    /\ picker.kind = "ProbCut" => Came \subseteq ToSet(Captures)
    /\ Came \subseteq Wanted \cup {picker.tt}
    /\ out # <<>> /\ picker.tt # None => out[1] = picker.tt
    /\ Exhausted =>
         LET late == {out[i] : i \in {j \in DOMAIN out : j > skips}}
             unseen == (Wanted \cup {picker.tt}) \ (Came \cup {None})
         IN  IF skips = -1 \/ picker.kind # "Main" THEN unseen = {}
             ELSE /\ late \cap ToSet(Quiets) \subseteq {picker.tt}
                  /\ unseen \subseteq ToSet(Quiets)

(* The single-buffer picker gives what the lists of the twin give. *)
SameAsTwin == out = twin.out

(* Out of check, a capture that wins or holds its exchange comes before every *)
(* quiet, a losing one after every good quiet and before every bad one; the   *)
(* sorting keeps the order of generation among equals.                        *)
ValueOf(m) ==
    LET e == CHOOSE i \in DOMAIN picker.buf : picker.buf[i].mv = m IN picker.buf[e].value
InOrder ==
    (picker.kind = "Main" /\ picker.stage \in {"BadCapture", "BadQuiet", "Done"}) =>
        LET seen == Came \ {picker.tt}
            good(m) == m \in ToSet(Captures) /\ See(m, TruncDiv(-ValueOf(m), 18))
            rank(m) == IF m \in ToSet(Captures) THEN IF good(m) THEN 1 ELSE 3
                       ELSE IF ValueOf(m) > GoodQuietThreshold THEN 2 ELSE 4
            sorted(m) == m \in ToSet(Captures) \/ ValueOf(m) >= -3560 * picker.depth
            place(m) == CHOOSE i \in DOMAIN (Captures \o Quiets) : (Captures \o Quiets)[i] = m
        IN  \A a, b \in seen :
               /\ rank(a) < rank(b) => Before(a, b)
               /\ (a # b /\ rank(a) = rank(b) /\ sorted(a) /\ sorted(b)) =>
                    (Before(a, b) <=>
                        \/ ValueOf(a) > ValueOf(b)
                        \/ ValueOf(a) = ValueOf(b) /\ place(a) < place(b))

(* The order of the moves is the one documented, whichever build picks them. *)
OrderRight == SameAsTwin /\ InOrder

=============================================================================
