--------------------------- MODULE RepetitionRule ---------------------------
(***************************************************************************)
(* The chain of states a position keeps behind it, and the repetition      *)
(* queries over that chain.  A state records the board key, the hands, the *)
(* side to move, whether the last move gave check, the plies since the     *)
(* last null move, each side's run of checking moves counted in twos, and  *)
(* the stored repetition triple.                                           *)
(***************************************************************************)
EXTENDS Integers, Sequences

CONSTANT MaxRepetitionPly    \* how far a repetition is looked for, 16 in the code

ASSUME WindowAssumption == MaxRepetitionPly \in Nat

Other(c) == IF c = "Black" THEN "White" ELSE "Black"

NotRepeated == [distance |-> 0, times |-> 0, type |-> "None"]

(* The state before the first move of the line. *)
RootState(key, hands, stm) ==
    [key |-> key, hands |-> hands, stm |-> stm, givesCheck |-> FALSE,
     pliesFromNull |-> 0, continuousCheck |-> [Black |-> 0, White |-> 0],
     repetition |-> NotRepeated]

(* The state a move of `mover` leads to from `prev`. *)
StateAfterMove(prev, key, hands, mover, givesCheck) ==
    [key |-> key, hands |-> hands, stm |-> Other(mover), givesCheck |-> givesCheck,
     pliesFromNull |-> prev.pliesFromNull + 1,
     continuousCheck |->
        [prev.continuousCheck EXCEPT ![mover] = IF givesCheck THEN @ + 2 ELSE 0],
     repetition |-> NotRepeated]

\* Mutant of StateAfterNull: the plies since the last null move keep counting.
StateAfterNullCounting(prev, key, hands, mover) ==
    [key |-> key, hands |-> hands, stm |-> Other(mover), givesCheck |-> FALSE,
     pliesFromNull |-> prev.pliesFromNull + 1,
     continuousCheck |-> [prev.continuousCheck EXCEPT ![mover] = 0],
     repetition |-> NotRepeated]

(* The state a null move of `mover` leads to. *)
StateAfterNull(prev, key, hands, mover) ==
    [key |-> key, hands |-> hands, stm |-> Other(mover), givesCheck |-> FALSE,
     pliesFromNull |-> 0,
     continuousCheck |-> [prev.continuousCheck EXCEPT ![mover] = 0],
     repetition |-> NotRepeated]

(* The state `dist` plies before the last of the line; the root counts. *)
HasStateBack(hist, dist) == dist <= Len(hist)
StateBack(hist, root, dist) ==
    IF dist = Len(hist) THEN root ELSE hist[Len(hist) - dist]

(* `h` holds at least as many of every kind as `g`. *)
EqualOrSuperior(h, g) == \A k \in DOMAIN h : h[k] >= g[k]

(* The distances at which the walk back stops: two plies at a time from the *)
(* fourth, an equal board, and hands that are equal or can be compared.     *)
Matches(cur, prev) ==
    /\ prev.key = cur.key
    /\ \/ prev.hands = cur.hands
       \/ EqualOrSuperior(cur.hands[cur.stm], prev.hands[cur.stm])
       \/ EqualOrSuperior(prev.hands[cur.stm], cur.hands[cur.stm])

LookBack(cur) ==
    IF cur.pliesFromNull < MaxRepetitionPly THEN cur.pliesFromNull ELSE MaxRepetitionPly

Stops(hist, root) ==
    LET cur == hist[Len(hist)] IN
    {i \in 4..LookBack(cur) :
        /\ i % 2 = 0
        /\ HasStateBack(hist, i)
        /\ Matches(cur, StateBack(hist, root, i))}

(* The verdict on the current state against its earlier occurrence. *)
Verdict(cur, prev, i) ==
    IF prev.hands = cur.hands
    THEN IF i <= cur.continuousCheck[cur.stm] THEN "Lose"
         ELSE IF i <= cur.continuousCheck[Other(cur.stm)] THEN "Win"
         ELSE "Draw"
    ELSE IF EqualOrSuperior(cur.hands[cur.stm], prev.hands[cur.stm])
         THEN "Superior" ELSE "Inferior"

Nearest(S) == CHOOSE i \in S : \A j \in S : i <= j

(* is_repetition of the quick-draw build: the nearest match decides. *)
QuickRepetition(hist, root) ==
    IF hist = <<>> \/ Stops(hist, root) = {} THEN "None"
    ELSE LET i == Nearest(Stops(hist, root))
         IN  Verdict(hist[Len(hist)], StateBack(hist, root, i), i)

(* The distance turns negative once three earlier occurrences are counted. *)
Signed(times, i) == IF times >= 3 THEN -i ELSE i

(* compute_repetition of the other build: it chains to the nearest match,    *)
(* counts the occurrences, and turns negative at the third earlier one; a   *)
(* cycle that was a perpetual check only part of the way is a draw.          *)
\* Mutant of StoredRepetition: no downgrade of a partly perpetual cycle.
StoredRepetitionKept(hist, root) ==
    IF Stops(hist, root) = {} THEN NotRepeated
    ELSE LET i    == Nearest(Stops(hist, root))
             cur  == hist[Len(hist)]
             prev == StateBack(hist, root, i)
             times == prev.repetition.times + 1
         IN  IF prev.hands # cur.hands
             THEN [distance |-> i, times |-> 0, type |-> Verdict(cur, prev, i)]
             ELSE [distance |-> Signed(times, i),
                   times |-> times, type |-> Verdict(cur, prev, i)]

StoredRepetition(hist, root) ==
    IF Stops(hist, root) = {} THEN NotRepeated
    ELSE LET i    == Nearest(Stops(hist, root))
             cur  == hist[Len(hist)]
             prev == StateBack(hist, root, i)
             type == Verdict(cur, prev, i)
             times == prev.repetition.times + 1
         IN  IF prev.hands # cur.hands
             THEN [distance |-> i, times |-> 0, type |-> type]
             ELSE [distance |-> Signed(times, i),
                   times |-> times,
                   type |-> IF prev.repetition.times # 0 /\ type # prev.repetition.type
                            THEN "Draw" ELSE type]

StoreRepetition(hist, root) ==
    LET top == hist[Len(hist)] IN
    [hist EXCEPT ![Len(hist)] = [top EXCEPT !.repetition = StoredRepetition(hist, root)]]

(* is_repetition of that build, asked at distance `ply` from the search root. *)
ChainedRepetition(hist, ply) ==
    IF hist = <<>> THEN "None"
    ELSE LET r == hist[Len(hist)].repetition
         IN  IF r.distance # 0 /\ r.distance < ply THEN r.type ELSE "None"

=============================================================================
