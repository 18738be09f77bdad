----------------------------- MODULE Repetition -----------------------------
(***************************************************************************)
(* A line of play, reduced to what the repetition queries of               *)
(* attic-state/position.rs see of it.  Each side has one piece that moves  *)
(* between places, a move may also change the hands, a null move passes    *)
(* and moves are taken back.  Whether a board is check is a function of    *)
(* the board, as in the game; nothing else of the rules is needed.         *)
(***************************************************************************)
EXTENDS RepetitionRule, FiniteSets

CONSTANTS
    Places,         \* where a side's piece can stand
    Checks(_, _),   \* Checks(b, w): Black's piece on b checks White's on w
    StartPlace,     \* [Black |-> place, White |-> place]
    Hands,          \* the pairs of hands a move may lead to
    MaxLine,        \* bound on the length of the line
    MaxNulls,       \* bound on the null moves in it
    MaxExchanges    \* bound on the moves in it that change the hands

ASSUME StartAssumption == StartPlace \in [{"Black", "White"} -> Places]

VARIABLES
    hist,   \* the states after each move of the line
    root,   \* the state before the first move
    line    \* what was played: each move with the check it gave, or a null move

lineVars == <<hist, root, line>>

Current == IF hist = <<>> THEN root ELSE hist[Len(hist)]
Timeline == <<root>> \o hist
Nulls == {i \in DOMAIN line : line[i].null}
Exchanges == {i \in 2..Len(Timeline) : Timeline[i].hands # Timeline[i - 1].hands}

(* The board key of a place for each side, with a side to move. *)
Key(place, stm) == [place |-> place, stm |-> stm]
InCheck(place, stm) == stm = "White" /\ Checks(place.Black, place.White)

LineInit ==
    /\ hist = <<>>
    /\ line = <<>>
    /\ \E h \in Hands : root = RootState(Key(StartPlace, "Black"), h, "Black")

(* do_move: the new state is pushed, then its stored repetition computed. *)
DoMove(to, hands) ==
    LET mover == Current.stm
        place == [Current.key.place EXCEPT ![mover] = to]
        check == InCheck(place, Other(mover))
    IN  /\ Len(hist) < MaxLine
        /\ place # Current.key.place
        /\ ~InCheck(place, mover)
        /\ hands # Current.hands => Cardinality(Exchanges) < MaxExchanges
        /\ hist' = StoreRepetition(
               Append(hist, StateAfterMove(Current, Key(place, Other(mover)), hands,
                                           mover, check)), root)
        /\ line' = Append(line, [null |-> FALSE, by |-> mover, check |-> check])
        /\ UNCHANGED root

(* do_null_move: played out of check only, and no two in a row. *)
DoNull ==
    LET mover == Current.stm IN
    /\ Len(hist) < MaxLine
    /\ ~InCheck(Current.key.place, mover)
    /\ Cardinality(Nulls) < MaxNulls
    /\ line # <<>> => ~line[Len(line)].null
    /\ hist' = Append(hist, StateAfterNull(Current, Key(Current.key.place, Other(mover)),
                                           Current.hands, mover))
    /\ line' = Append(line, [null |-> TRUE, by |-> mover, check |-> FALSE])
    /\ UNCHANGED root

(* undo_move and undo_null_move drop the last state. *)
Undo ==
    /\ hist # <<>>
    /\ hist' = SubSeq(hist, 1, Len(hist) - 1)
    /\ line' = SubSeq(line, 1, Len(line) - 1)
    /\ UNCHANGED root

LineNext ==
    \/ \E to \in Places, hands \in Hands : DoMove(to, hands)
    \/ DoNull
    \/ Undo

LineSpec == LineInit /\ [][LineNext]_lineVars

----------------------------------------------------------------------------
(* Properties: the answers, against the line as it was played.             *)

Now == Len(Timeline)
SameBoard(i) == Timeline[i].key = Current.key
SamePosition(i) == SameBoard(i) /\ Timeline[i].hands = Current.hands
(* No null move was played since the state at i. *)
Connected(i) == \A n \in i..Len(line) : ~line[n].null
(* Every move of c since the state at i gave check. *)
CheckedSince(c, i) == \A n \in i..Len(line) : line[n].by = c => line[n].check

(* What a player would answer about the state at i, on the same board. *)
Answer(i) ==
    LET now  == Current.hands[Current.stm]
        then == Timeline[i].hands[Current.stm]
    IN  IF SamePosition(i)
        THEN IF CheckedSince(Current.stm, i) THEN "Lose"
             ELSE IF CheckedSince(Other(Current.stm), i) THEN "Win" ELSE "Draw"
        ELSE IF EqualOrSuperior(now, then) THEN "Superior"
        ELSE IF EqualOrSuperior(then, now) THEN "Inferior" ELSE "None"

(* The quick-draw query answers for the latest earlier state on this board  *)
(* that can be compared, within the window and never across a null move.    *)
(* RepetitionState's contract: Lose is for the side that has been checking. *)
QuickExact ==
    LET Earlier == {i \in 1..(Now - 4) :
                      /\ Now - i <= MaxRepetitionPly
                      /\ SameBoard(i) /\ Connected(i) /\ Answer(i) # "None"}
    IN  QuickRepetition(hist, root) =
            IF Earlier = {} THEN "None"
            ELSE Answer(CHOOSE i \in Earlier : \A j \in Earlier : j <= i)

(* The stored triple of the other build counts real occurrences: `times`    *)
(* earlier ones, and a perpetual verdict only when that side checked all    *)
(* the way since the first of them.                                         *)
ChainSound ==
    LET r == Current.repetition IN
    r.times > 0 =>
        \E i \in 1..(Now - 1) :
            /\ SamePosition(i) /\ Connected(i)
            /\ Cardinality({n \in i..(Now - 1) : SamePosition(n)}) = r.times
            /\ r.type = "Lose" => CheckedSince(Current.stm, i)
            /\ r.type = "Win" => CheckedSince(Other(Current.stm), i)

(* A state reported at the search root, whatever the ply, is a fourfold     *)
(* one; and a repetition inside the search is reported only when its        *)
(* earlier state lies after the root.                                       *)
ReportedRightly ==
    LET sane(ply) == ChainedRepetition(hist, ply) # "None" =>
            \/ Cardinality({i \in 1..Now : SamePosition(i)}) >= 4
            \/ \E i \in (Now - ply + 1)..(Now - 4) : SameBoard(i)
    IN  \A ply \in 0..Len(hist) : sane(ply)

(* What the other build stores and reports: both of the above.              *)
StoredRight == ChainSound /\ ReportedRightly

=============================================================================
