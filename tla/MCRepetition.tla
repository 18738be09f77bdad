---------------------------- MODULE MCRepetition ----------------------------
(***************************************************************************)
(* Black's piece checks White's from b1 when it stands on w1, and from b3   *)
(* when it stands on w2: Black can check for ever between b1 and b3.  The   *)
(* three pairs of hands hold the same pieces; one gives Black everything,   *)
(* the other two cannot be compared.                                        *)
(***************************************************************************)
EXTENDS Repetition

MCChecks(b, w) == <<b, w>> \in {<<"p1", "p1">>, <<"p3", "p2">>}
MCStart == [Black |-> "p3", White |-> "p1"]
Pair(p, g) == [Black |-> [Pawn |-> p, Gold |-> g],
               White |-> [Pawn |-> 1 - p, Gold |-> 1 - g]]
MCHands == {Pair(1, 0), Pair(0, 1), Pair(1, 1)}

=============================================================================
