------------------------- MODULE MCInteriorSearch -------------------------
(* InteriorSearch on a tree of three plies with two moves to a node. *)
EXTENDS InteriorSearch

MCEvals == {-1, 1}
MCTTValues == {0, 8}
MCWindows == {<<-1, 1>>}

\* Around the score of a side that is losing, as aspiration windows are: the
\* raised beta of ProbCut is then below zero too.
MCLosingWindows == {<<-5, -3>>}
=============================================================================
