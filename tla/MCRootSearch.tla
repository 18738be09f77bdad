---------------------------- MODULE MCRootSearch ----------------------------
\* RootSearch with three moves and two values, a proved loss and one near a draw:
\* between them a window fails low and high, ends the search early, and lies within
\* ProbCut's reach.
EXTENDS RootSearch

CONSTANTS a, b, c

MCRootMoves == <<a, b, c>>
MCValue == {-3, 1}
MCCentre == {-3, -1, 1}
=============================================================================
