---------------------------- MODULE MCMovePicker ----------------------------
(* Three captures and three quiets, of each kind one that may be illegal.    *)
EXTENDS MovePicker

MCCaptures == <<"c1", "c2", "c3">>
MCQuiets == <<"q1", "q2", "q3">>
MCTTMoves == {"c2", "q2"}
MCIllegal == {{}, {"c1", "q1"}, {"q2"}}
MCSeeValues == {-1, 1}
MCCaptureScores == {-18, 36}
MCQuietScores == {-20000, -5000, 100}

=============================================================================
