---------------------------- MODULE MCUsiSession ----------------------------
\* UsiSession in the small: a retained position of at most one move (so that a
\* rewind both can and cannot happen), two go commands and three searches (so
\* that one of the gos can be re-issued before or after the other).
EXTENDS UsiSession
=============================================================================
