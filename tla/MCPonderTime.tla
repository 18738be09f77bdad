---------------------------- MODULE MCPonderTime ----------------------------
\* PonderTime with a second of two units: a rounded, an unrounded and a final
\* push budget, each small enough to run out before and after a ponderhit.
EXTENDS PonderTime

MCBudgets ==
    {[minimum |-> 1, optimum |-> 2, maximum |-> 3, remain |-> 4, minThink |-> 2,
      delay |-> 1, fullSecond |-> full, finalPush |-> FALSE, mtgError |-> FALSE]
        : full \in BOOLEAN}
    \cup
    {[minimum |-> 4, optimum |-> 4, maximum |-> 4, remain |-> 4, minThink |-> 1,
      delay |-> 0, fullSecond |-> TRUE, finalPush |-> TRUE, mtgError |-> FALSE]}
=============================================================================
