---------------------------- MODULE MCTransTable ----------------------------
\* TransTable with two nodes at a time on a cluster of two entries. One payload
\* is a shallow fail-high with its move, the other a deep fail-low without one:
\* stored over each other they are replaced by depth, kept but for the move,
\* replaced by age, and replaced for another position.
EXTENDS TransTable, TLC

MCPayload ==
    {[bound |-> "Lower", depth |-> 1, pv |-> TRUE, move |-> TRUE],
     [bound |-> "Upper", depth |-> 9, pv |-> FALSE, move |-> FALSE]}

NodeSymmetry == Permutations(Node)
=============================================================================
