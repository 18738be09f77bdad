CONSTANTS
    a = a
    b = b
    c = c
    Move = {a, b, c}
    RootMoves <- MCRootMoves
    MaxMultiPV = 1
    LimitDepth = 2
    INFINITE = 6
    WIN = 3
    Value <- MCValue
    Centre <- MCCentre
    Width = {3}
SPECIFICATION Spec
CHECK_DEADLOCK FALSE
INVARIANTS
    FinalPVAgrees
