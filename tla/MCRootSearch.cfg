CONSTANTS
    a = a
    b = b
    c = c
    Move = {a, b, c}
    RootMoves <- MCRootMoves
    MaxMultiPV = 2
    LimitDepth = 2
    INFINITE = 6
    WIN = 3
    Value <- MCValue
    Centre <- MCCentre
    Width = {3}
SPECIFICATION FairSpec
CHECK_DEADLOCK FALSE
INVARIANTS
    TypeOK
    WindowOpen
    LinesExact
PROPERTIES
    AspirationEnds
