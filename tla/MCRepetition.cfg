SPECIFICATION LineSpec
CONSTANTS
    MaxRepetitionPly = 8
    Places = {"p1", "p2", "p3"}
    Checks <- MCChecks
    StartPlace <- MCStart
    Hands <- MCHands
    MaxLine = 12
    MaxNulls = 1
    MaxExchanges = 1
INVARIANTS
    QuickExact
    StoredRight
