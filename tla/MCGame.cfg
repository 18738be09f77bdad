SPECIFICATION Spec
CONSTANTS
    Files = 3
    Ranks = 5
    ZoneRanks = 2
    MaxRepetitionPly = 16
    Starts <- MCStarts
    MaxPlies = 2
INVARIANTS
    PositionExact
    KingsAndPiecesKept
    MovesExact
    SeeExact
    MateOneSound
