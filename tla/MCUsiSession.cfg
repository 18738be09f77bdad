CONSTANTS
    MaxMoves = 1
    MaxAsks = 2
    MaxSearch = 3
    MaxRude = 2
SPECIFICATION FairSpec
INVARIANTS
    TypeOK
    OneReply
PROPERTIES
    RepliesRight
    NeverBlocked
    Answered
