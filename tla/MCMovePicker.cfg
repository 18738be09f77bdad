SPECIFICATION Spec
CONSTANTS
    Captures <- MCCaptures
    Quiets <- MCQuiets
    TTMoves <- MCTTMoves
    Illegal <- MCIllegal
    SeeValues <- MCSeeValues
    CaptureScores <- MCCaptureScores
    QuietScores <- MCQuietScores
    Depths = {1, 5}
INVARIANTS
    YieldsEach
    OrderRight
CHECK_DEADLOCK FALSE
