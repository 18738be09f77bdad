SPECIFICATION Spec
CONSTANTS
    Moves = 2
    MaxPly = 3
    DepthCap = 3
    Mate = 8
    Evals <- MCEvals
    TTValues <- MCTTValues
    TTDepths = {3}
    RootDepth = 2
    TiePly = 1
    Windows <- MCWindows
    Contempt = 0
    NullReduction = 1
    VerifyDepth = 2
    ProbCutDepth = 2
    ProbCutReduction = 2
    ProbCutMargin = 2
    SmallProbCutMargin = 1
    SingularDepth = 2
    SingularMargin = 1
    IirDepth = 2
    CutoffDepth = 1
    DeepDepth = 4
    MaxRare = 1
INVARIANTS
    Unwinds
    WindowsAndValues
    PvIsTheLine

CHECK_DEADLOCK FALSE
