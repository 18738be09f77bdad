CONSTANTS
    Files = 3
    Ranks = 3
    ZoneRanks = 1
    EvalStarts <- MCStarts
    EvalPlies = 2
    EvalNodes = 4
    MaxActive = 7
    Workers = {"w1", "w2"}
    ThreadCount = 2
    Scripts <- MCScripts
    PositionKeys = {8197}
    Disks <- MCDisks
    BookOptions <- MCBookOptions
    BookConfigs <- MCBookConfigs
    BookRoots <- MCRoots
    SeriesBound = 4
    BundleSize = 4
    Machines <- MCMachines
    Declared <- MCDeclared
    Requests <- MCRequests
    OverrideFiles <- MCOverrideFiles
    Networks = {"eval", "nets"}
    TicksPerNewline = 2
    PointTable <- MCPointTable
    Handicapped = {"Point27H"}
    FieldPieces = 2
    FullSet = 7
    Games <- MCGames
    GamePlies = 2
    Rules = {"Point27H", "Try"}
    Votes <- MCVotes
    WorkerCount = 3
    GoBound = 2
    Second = 1000
    Inputs <- MCInputs
    Hits = {0, 2500}
    Elapsed = {0, 1, 1000, 3400}
    MaxRepetitionPly = 16
    Reports <- MCReports
    Stored <- MCStored
    LineBound = 6
SPECIFICATION Spec
INVARIANTS
    EvalExact
    LearnsSound
    BookRight
    SetupRight
    GoRight
    TimeRight
    LastLinesRight
CHECK_DEADLOCK FALSE
