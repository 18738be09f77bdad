CONSTANTS
    n1 = n1
    n2 = n2
    Node = {n1, n2}
    CLUSTER_SIZE = 2
    GENERATIONS = 2
    Fragment = {0, 1}
    Payload <- MCPayload
    MaxSaves = 3
    MaxSearches = 2
SPECIFICATION Spec
SYMMETRY NodeSymmetry
INVARIANTS
    TornOnlyByRace
    AgeExact
PROPERTIES
    HitIsWhole
