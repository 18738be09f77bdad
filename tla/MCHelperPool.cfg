CONSTANTS
    MaxHelpers = 2
    MaxGo = 2
SPECIFICATION FairPoolSpec
INVARIANTS
    PoolTypeOK
    HandoverSafe
    NoLostWakeup
PROPERTIES
    PoolProtocol
    ImplementsWorkerPool
    EveryWaitEnds
