SPECIFICATION FairSpec
CONSTANTS
    Main = "main"
    NoThread = "nobody"
    LoopThreads <- MCLoopThreads
    Callers <- MCCallers
    MAX_REQUESTS = 2
    MAX_SIGNALS = 2
    MAX_SPURIOUS = 1
CHECK_DEADLOCK FALSE
INVARIANTS
    TypeOK
    NoLostWakeup
    StopsFirst
    NeverStuck
PROPERTIES
    FlushMeansDone
    SelfBlockIsFinal
    KeepsPromise
    RequestsRun
    FlushReturns
    OnlySelfBlockedStays
