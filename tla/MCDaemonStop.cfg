SPECIFICATION FairSpec
CONSTANTS
    Main = "main"
    NoThread = "nobody"
    LoopThreads <- MCLoopThreads
    Callers <- MCNoCallers
    MAX_REQUESTS = 1
    MAX_SIGNALS = 1
    MAX_SPURIOUS = 0
CHECK_DEADLOCK FALSE
PROPERTY
    StopReturns
