SPECIFICATION LEDsFairSpec
CONSTANTS
    Requests <- MCTimedRequests
    Steps <- MCTimedSteps
    MAX_STEPS = 4
    MAX_REQUESTS = 4
    SRAM_WORDS = 23
CHECK_DEADLOCK FALSE
INVARIANTS
    RequestsTakeEffect
    BlockIsolation
    TorchHasEnd
PROPERTIES
    Spec
    TimedTorchEnds
