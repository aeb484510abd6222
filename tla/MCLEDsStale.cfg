SPECIFICATION LEDsSpec
CONSTANTS
    Requests <- MCAnimationRequests
    Steps <- MCAnimationSteps
    MAX_STEPS = 4
    MAX_REQUESTS = 4
    SRAM_WORDS = 23
CHECK_DEADLOCK FALSE
PROPERTY
    AnimationOutlivesTorch
