SPECIFICATION Spec
CONSTANTS
    Steps <- MCUndelayedSteps
    MAX_STEPS = 15
    SRAM_WORDS = 24
INVARIANT
    DocumentedCapacity
