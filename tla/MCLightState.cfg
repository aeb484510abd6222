SPECIFICATION Spec
CONSTANTS
    Steps <- MCSteps
    MAX_STEPS = 3
    SRAM_WORDS = 22
INVARIANTS
    TypeOK
    ChipLoops
    IndicatorsFaithful
    AnimationFaithful
    OnlyStepsPending
    TorchAtFullCurrent
