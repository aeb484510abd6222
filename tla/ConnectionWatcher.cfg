SPECIFICATION FairSpec
CONSTANTS
    MAX_CHANGES = 2
    MAX_RESTARTS = 1
CHECK_DEADLOCK FALSE
INVARIANTS
    TypeOK
    WrongIsCorrected
PROPERTIES
    ConstructorReturns
    ShownInTheEnd
