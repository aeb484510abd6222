SPECIFICATION FairSpec
CONSTANT
    Calls <- MCCalls
CHECK_DEADLOCK FALSE
INVARIANTS
    TypeOK
    NameMeansReady
    CallsReachDaemon
    NoCallAfterRun
PROPERTIES
    KeepsToLoop
    MainNeverStuck
