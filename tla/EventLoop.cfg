SPECIFICATION FairSpec
CONSTANTS
    Callbacks = {started, first, second, third, timeout, bus}
    Timed = {timeout, bus}
    Started = started
CHECK_DEADLOCK FALSE
INVARIANTS
    WaitMeansDone
    QuietAfterStop
    PendingIsHeld
    QuitIsKept
PROPERTIES
    WaitsEnd
    StopEnds
