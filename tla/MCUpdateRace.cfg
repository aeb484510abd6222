SPECIFICATION RaceSpec
CONSTANTS
    MainThread = "main"
    Watcher = "ConnectionWatcher"
    Watched <- MCWatched
    Calls <- MCCalls
    States <- MCStates
    MAX_CHANGES = 2
    MAX_LOST = 1
    SRAM_WORDS = 22
CHECK_DEADLOCK FALSE
INVARIANTS
    QuiescentChipRuns
PROPERTY
    SoloUpdateRepairs
