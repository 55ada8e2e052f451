SPECIFICATION WbSpec
CONSTANTS
    Threads = {"t1"}
    UINT64_MAX = 1000
    ClockSteps <- CommonSteps
    Honoured <- CommonHonoured
    MayHitMarker = TRUE
    StartupCommands <- NoCommands
    WbCommands <- NoCommands
    FeederCommands <- ThreadCommands
    ChipCommands <- EndCommands
    STOP_THREAD = FALSE
    MaxCommands = 24
    MaxTime = 4
    Uid <- OneUid
    Scripts <- LastingScripts
    Garbage <- AnyMemory
PROPERTIES
    NoThreadsLeftExits
CHECK_DEADLOCK FALSE
