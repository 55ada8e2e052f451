SPECIFICATION Spec
CONSTANTS
    Threads = {"t1"}
    UINT64_MAX = 1000
    ClockSteps <- SlowSteps
    Honoured <- ServerHonoured
    MayHitMarker = FALSE
    StartupCommands <- SlowStartup
    WbCommands <- NoCommands
    FeederCommands <- NoCommands
    ChipCommands <- NoCommands
    STOP_THREAD = FALSE
    MaxCommands = 4
    MaxTime = 6
INVARIANTS
    NoAbort
CHECK_DEADLOCK FALSE
