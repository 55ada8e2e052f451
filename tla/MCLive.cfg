SPECIFICATION FairSpec
CONSTANTS
    Threads = {"t1"}
    UINT64_MAX = 1000
    ClockSteps <- CommonSteps
    Honoured <- CommonHonoured
    MayHitMarker = TRUE
    StartupCommands <- LiveStartup
    WbCommands <- LiveWb
    FeederCommands <- MixedFeeder
    ChipCommands <- LiveChip
    STOP_THREAD = TRUE
    MaxCommands = 4
    MaxTime = 3
INVARIANTS
    BreakCoversCommands
PROPERTIES
    StartedModelRuns
    ExitEnds
CHECK_DEADLOCK FALSE
