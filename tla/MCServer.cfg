SPECIFICATION FairSpec
CONSTANTS
    Threads = {"t1"}
    UINT64_MAX = 1000
    ClockSteps <- ServerSteps
    Honoured <- ServerHonoured
    MayHitMarker = FALSE
    StartupCommands <- ServerStartup
    WbCommands <- ServerWb
    FeederCommands <- MixedFeeder
    ChipCommands <- LiveChip
    STOP_THREAD = FALSE
    MaxCommands = 4
    MaxTime = 3
INVARIANTS
    NanosecondPeriodKept
PROPERTIES
    NowIsPerformed
CHECK_DEADLOCK FALSE
