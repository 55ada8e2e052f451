SPECIFICATION Spec
CONSTANTS
    Threads = {"t1"}
    UINT64_MAX = 1000
    ClockSteps <- CommonSteps
    Honoured <- CommonHonoured
    MayHitMarker = TRUE
    StartupCommands <- MixedStartup
    WbCommands <- MixedWb
    FeederCommands <- MixedFeeder
    ChipCommands <- MixedChip
    STOP_THREAD = FALSE
    MaxCommands = 5
    MaxTime = 3
INVARIANTS
    TypeOK
    BreakCoversPending
    Ordered
    NoAbort
    BoundsAhead
PROPERTIES
    KeepsPromise
CHECK_DEADLOCK FALSE
