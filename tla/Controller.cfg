SPECIFICATION FairSpec
CONSTANTS
    MaxCommands = 2
    MaxSeries = 2
    MaxTerminal = 1
    MaxCrashes = 1
    MaxFailures = 1
CHECK_DEADLOCK FALSE
INVARIANTS
    CommandOnce
    BarrierHolds
    StopReachesChild
    DoubtAndStopHold
PROPERTIES
    LaunchedFlat
    OwnerIsAnswered
