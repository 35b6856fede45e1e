SPECIFICATION Spec
CONSTANTS
    MaxCommands = 1
    MaxSeries = 2
    MaxTerminal = 1
    MaxCrashes = 0
    MaxFailures = 0
CHECK_DEADLOCK FALSE
INVARIANTS
    StopReachesEveryCycle
