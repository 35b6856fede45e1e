SPECIFICATION TestnetSpec
CONSTANTS
    Q = 2
    MaxRuns = 3
    Amount = 3
    MAX_CLOSE_ATTEMPTS = 3
    Lots = 2
    Polls = 1
    Stores = 2
    MaxFaults = 1
    EntryMayOverrun = FALSE
    Processes = 2
    MAX_RECONCILE_READS = 3
CHECK_DEADLOCK FALSE
INVARIANTS
    
    EachStepStandsOnTheLast
    
PROPERTIES
    HaltedSendsNothing
    PeerIsReleased
