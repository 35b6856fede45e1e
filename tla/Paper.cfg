SPECIFICATION PaperSpec
CONSTANTS
    Trades <- MCTrades
    Quantity = 2
    MaxAttempts = 2
    MaxVersions = 2
    MaxInFlight = 2
    MaxClock = 3
    MaxStops = 2
INVARIANTS FillsAreEarned
PROPERTIES KeepsPromise EntryEnds
CHECK_DEADLOCK FALSE
