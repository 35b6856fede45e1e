SPECIFICATION FeedSpec
CONSTANTS
    Cap = 2
    MinLighter = 1
    Delay = 2
    Life = 1
    Hold = 4
    Horizon = 13
    MaxQuotes = 2
    MaxTrades = 2
    MaxBooks = 1
    Target = 2
    LighterLeast = 1
    Lag = 1
    CancelAfter = 1
    MaxHold = 3
    Retention = 2
    Models = {"NONE", "TRADE_THROUGH_ONLY"}
    LastInstant = 7
    Silence = 2
    Rounds = 8
    FeedEvents = 2
INVARIANTS ReplaysAreTrue
CHECK_DEADLOCK FALSE
