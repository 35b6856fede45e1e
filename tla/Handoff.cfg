SPECIFICATION MCSpec
CONSTANTS
    Q = 2
    MaxRounds = 3
    MaxRestarts = 2
    NoOrder = NoOrder
    r1 = r1
    r2 = r2
    FanoutReceivers = {r1, r2}
    FanoutPart <- Parts
    FanoutRestarts = 1
    Target = 2
    Slice = 2
    SeriesRestarts = 1
    MaxForeign = 1
CHECK_DEADLOCK FALSE
INVARIANTS
    OutcomeIsTrue
    RetryIsSafe
    SentOnce
    FanoutIsTrue
    SeriesIsTrue
PROPERTIES
    AdmittedWhenSent
    AttemptsEnd
    KeepsPromise
    FanoutKeepsPromise
