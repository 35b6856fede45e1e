CONSTANTS
    Q = 2
    MAX_OPENING_ATTEMPTS = 2
    MAX_CLOSING_ATTEMPTS = 2
SPECIFICATION FairSpec
INVARIANTS FlatIsFlat
PROPERTIES AttemptsDoNotOverlap ResidualIsExact NoStarvation EndsOrUnfilled
CHECK_DEADLOCK FALSE
