SPECIFICATION RecordsSpec
CONSTANTS
    p1 = p1
    p2 = p2
    p3 = p3
    NoProc = NoProc
    Procs = {p1, p2, p3}
    MaxPowerLosses = 1
    MaxFailures = 1
    EntryMayBeLost = FALSE
    Keys = {k1, k2}
    Nonces = {1, 2}
    MaxFrames = 3
    None = None
    Kinds = {"RISEX", "LIGHTER", "NADO"}
    BookAttempts = 3
    BookCapacity = 2
    BookOverflows = 2
    MaxBookChanges = 4
    MaxBookSessions = 2
    MaxBookFaults = 2
    Markets = {m1, m2}
    Queue = 2
    SocketCapacity = 1
    SocketOverflows = 1
    MaxSocketFrames = 3
    MaxSocketChanges = 2
    MaxSocketSessions = 2
    MaxSocketTroubles = 1
SYMMETRY Symmetry
CHECK_DEADLOCK FALSE
INVARIANTS
    SequencesIncrease
    FlushHoldsLock
    SentIsDurable
    NoReplay
    StreamIsTrue
    BooksAreTrue
