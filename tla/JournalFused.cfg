SPECIFICATION Spec
CONSTANTS
    p1 = p1
    p2 = p2
    NoProc = NoProc
    Procs = {p1, p2}
    MaxPowerLosses = 0
    MaxFailures = 1
    EntryMayBeLost = FALSE
CHECK_DEADLOCK FALSE
PROPERTIES
    NoSendUnderUndecodableJournal
