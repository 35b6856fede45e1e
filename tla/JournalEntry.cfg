SPECIFICATION Spec
CONSTANTS
    p1 = p1
    p2 = p2
    NoProc = NoProc
    Procs = {p1, p2}
    MaxPowerLosses = 0
    MaxFailures = 0
    EntryMayBeLost = TRUE
SYMMETRY Symmetry
CHECK_DEADLOCK FALSE
INVARIANTS
    FirstMutationSurvivesEntryLoss
