CONSTANTS
    Procs = {p1, p2}
    Bundles = {b1, b2, b3}
    Rebinds = {b3}
    HistoryDirs = {TRUE, FALSE}
    Handover = FALSE
    MaxRevisions = 2
    MaxPrevious = 1
    MaxVersion = 3
    MaxFailures = 3
SPECIFICATION Spec
SYMMETRY ProcSymmetry
INVARIANTS ServesLatest RollbackIsFaithful CommittedSurvives
CHECK_DEADLOCK FALSE
