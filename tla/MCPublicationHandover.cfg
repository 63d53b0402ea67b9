CONSTANTS
    Procs = {p1, p2}
    Bundles = {b1, b2}
    Rebinds = {}
    HistoryDirs = {TRUE}
    Handover = TRUE
    MaxRevisions = 2
    MaxPrevious = 1
    MaxVersion = 2
    MaxFailures = 1
SPECIFICATION Spec
INVARIANT ServesLatest
CHECK_DEADLOCK FALSE
