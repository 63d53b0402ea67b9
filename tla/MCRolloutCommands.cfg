CONSTANTS
    Replicas = {r1}
    Leaders = {r1}
    Steps <- CommandSteps
    MinRequests = 1
    ErrorPercent = 50
    HasP95 = FALSE
    Freshness = 0
    ReuseRevisions = FALSE
    Outcomes = {FALSE}
    Commands = {"rollback", "pause", "resume", "approve"}
    MaxPolicy = 2
    MaxUid = 1
    MaxTime = 2
    MaxWrites = 4
    MaxInflight = 0
    MaxPatches = 2
    MaxCount = 1
SPECIFICATION Spec
INVARIANTS Derived
PROPERTIES ImplementsRelease
CHECK_DEADLOCK FALSE
