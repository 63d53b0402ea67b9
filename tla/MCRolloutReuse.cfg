CONSTANTS
    Replicas = {r1}
    Leaders = {}
    Steps <- CommandSteps
    MinRequests = 1
    ErrorPercent = 50
    HasP95 = FALSE
    Freshness = 0
    ReuseRevisions = TRUE
    Outcomes = {TRUE, FALSE}
    Commands = {"rollback"}
    MaxPolicy = 2
    MaxUid = 1
    MaxTime = 1
    MaxWrites = 6
    MaxInflight = 1
    MaxPatches = 1
    MaxCount = 1
SPECIFICATION Spec
INVARIANT RevisionLockPermanent
CHECK_DEADLOCK FALSE
