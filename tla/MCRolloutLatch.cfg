CONSTANTS
    Replicas = {r1, r2}
    Leaders = {}
    Steps <- EvidenceSteps
    MinRequests = 1
    ErrorPercent = 50
    HasP95 = FALSE
    Freshness = 0
    ReuseRevisions = FALSE
    Outcomes = {TRUE}
    Commands = {}
    MaxPolicy = 2
    MaxUid = 2
    MaxTime = 1
    MaxWrites = 2
    MaxInflight = 1
    MaxPatches = 1
    MaxCount = 1
SPECIFICATION FairSpec
PROPERTIES LatchIsRecorded RollbackReachesAll
CHECK_DEADLOCK FALSE
