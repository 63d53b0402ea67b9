CONSTANTS
    Replicas = {r1, r2}
    Leaders = {r1}
    Steps <- EvidenceSteps
    MinRequests = 2
    ErrorPercent = 50
    HasP95 = FALSE
    Freshness = 0
    ReuseRevisions = FALSE
    Outcomes = {FALSE}
    Commands = {"resume"}
    MaxPolicy = 1
    MaxUid = 1
    MaxTime = 2
    MaxWrites = 4
    MaxInflight = 1
    MaxPatches = 1
    MaxCount = 1
SPECIFICATION Spec
INVARIANTS NeverAhead
PROPERTIES AdvanceHasEvidence
CHECK_DEADLOCK FALSE
