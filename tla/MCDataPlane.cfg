CONSTANTS
    Requests <- MCRequests
    Scenarios <- MCScenarios
    Permits = 1
    Addresses = {1, 2}
    Callers = {a1, a2}
    MaxInflight = 1
    MaxFails = 1
    Cooldown = 1
    DnsGrace = 1
    MaxInstant = 3
    MaxIncarnation = 1
    MaxRevision = 2
    Users = {a1, a2}
    Keys = {1, 2}
    Capacity = 2
    Burst = 2
    PerSecond = 1
    Limit = 1
    Idle = 2
    MaxTime = 3
    Pools = {1, 2}
    Origins = {1, 2}
    Exchanges = {a1, a2}
    Links = {l1, l2, l3}
    Maximum = 2
    IdleBudget = 2
    Keepalive = 1
    MaxPoolTime = 2
    Headers <- MCHeaders
    MaxLength = 3
    SmallFile = 2
    Chunk = 2
    LogQueueLimit = 1
    MaxBytes = 2
    Keep = 2
    Gzip = TRUE
    MaxRecords = 4
    MaxFiles = 6
    MaxMoves = 2
    Threads = {a1, a2}
    ChannelCapacity = 2
    BatchSize = 2
    Attempts = 3
    MaxOffered = 5
SPECIFICATION DataPlaneSpec
INVARIANTS NoBypass EnginesAgree AuthorizerDecides CancelledIsNotEvidence NothingStranded CachedSelectionFresh LeasesCounted PermitsCounted RateBound ConnectionsExclusive DeliversAnnounced RecordsRetained RecordsAccounted
CHECK_DEADLOCK FALSE
SYMMETRY DataPlaneSymmetry
