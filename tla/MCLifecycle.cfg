CONSTANTS
    Requests <- MCRequests
    Scenarios <- MCScenarios
    Permits = 1
    Sockets = {1, 2}
    Peers = {p1, p2}
    PerIp = 2
    PerListener = 2
    PendingPerIp = 1
    MaxConnections = 2
    MaxPending = 2
    HeaderBudget = 1
    MaxStreams = 2
    Sources <- MCSources
    Owner <- MCOwner
    Defective = {"b", "d"}
    Wanted <- MCWanted
    Tried = {"b", "d"}
    QueueLimit = 2
    NamespaceLimit = 1
    PerMinute = 1
    WarmLimit = 2
    RejectedLimit = 1
    MaxSubmissions = 1
SPECIFICATION LifecycleSpec
INVARIANTS AdmissionCounted
PROPERTIES RequestsRelease DrainCompletes ScriptsSettle
CHECK_DEADLOCK FALSE
