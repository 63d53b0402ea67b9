CONSTANTS
    Tables <- MCTables
    Queries <- MCQueries
    Clusters <- MCClusters
    Dependencies <- MCDependencies
    Asked <- MCAsked
    Samples = {0, 1}
    MaxIngresses = 2
    MaxRoutes = 6
    MaxBackends = 2
    Controllers = {r1, r2}
    Broken = {2}
    MaxChanges = 2
    MaxWrites = 2
    Reporters = {r1, r2}
    LeaseDuration = 6
    RenewPeriod = 2
    CallTimeout = 1
    MaxStatusTime = 7
    MaxGeneration = 2
    MaxAddress = 2
    MaxStatusWrites = 3
    Gate = {"g"}
    GatesOf <- MCGatesOf
    ConsecutiveFailures = 2
    FailureSeconds = 1
    UnavailableFails = FALSE
    Freshness = 1
    MaxVersion = 2
    MaxStage = 1
    MaxClock = 2
    Members = {r1, r2}
    Quotas = {1, 2}
    MaxObjects = 2
    MaxPrograms = 4
    MaxOwners = 3
SPECIFICATION ControlPlaneSpec
INVARIANTS IndexIsScan FailsClosed ControlsCoherent OneTenant LinkRecoverable
PROPERTIES CheckpointsAdvance RestoredBeforeReady StatusAdvances RollbackSustained
CHECK_DEADLOCK FALSE
SYMMETRY ControlPlaneSymmetry
