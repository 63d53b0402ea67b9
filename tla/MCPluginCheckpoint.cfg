CONSTANTS
    Replicas = {r1, r2}
    Policies = {FALSE}
    SecretsMayFail = FALSE
    Compiled = {TRUE}
    Edits = {"routes", "unclass", "source", "withdraw", "recreate", "revert"}
    MaxEdits = 4
    MaxRestarts = 1
    MaxWrites = 1
SPECIFICATION MCSpec
SYMMETRY ReplicaSymmetry
INVARIANTS ServedIsDurable CheckpointWasLive WithdrawnStaysDown
PROPERTY CheckpointNeverRegresses
CHECK_DEADLOCK FALSE
