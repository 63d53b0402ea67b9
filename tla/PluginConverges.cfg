CONSTANTS
    Replicas = {r1}
    Policies = {TRUE, FALSE}
    SecretsMayFail = FALSE
    Compiled = {TRUE, FALSE}
    Edits = {"routes", "unscript", "unselect", "unclass", "delete", "source", "invalid", "withdraw", "recreate", "revert"}
    MaxEdits = 2
    MaxRestarts = 1
    MaxWrites = 1
SPECIFICATION FairSpec
PROPERTY Converges
CHECK_DEADLOCK FALSE
