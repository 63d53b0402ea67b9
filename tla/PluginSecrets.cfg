CONSTANTS
    Replicas = {r1}
    Policies = {TRUE}
    SecretsMayFail = TRUE
    Compiled = {TRUE}
    Edits = {"routes", "source"}
    MaxEdits = 2
    MaxRestarts = 1
    MaxWrites = 1
SPECIFICATION Spec
INVARIANT ServedIsDurable
CHECK_DEADLOCK FALSE
