SPECIFICATION Spec
CONSTANTS
    Key = {k1}
    Worker = {w1, w2}
    Pools = {{w1, w2}}
    Webhook = {h1}
    None = none
    Prefork = FALSE
    FileMaxRetryCount = none
    MaxExtra = 0
    MaxFaults = 0
    MaxCrashes = 0
SYMMETRY Symmetric
INVARIANTS CompletedSuccessfully
CHECK_DEADLOCK FALSE
