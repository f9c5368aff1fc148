SPECIFICATION FairSpec
CONSTANTS
    Key = {k1}
    Worker = {w1}
    Pools = {{w1}}
    Webhook = {h1}
    None = none
    Prefork = FALSE
    FileMaxRetryCount = none
    MaxExtra = 0
    MaxFaults = 1
    MaxCrashes = 0
PROPERTIES FailedIsRetried
CHECK_DEADLOCK FALSE
