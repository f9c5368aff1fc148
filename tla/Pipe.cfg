SPECIFICATION FairSpec
CONSTANTS
    Key = {k1}
    Worker = {w1, w2}
    Pools = {{w1}, {w1, w2}}
    Webhook = {h1, h2}
    None = none
    Prefork = TRUE
    FileMaxRetryCount = 1
    MaxExtra = 2
    MaxFaults = 1
    MaxCrashes = 1
INVARIANTS TypeOK CopiesBounded ProcessedHasTranscript RetryCountBounded
INVARIANTS ProcessedIsComplete NoForgottenFile
PROPERTIES KeepsContract ArchiveIsSettled ArchiveIsTranscribed
CHECK_DEADLOCK FALSE
