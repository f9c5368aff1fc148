SPECIFICATION Spec
CONSTANTS
    Bot = {b1}
    TaskId = {t1, t2, t3}
    Syncer = {s1, s2}
    Cron = cron
    None = none
    Providers <- RetryProviders
    Production = TRUE
    MeetingBotRetryCount = 1
    MaxFaults = 1
    MaxCrashes = 1
SYMMETRY Symmetric
INVARIANTS TypeOK RowNamesOwnTask ArchiveIsOfRecordedTask VerdictMatchesTask LiveTaskIsTracked LaunchBudget RetryBudget AtMostOneLiveTask
PROPERTY EndedStaysEnded
CHECK_DEADLOCK FALSE
