SPECIFICATION FairSpec
CONSTANTS
    Bot = {b1}
    TaskId = {t1, t2}
    Syncer = {s1}
    Cron = cron
    None = none
    Providers <- RetryProviders
    Production = TRUE
    MeetingBotRetryCount = 1
    MaxFaults = 1
    MaxCrashes = 1
PROPERTIES JobsAreProcessed SyncNoticesTheEnd CompletedIsTranscribed
CHECK_DEADLOCK FALSE
