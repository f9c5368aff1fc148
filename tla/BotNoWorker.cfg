SPECIFICATION FairSpec
CONSTANTS
    Bot = {b1}
    TaskId = {t1, t2}
    Syncer = {s1}
    Cron = cron
    None = none
    Providers <- ShippedProviders
    Production = TRUE
    MeetingBotRetryCount = 1
    MaxFaults = 0
    MaxCrashes = 0
PROPERTY JobsAreProcessed
CHECK_DEADLOCK FALSE
