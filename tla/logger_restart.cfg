SPECIFICATION Spec
CONSTANTS
    Loggers = {l1}
    OldRecordings <- OneEarlierBoot
    MaxInt = 2147483647
    ListingMayFail = FALSE
    CanDestroy = FALSE
    MaxMsgs = 2
    MaxSessions = 2
INVARIANT LoggingMeansWriterAlive
CHECK_DEADLOCK FALSE
