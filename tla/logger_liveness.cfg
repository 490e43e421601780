SPECIFICATION LiveSpec
CONSTANTS
    Loggers = {l1, l2}
    OldRecordings <- OneEarlierBoot
    MaxInt = 2147483647
    ListingMayFail = FALSE
    CanDestroy = FALSE
    MaxMsgs = 2
    MaxSessions = 2
PROPERTIES AcceptedIsWritten StopReturns
CHECK_DEADLOCK FALSE
