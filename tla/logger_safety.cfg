SPECIFICATION Spec
CONSTANTS
    Loggers = {l1, l2}
    OldRecordings <- OneEarlierBoot
    MaxInt = 2147483647
    ListingMayFail = FALSE
    CanDestroy = TRUE
    MaxMsgs = 3
    MaxSessions = 2
SYMMETRY LoggerSymmetry
INVARIANTS TypeOK NothingLost WriterHasFileToItself ConfigRecorded StopDrains
PROPERTIES NewRecordingIsNew ImplementsMessageLog
CHECK_DEADLOCK FALSE
