SPECIFICATION AppLiveSpec
CONSTANTS
    Period = 2
    MaxTick = 5
    MaxLate = 3
    MayThrow = {"logger", "foxglove", "drivers", "telem", "aux", "controllers", "manager"}
INVARIANTS ThreadsFindSingletons
PROPERTIES TicksAreSpaced StopJoinsThreads
CHECK_DEADLOCK FALSE
