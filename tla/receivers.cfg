SPECIFICATION LiveSpec
CONSTANTS
    Ports <- OnePort
    MaxArrivals = 2
    MaxErrors = 1
    MaxStarts = 2
INVARIANTS SourcesInOrder IoLogsInStateOrder
PROPERTIES OthersErrorsHarmless CloseReturns ClosedIsQuiet
CHECK_DEADLOCK FALSE
