SPECIFICATION Spec
CONSTANTS
    Params <- OneOfEachType
    InitialValue <- FileValues
    ClientNames <- SetNames
    Sent <- SentValues
    IntSize = 4
    MaxChanges = 3
INVARIANT RecordingShowsParameters
CHECK_DEADLOCK FALSE
