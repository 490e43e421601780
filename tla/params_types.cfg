SPECIFICATION Spec
CONSTANTS
    Params <- OneOfEachType
    InitialValue <- FileValues
    ClientNames <- SetNames
    Sent <- SentValues
    IntSize = 4
    MaxChanges = 3
INVARIANTS TypesNeverChange SentBackIsUnchanged LoggingFollowsParameter  RequestIsDecided
CHECK_DEADLOCK FALSE
