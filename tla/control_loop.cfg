SPECIFICATION Spec
CONSTANTS
    Controllers = {mode1, qp}
    First = mode1
    Kinds <- KindsOfEach
    NoController = NoController
    TxLen = 2
    MaxTicks = 3
    MaxSwitches = 1
    DbcFiles <- TwoFiles
    MaxLosses = 1
    MaxErrors = 1
INVARIANTS TypeOK OnlyLossesSplitPairs OutputEndsWithState NewControllerCommands CommandsAreRecorded
PROPERTY ImplementsDriveCommands
CHECK_DEADLOCK FALSE
