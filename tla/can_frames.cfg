SPECIFICATION LiveSpec
CONSTANTS
    Dbc <- CarDbc
    Protos = {1, 3, 4}
    Numbers = {0, 1}
    FrameIds = {1, 2, 9}
    SendIds = {1}
    TxLen = 1
    MaxFrames = 2
    MaxSends = 2
INVARIANTS HandledInOrder EncodingKeepsFields
PROPERTY EveryFrameHandled
CHECK_DEADLOCK FALSE
