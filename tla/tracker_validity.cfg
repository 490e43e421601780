SPECIFICATION Spec
CONSTANTS
    MessageTypes <- StampedAndInverters
    Readers = {loop}
    Threshold = 1
    InitialStamps = {0}
    MaxTime = 3
INVARIANTS StampDatesData ValidStateIsRecent CornerIsOneInverter
CHECK_DEADLOCK FALSE
