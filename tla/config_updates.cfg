SPECIFICATION Spec
CONSTANTS
    Params <- FileNames
    InitialValue <- FileValues
    ClientNames = {"max_torque", "rear_torque_scale", "dt_rate_hz"}
    Sent <- SentScales
    IntSize = 4
    FieldOrder <- CodeOrder
    Accels <- Pedals
    LoadVectors <- LoadCells
    NaN = NaN
    ChangesDuringInit = FALSE
INVARIANTS FloatsFollowParameters RearScaleSplitsDrive
