SPECIFICATION Spec
CONSTANTS
    NumControllers = 3
    NullControllers = {2}
    Requests <- EveryRequest
    Values <- AroundTheLimit
    NaN = NaN
    MaxSwitchRpm = 1
    MaxTorque = 1
    MaxAccel = 1
    MaxRpm = 1
    CallbacksEarly = FALSE
INVARIANTS NeverStepsNull StatusIsHonest
PROPERTY SwitchIsSafe
