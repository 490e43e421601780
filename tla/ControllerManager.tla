------------------------- MODULE ControllerManager --------------------------
(* core::ControllerManager with the threads that use it: the control loop    *)
(* steps the active controller; the parameter server's thread asks, through  *)
(* DrivebrainControllerInterface::_request_controller_change, to make        *)
(* another one active. Neither takes a lock. The main thread creates the     *)
(* manager while parameter changes already arrive.                           *)
(*                                                                           *)
(* A controller keeps state of its own, so what it returns is any output. A  *)
(* wheel vector is abstracted to the one wheel whose value decides a check.  *)
EXTENDS Integers

CONSTANTS NumControllers,
          NullControllers,   \* indices whose pointer is null
          Requests,          \* values the parameter controller_index takes
          Values,            \* wheel speeds, pedal travel, set points
          NaN,               \* a float that compares false with everything
          MaxSwitchRpm, MaxTorque, MaxAccel, MaxRpm,  \* the switch limits
          CallbacksEarly     \* parameters may change before the manager exists

(* DrivebrainApp::run builds controller 0 itself.                            *)
ASSUME ManagerAssumption ==
    /\ NumControllers \in Nat \ {0}
    /\ NullControllers \subseteq 1..(NumControllers - 1)
    /\ Requests \subseteq Int
    /\ 0 \in Values /\ Values \subseteq Int /\ NaN \notin Int
    /\ MaxSwitchRpm \in Int /\ MaxTorque \in Int /\ MaxAccel \in Int /\ MaxRpm \in Int
    /\ CallbacksEarly \in BOOLEAN

Index  == 0..(NumControllers - 1)
Floats == Values \cup {NaN}
None   == -1

VehicleState == [rpm : Floats, accel : Floats]
Output == [kind : {"speed"}, rpm : Floats, torque : Floats]
     \cup [kind : {"torque"}, rpm : {0}, torque : Floats]
     \cup [kind : {"none"}, rpm : {0}, torque : {0}]
NoOutput == [kind |-> "none", rpm |-> 0, torque |-> 0]
Still    == [rpm |-> 0, accel |-> 0]

Status == {"UNINITIALISED", "NO_ERROR", "CONTROLLER_INDEX_OUT_OF_RANGE",
           "SPEED_TOO_HIGH", "TORQUE_TOO_HIGH", "DRIVER_ON_PEDAL",
           "CONTROLLER_NO_TORQUE_OR_SPEED_OUTPUT", "OUTPUT_EXCEEDS_PHYS_LIMITS",
           "REQUESTING_SAME_CTR_TYPE", "NULLPTR_CONTROLLER"}

VARIABLES
    phase,      \* main thread: "boot", "created", "running"
    active,     \* _current_controller_index
    status,     \* _current_ctr_manager_state.current_status
    loop,       \* where the control loop is
    stepping,   \* the controller each thread is inside, or None
    request,    \* where the parameter server's thread is
    wanted,     \* the controller_index of the parameter map
    input,      \* the vehicle state the request evaluates
    nextOut,    \* what the requested controller returned
    prevOut,    \* history: what the active controller returned to a request
    touched,    \* history: the controllers this request has stepped
    tracked     \* history: the last request began after init()

threads == <<phase, loop>>
locals  == <<input, nextOut, prevOut, touched>>
vars    == <<threads, active, status, stepping, request, wanted, locals, tracked>>

Init ==
    /\ phase = "boot"
    /\ active = 0
    /\ status = "UNINITIALISED"
    /\ loop = "idle"
    /\ stepping = [t \in {"loop", "request"} |-> None]
    /\ request = "idle"
    /\ wanted \in Requests
    /\ input = Still /\ nextOut = NoOutput /\ prevOut = NoOutput /\ touched = {}
    /\ tracked = FALSE

-----------------------------------------------------------------------------
(* DrivebrainApp::run: create the manager, init() it, start the loop.        *)
Create ==
    /\ phase = "boot"
    /\ phase' = "created"
    /\ UNCHANGED <<loop, active, status, stepping, request, wanted, locals, tracked>>

(* init() succeeds unless max_accel_switch_float is above 1; run() throws    *)
(* then, and nothing follows.                                                *)
InitManager ==
    /\ phase = "created"
    /\ phase' = "running"
    /\ status' = "NO_ERROR"
    /\ UNCHANGED <<loop, active, stepping, request, wanted, locals, tracked>>

-----------------------------------------------------------------------------
(* step_active_controller reads the active index for its null check and      *)
(* again for the call.                                                       *)
LoopChecks ==
    /\ phase = "running" /\ loop = "idle"
    /\ IF active \in NullControllers
         THEN status' = "NULLPTR_CONTROLLER" /\ UNCHANGED loop
         ELSE loop' = "checked" /\ UNCHANGED status
    /\ UNCHANGED <<phase, active, stepping, request, wanted, locals, tracked>>

LoopSteps ==
    /\ loop = "checked"
    /\ stepping' = [stepping EXCEPT !["loop"] = active]
    /\ loop' = "stepping"
    /\ UNCHANGED <<phase, active, status, request, wanted, locals, tracked>>

LoopReturns ==
    /\ loop = "stepping"
    /\ stepping' = [stepping EXCEPT !["loop"] = None]
    /\ loop' = "idle"
    /\ UNCHANGED <<phase, active, status, request, wanted, locals, tracked>>

-----------------------------------------------------------------------------
(* _can_switch_controller. A NaN is above nothing.                           *)
Above(x, max)    == x # NaN /\ x > max
(* Mutant: the sign is kept.                                                 *)
AboveSigned(x, max) == x # NaN /\ x > max
AboveAbs(x, max) == x # NaN /\ (x > max \/ -x > max)

VerifyControllerOutput(out) ==
    CASE out.kind = "speed" /\ AboveAbs(out.rpm, MaxRpm)  -> "OUTPUT_EXCEEDS_PHYS_LIMITS"
      [] out.kind = "speed" /\ ~AboveAbs(out.rpm, MaxRpm) /\ Above(out.torque, MaxTorque)
                                                          -> "TORQUE_TOO_HIGH"
      [] out.kind = "torque" /\ Above(out.torque, MaxTorque) -> "TORQUE_TOO_HIGH"
      [] out.kind = "none"                     -> "CONTROLLER_NO_TORQUE_OR_SPEED_OUTPUT"
      [] OTHER                                 -> "NO_ERROR"

CanSwitchController(state, previous, next) ==
    LET prevStatus == VerifyControllerOutput(previous)
        nextStatus == VerifyControllerOutput(next)
    IN  IF AboveAbs(state.rpm, MaxSwitchRpm)  THEN "SPEED_TOO_HIGH"
        ELSE IF Above(state.accel, MaxAccel)  THEN "DRIVER_ON_PEDAL"
        ELSE IF nextStatus # "NO_ERROR"       THEN nextStatus
        ELSE prevStatus

(* A parameter change: controller_index has some value, and the callback of  *)
(* DrivebrainControllerInterface runs whichever parameter it was. instance() *)
(* asserts that the manager exists.                                          *)
ParameterChanges ==
    /\ request = "idle"
    /\ CallbacksEarly \/ phase # "boot"
    /\ wanted' \in Requests
    /\ request' = IF phase = "boot" THEN "asserted" ELSE "requested"
    /\ tracked' = (phase = "running")
    /\ UNCHANGED <<threads, active, status, stepping, locals>>

(* Mutant: the null check is dropped.                                        *)
SwitchableNull(w) == w \in Index \ {active}

(* The bounds and null checks of swap_active_controller, and what it sets    *)
(* the status to when one of them fails. Mutant: the status is left clean.   *)
Switchable(w) == w \in Index \ (NullControllers \cup {active})

RejectedCleanly(w) == "NO_ERROR"
Rejection(w) == IF w \notin Index THEN "CONTROLLER_INDEX_OUT_OF_RANGE"
                ELSE "NULLPTR_CONTROLLER"

(* The early returns of _request_controller_change.                          *)
IgnoreRequest ==
    /\ request = "requested"
    /\ wanted = active \/ wanted < 0
    /\ request' = "idle"
    /\ UNCHANGED <<threads, active, status, stepping, wanted, locals, tracked>>

(* swap_active_controller with the state the tracker returned, which is used *)
(* whether it is valid or not.                                               *)
RejectAtOnce ==
    /\ request = "requested"
    /\ wanted # active /\ wanted >= 0
    /\ ~Switchable(wanted)
    /\ status' = Rejection(wanted)
    /\ request' = "idle"
    /\ UNCHANGED <<threads, active, stepping, wanted, locals, tracked>>

StepRequested ==
    /\ request = "requested"
    /\ Switchable(wanted)
    /\ input' \in VehicleState
    /\ stepping' = [stepping EXCEPT !["request"] = wanted]
    /\ touched' = {wanted}
    /\ request' = "stepping_next"
    /\ UNCHANGED <<threads, active, status, wanted, nextOut, prevOut, tracked>>

StepActive ==
    /\ request = "stepping_next"
    /\ nextOut' \in Output
    /\ stepping' = [stepping EXCEPT !["request"] = active]
    /\ touched' = touched \cup {active}
    /\ request' = "stepping_active"
    /\ UNCHANGED <<threads, active, status, wanted, input, prevOut, tracked>>

(* Both outputs are known: decide, and install the new index or not. The     *)
(* state and the outputs end with swap_active_controller.                    *)
Decide ==
    /\ request = "stepping_active"
    /\ \E previous \in Output :
          LET decision == CanSwitchController(input, previous, nextOut) IN
          /\ prevOut' = previous
          /\ status' = decision
          /\ IF decision = "NO_ERROR"
               THEN active' = wanted
               ELSE UNCHANGED active
    /\ stepping' = [stepping EXCEPT !["request"] = None]
    /\ input' = Still /\ nextOut' = NoOutput
    /\ request' = "returned"
    /\ UNCHANGED <<threads, wanted, touched, tracked>>

(* _request_controller_change only logs what swap_active_controller returned.*)
RequestReturns ==
    /\ request = "returned"
    /\ request' = "idle"
    /\ prevOut' = NoOutput /\ touched' = {}
    /\ UNCHANGED <<threads, active, status, stepping, wanted, input, nextOut, tracked>>

-----------------------------------------------------------------------------
Main    == Create \/ InitManager
Loop    == LoopChecks \/ LoopSteps \/ LoopReturns
Request == \/ ParameterChanges \/ IgnoreRequest \/ RejectAtOnce
           \/ StepRequested \/ StepActive \/ Decide \/ RequestReturns

Next == Main \/ Loop \/ Request

Spec == Init /\ [][Next]_vars

-----------------------------------------------------------------------------
(* Every variable keeps its type.                                            *)
TypeOK ==
    /\ phase \in {"boot", "created", "running"}
    /\ active \in Index
    /\ status \in Status
    /\ loop \in {"idle", "checked", "stepping"}
    /\ stepping \in [{"loop", "request"} -> Index \cup {None}]
    /\ request \in {"idle", "asserted", "requested", "stepping_next",
                    "stepping_active", "returned"}
    /\ wanted \in Int
    /\ input \in VehicleState
    /\ nextOut \in Output
    /\ prevOut \in Output
    /\ touched \subseteq Index
    /\ tracked \in BOOLEAN

(* No thread ever calls through a null controller pointer, although the loop *)
(* reads the index again after its check and swap_active_controller does not *)
(* check the controller that is active.                                      *)
NeverStepsNull == \A t \in DOMAIN stepping : stepping[t] \notin NullControllers

(* What an output must keep to: a speed controller its set points, whatever  *)
(* their sign, and its torque limits, a torque controller its torques. A NaN *)
(* is above no limit, so nothing is said of one.                             *)
Within(out) ==
    /\ out.kind # "none"
    /\ out.torque = NaN \/ out.torque <= MaxTorque
    /\ out.kind = "speed" => out.rpm \in {NaN} \cup (-MaxRpm)..MaxRpm

(* The active controller changes only at the end of a request, to a non-null *)
(* controller it asked for, and only if the vehicle state it evaluated had   *)
(* no wheel above the switch speed and no pedal above the limit, and what    *)
(* the new controller and the one it replaces return for that state is       *)
(* within the limits of its kind.                                            *)
SwitchIsSafe ==
    [][active' # active =>
          /\ active' = wanted /\ active' \in Index \ NullControllers
          /\ input.rpm \in {NaN} \cup (-MaxSwitchRpm)..MaxSwitchRpm
          /\ input.accel = NaN \/ input.accel <= MaxAccel
          /\ Within(nextOut) /\ Within(prevOut')]_<<active, wanted>>

(* Once a request that began after init() has been handled, a status of      *)
(* NO_ERROR means that the controller the parameter names is the active one. *)
StatusIsHonest ==
    tracked /\ request \in {"idle", "returned"} /\ status = "NO_ERROR" /\ wanted >= 0
        => active = wanted

(* The README wants estimators and controllers in one loop, so that there is *)
(* no need to worry about threading: no controller is stepped by two threads *)
(* at once.                                                                  *)
NoConcurrentStep == stepping["loop"] # None => stepping["loop"] # stepping["request"]

(* The README: the manager does not affect the output of any controller. A   *)
(* switch that was rejected leaves every controller as it was.               *)
RejectedSwitchTouchesNothing ==
    request = "returned" /\ status # "NO_ERROR" => touched = {}

(* The assertion of instance(): the manager exists when it is asked for.     *)
ManagerExists == request # "asserted"
=============================================================================
