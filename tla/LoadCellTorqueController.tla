---------------------- MODULE LoadCellTorqueController ----------------------
(* control::LoadCellTorqueController and its configuration: init() on the    *)
(* main thread, _handle_param_updates as a callback of the parameter server  *)
(* (module FoxgloveServer, which this one extends), and step_controller on   *)
(* the control loop. The lock is taken for each field, not for the whole.    *)
EXTENDS FoxgloveServer, Sequences

CONSTANTS FieldOrder,    \* the fields of the configuration, in code order
          Accels,        \* requested_accel - requested_brake
          LoadVectors,   \* readings of the four load cells
          NaN,           \* 0 divided by 0
          ChangesDuringInit \* clients may change parameters before init() ends

Corners == {"FL", "FR", "RL", "RR"}
Front   == {"FL", "FR"}
Rear    == Corners \ Front
FieldNames == {FieldOrder[k] : k \in DOMAIN FieldOrder}
NumFields  == Len(FieldOrder)

ASSUME ControllerAssumption ==
    /\ FieldOrder \in Seq(Params)
    /\ {"max_torque", "max_regen_torque", "rear_torque_scale", "regen_torque_scale",
        "apply_vectoring_in_regen"} \subseteq FieldNames
    /\ Accels \subseteq Int
    /\ LoadVectors \subseteq [Corners -> Nat]

(* The type init() asks get_param for, and the one the callback asks get_if. *)
InitType(f)   == IF f = "apply_vectoring_in_regen" THEN "bool" ELSE "float"
UpdateType(f) == "float"

(* A field takes the value of its parameter; dt_rate_hz is an int, and what  *)
(* is assigned to it is cut. A float is counted in halves, the int is not.   *)
AsField(f, v) == IF f = "dt_rate_hz" THEN Truncated(v) ELSE v

VARIABLES
    config,      \* _config
    init,        \* init(): the next field to read, then where it is
    opts,        \* the values init() has read
    turn,        \* _handle_param_updates: the next field
    before,      \* history: _config when the running callback began
    loop,        \* the control loop: idle or holding cur_config
    curConfig,   \* cur_config of step_controller
    output       \* what step_controller returned last

controllerVars == <<config, init, opts, turn, before, loop, curConfig, output>>
vars == <<serverVars, controllerVars>>

NoConfig == [f \in FieldNames |-> 0]      \* config{}
NoStep   == [accel |-> 0, loads |-> [c \in Corners |-> 0], rpm |-> 0,
             torque |-> [c \in Corners |-> 0]]

Init ==
    /\ ServerInit
    /\ config = NoConfig /\ opts = NoConfig /\ before = NoConfig /\ curConfig = NoConfig
    /\ init = 1
    /\ turn = NumFields + 1
    /\ loop = "idle"
    /\ output = NoStep

Registered  == init = NumFields + 3
Initialised == init \in {NumFields + 3, NumFields + 4}

-----------------------------------------------------------------------------
(* init(): one locked get_param per field; with all of them loaded the       *)
(* configuration is set and the callback registered. A parameter of another  *)
(* type is missing; DrivebrainApp only logs that init() failed.              *)
InitReads ==
    /\ init <= NumFields
    /\ LET f == FieldOrder[init] IN
       IF Holds(f, InitType(f))
         THEN opts' = [opts EXCEPT ![f] = params[f].val] /\ init' = init + 1
         ELSE init' = NumFields + 4 /\ UNCHANGED opts
    /\ UNCHANGED <<serverVars, config, turn, before, loop, curConfig, output>>

InitSetsConfig ==
    /\ init = NumFields + 1
    /\ config' = [f \in FieldNames |-> AsField(f, opts[f])]
    /\ init' = NumFields + 2
    /\ UNCHANGED <<serverVars, opts, turn, before, loop, curConfig, output>>

InitRegisters ==
    /\ init = NumFields + 2
    /\ init' = NumFields + 3
    /\ UNCHANGED <<serverVars, config, opts, turn, before, loop, curConfig, output>>

-----------------------------------------------------------------------------
(* The parameter server; the signal runs the callback if it is registered.   *)
ServerApplies ==
    /\ ChangesDuringInit \/ Initialised
    /\ ApplyChanges
    /\ UNCHANGED controllerVars

(* Mutant: the first field is skipped.                                       *)
SecondField == IF Registered THEN 2 ELSE turn
FirstField  == IF Registered THEN 1 ELSE turn

ServerLogs ==
    /\ LogAllParams
    /\ turn' = FirstField
    /\ before' = config
    /\ UNCHANGED <<config, init, opts, loop, curConfig, output>>

UpdateField ==
    /\ handler = "signalling" /\ turn <= NumFields
    /\ LET f == FieldOrder[turn] IN
       config' = IF copy[f].type = UpdateType(f)
                 THEN [config EXCEPT ![f] = AsField(f, copy[f].val)] ELSE config
    /\ turn' = turn + 1
    /\ UNCHANGED <<serverVars, init, opts, before, loop, curConfig, output>>

ServerReturns ==
    /\ turn = NumFields + 1
    /\ SignalReturns
    /\ UNCHANGED controllerVars

-----------------------------------------------------------------------------
(* The control loop starts after init(). step_controller: copy the           *)
(* configuration under the lock, then compute.                               *)
CopyConfig ==
    /\ Initialised /\ loop = "idle"
    /\ curConfig' = config
    /\ loop' = "stepping"
    /\ UNCHANGED <<serverVars, config, init, opts, turn, before, output>>

(* A scale is counted in halves, so 2.0 - rear_torque_scale is 4 - scale.    *)
(* Mutant: the axles are swapped.                                            *)
AxlesSwapped(cfg, c) ==
    IF c \in Front THEN cfg["rear_torque_scale"] ELSE 4 - cfg["rear_torque_scale"]
AxleScale(cfg, c) ==
    IF c \in Rear THEN cfg["rear_torque_scale"] ELSE 4 - cfg["rear_torque_scale"]

SumNormal(loads) == loads["FL"] + loads["FR"] + loads["RL"] + loads["RR"]

(* The share of a wheel is its load over sum_normal; torques are counted in  *)
(* parts of sum_normal, so the share is the load, unless the sum is 0.       *)
Shared(torque, loads, c) == IF SumNormal(loads) = 0 THEN NaN ELSE torque * loads[c]

TorqueLimit(cfg, accel, loads, c) ==
    LET drive == accel * cfg["max_torque"] * 4
        regen == accel * cfg["max_regen_torque"] * 4
        even  == accel * cfg["max_regen_torque"]
    IN  IF accel >= 0 THEN Shared(AxleScale(cfg, c) * drive, loads, c)
        ELSE IF cfg["apply_vectoring_in_regen"] # 0
             THEN Shared(regen * AxleScale(cfg, c), loads, c)
             ELSE even * AxleScale(cfg, c)

StepController ==
    /\ loop = "stepping"
    /\ \E accel \in Accels, loads \in LoadVectors :
          output' = [accel  |-> accel, loads |-> loads,
                     rpm    |-> IF accel >= 0 THEN 20000 ELSE 0,
                     torque |-> [c \in Corners |-> TorqueLimit(curConfig, accel, loads, c)]]
    /\ loop' = "idle"
    /\ UNCHANGED <<serverVars, config, init, opts, turn, before, curConfig>>

-----------------------------------------------------------------------------
Startup == InitReads \/ InitSetsConfig \/ InitRegisters
Server  == ServerApplies \/ ServerLogs \/ UpdateField \/ ServerReturns
Loop    == CopyConfig \/ StepController

Next == Startup \/ Server \/ Loop

Spec == Init /\ [][Next]_vars

-----------------------------------------------------------------------------
(* Every variable keeps its type: a torque is a number, or 0 divided by 0.   *)
Steps == [accel : Int, loads : [Corners -> Nat], rpm : {0, 20000},
          torque : [Corners -> Int \cup {NaN}]]

TypeOK ==
    /\ ServerTypeOK
    /\ config \in [FieldNames -> Int] /\ opts \in [FieldNames -> Int]
    /\ before \in [FieldNames -> Int] /\ curConfig \in [FieldNames -> Int]
    /\ init \in 1..(NumFields + 4)
    /\ turn \in 1..(NumFields + 1)
    /\ loop \in {"idle", "stepping"}
    /\ output \in Steps

Follows(f) == Registered /\ handler = "idle" => config[f] = AsField(f, params[f].val)

(* Whenever the server is not handling a change, each field of the active    *)
(* controller whose parameter is a float is what a client last set, cut if   *)
(* the field is an int.                                                      *)
FloatsFollowParameters == \A f \in FieldNames : InitType(f) = "float" => Follows(f)

(* The README: a controller handles re-configuration at runtime, in every    *)
(* field of its configuration.                                               *)
EveryFieldFollowsParameters == \A f \in FieldNames : Follows(f)

(* The README: the manager handles when the configuration of the active      *)
(* controller gets updated, so a step sees one setting, not half of a change.*)
StepSeesOneSetting ==
    [][loop = "idle" /\ loop' = "stepping" /\ turn <= NumFields =>
          \/ curConfig' = before
          \/ \A f \in FieldNames :
                copy[f].type = UpdateType(f) =>
                    curConfig'[f] = AsField(f, copy[f].val)]_<<loop, curConfig>>

(* rear_torque_scale: 0 drives the front wheels only, 2 the rear only.       *)
RearScaleSplitsDrive ==
    output.accel > 0 /\ loop = "idle" /\ SumNormal(output.loads) > 0 =>
        /\ curConfig["rear_torque_scale"] = 0 => \A c \in Rear  : output.torque[c] = 0
        /\ curConfig["rear_torque_scale"] = 4 => \A c \in Front : output.torque[c] = 0
        /\ curConfig["rear_torque_scale"] = 2 =>
              SumNormal(output.torque) =
                  8 * output.accel * curConfig["max_torque"] * SumNormal(output.loads)
=============================================================================
