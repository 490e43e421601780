---------------------------- MODULE StateTracker ----------------------------
(* core::StateTracker: the receive path that the CAN, Ethernet and VectorNav *)
(* threads call, and get_latest_state_and_validity, which the control loop   *)
(* and the parameter server's thread (a controller switch) call.             *)
(*                                                                           *)
(* A value is abstracted to the message that brought it and, for a stamped   *)
(* one, the time it was handled. get_latest_state_and_validity takes the lock twice, once to copy *)
(* the time stamps and once to copy the state; it judges in between.         *)
EXTENDS Integers

CONSTANTS MessageTypes,   \* the message types that arrive
          Readers,        \* threads that call get_latest_state_and_validity
          Threshold,      \* the 500 ms of _validate_timestamps
          InitialStamps,  \* what the uninitialised _timestamp_array may hold
          MaxTime         \* bound: the clock

Corners == {"FL", "FR", "RL", "RR"}
Inverters == 1..4

(* The four stamped types, in the order of their index in _timestamp_array.  *)
StampedTypes == {<<"rear_suspension", 0>>, <<"front_suspension", 0>>,
                 <<"pedals_system_data", 0>>, <<"steering_data", 0>>}
InverterTypes == {"inv_dynamics", "inv_temps", "inv_overload"} \X Inverters
OtherTypes == {"em_measurement", "inv1_status", "VNData", "VCRData_s", "ACUAllData"} \X {0}
AllTypes == StampedTypes \cup InverterTypes \cup OtherTypes

ASSUME TrackerAssumption ==
    /\ MessageTypes \subseteq AllTypes
    /\ Threshold \in Nat
    /\ InitialStamps \subseteq Int
    /\ MaxTime \in Nat \ {0}

(* Mutant: the vector runs round the vehicle.                                *)
SetRoundTheVehicle(ind) ==
    CASE ind = 0 -> "FL" [] ind = 1 -> "FR" [] ind = 2 -> "RR" [] OTHER -> "RL"

(* The corner that veh_vec::set_from_index<ind> sets.                        *)
SetFromIndex(ind) ==
    CASE ind = 0 -> "FL" [] ind = 1 -> "FR" [] ind = 2 -> "RL" [] OTHER -> "RR"

(* The corner that the handlers of one inverter's temperatures and overload  *)
(* name.                                                                     *)
NamedCorner(inverter) ==
    CASE inverter = 1 -> "FL" [] inverter = 2 -> "FR"
      [] inverter = 3 -> "RL" [] inverter = 4 -> "RR"

(* The fields of VehicleState (a group and a corner, or "all") that a        *)
(* message of each type sets.                                                *)
Fields(type) ==
    CASE type[1] = "rear_suspension"  -> {"loadcells", "shock_pots"} \X {"RL", "RR"}
      [] type[1] = "front_suspension" -> {"loadcells", "shock_pots"} \X {"FL", "FR"}
      [] type[1] = "inv_dynamics"     -> {"rpms", "torques"} \X {SetFromIndex(type[2] - 1)}
      [] type[1] = "inv_temps"        -> {"temps"} \X {NamedCorner(type[2])}
      [] type[1] = "inv_overload"     -> {"overload"} \X {NamedCorner(type[2])}
      [] type[1] = "pedals_system_data" -> {<<"input", "all">>}
      [] type[1] = "steering_data"    -> {<<"steering", "all">>}
      [] type[1] = "em_measurement"   -> {<<"energy_meter", "all">>}
      [] type[1] = "inv1_status"      -> {<<"pack_voltage", "all">>}
      [] type[1] = "VNData"           -> {<<"ins", "all">>}
      [] type[1] = "VCRData_s"        -> {<<"ready_to_drive", "all">>}
      [] type[1] = "ACUAllData"       -> {<<"min_cell_voltage", "all">>}

PrevOutput == <<"prev_controller_output", "all">>

Field == ({"loadcells", "shock_pots", "rpms", "torques", "temps", "overload"} \X Corners)
    \cup ({"input", "steering", "energy_meter", "pack_voltage", "ins",
           "ready_to_drive", "min_cell_voltage"} \X {"all"})
    \cup {PrevOutput}

(* The groups kept a second time in _raw_input_data, which a message updates *)
(* at its corners and then copies over VehicleState at all four.             *)
RawGroups == {"loadcells", "shock_pots", "torques"}
RawField  == RawGroups \X Corners

Unset == [type |-> <<"none", 0>>, at |-> 0]

(* The locals of get_latest_state_and_validity outside a call.               *)
NoStamps == [s \in StampedTypes |-> 0]
Nothing  == [state |-> [f \in Field |-> Unset], valid |-> FALSE]

VARIABLES
    now,           \* high_resolution_clock
    stamps,        \* _timestamp_array
    rawInput,      \* _raw_input_data
    vehicleState,  \* _vehicle_state, except its flag
    stateIsValid,  \* _vehicle_state.state_is_valid
    at,            \* where each reader is
    snapshot,      \* the stamps a reader has copied
    verdict,       \* what _validate_timestamps returned to a reader
    judgedAt,      \* history: the clock when it did
    seen           \* the state and validity a reader was given

received == <<stamps, rawInput, vehicleState>>
readers  == <<at, snapshot, verdict, judgedAt, seen>>
vars     == <<now, received, stateIsValid, readers>>

Init ==
    /\ now = 1
    /\ stamps \in [StampedTypes -> InitialStamps]
    /\ rawInput = [f \in RawField |-> Unset]
    /\ vehicleState = [f \in Field |-> Unset]
    /\ stateIsValid = FALSE
    /\ at = [r \in Readers |-> "idle"]
    /\ snapshot = [r \in Readers |-> NoStamps]
    /\ verdict = [r \in Readers |-> FALSE]
    /\ judgedAt = [r \in Readers |-> 0]
    /\ seen = [r \in Readers |-> Nothing]

Tick == /\ now < MaxTime
        /\ now' = now + 1
        /\ UNCHANGED <<received, stateIsValid, readers>>

-----------------------------------------------------------------------------
(* handle_receive_protobuf_message and the handlers it dispatches to: one    *)
(* critical section per message.                                             *)
Groups(fields) == {f[1] : f \in fields}

(* Mutant: the message is taken for all four corners.                        *)
MergedEverywhere(fields, m) ==
    [f \in RawField |-> IF f[1] \in Groups(fields) THEN m ELSE rawInput[f]]

Merged(fields, m) == [f \in RawField |-> IF f \in fields THEN m ELSE rawInput[f]]

(* What a message leaves in the fields it sets.                              *)
Arrived(type) == [type |-> type, at |-> IF type \in StampedTypes THEN now ELSE 0]

Receive(type) ==
    LET m      == Arrived(type)
        fields == Fields(type)
        copied == RawGroups \cap Groups(fields)
    IN
    /\ stamps' = IF type \in StampedTypes THEN [stamps EXCEPT ![type] = now] ELSE stamps
    /\ rawInput' = Merged(fields, m)
    /\ vehicleState' = [f \in Field |->
          IF f[1] \in copied THEN rawInput'[f]
          ELSE IF f \in fields THEN m
          ELSE vehicleState[f]]
    /\ UNCHANGED <<now, stateIsValid, readers>>

(* What a call keeps in its locals ends with it.                             *)
Forget(r) ==
    /\ at' = [at EXCEPT ![r] = "idle"]
    /\ judgedAt' = [judgedAt EXCEPT ![r] = 0]
    /\ seen' = [seen EXCEPT ![r] = Nothing]

(* set_previous_control_output, which the control loop calls once it has     *)
(* stepped the controller on what it was given.                              *)
SetPreviousControlOutput(r) ==
    /\ at[r] = "returned"
    /\ vehicleState' = [vehicleState EXCEPT ![PrevOutput] =
                           [type |-> <<"controller", 0>>, at |-> 0]]
    /\ Forget(r)
    /\ UNCHANGED <<now, stamps, rawInput, stateIsValid, snapshot, verdict>>

(* The other caller, a controller switch, stores nothing back.               *)
ReaderForgets(r) ==
    /\ at[r] = "returned"
    /\ Forget(r)
    /\ UNCHANGED <<now, received, stateIsValid, snapshot, verdict>>

-----------------------------------------------------------------------------
(* _validate_timestamps: the spread of the stamps, the smallest stamp, and   *)
(* the age of the largest.                                                   *)
WithinThreshold(s)    == \A a, b \in StampedTypes : s[a] - s[b] <= Threshold
(* Mutant: one member is enough.                                             *)
AnyMemberReceived(s)  == \E a \in StampedTypes : s[a] > 0
AllMembersReceived(s) == \A a \in StampedTypes : s[a] > 0
RecentEnough(s, time) == \E a \in StampedTypes : /\ \A b \in StampedTypes : s[b] <= s[a]
                                                 /\ time - s[a] < Threshold

ValidStamps(s, time) == WithinThreshold(s) /\ AllMembersReceived(s) /\ RecentEnough(s, time)

CopyStamps(r) ==
    /\ at[r] = "idle"
    /\ snapshot' = [snapshot EXCEPT ![r] = stamps]
    /\ at' = [at EXCEPT ![r] = "copied"]
    /\ UNCHANGED <<now, received, stateIsValid, verdict, judgedAt, seen>>

ValidateTimestamps(r) ==
    /\ at[r] = "copied"
    /\ verdict' = [verdict EXCEPT ![r] = ValidStamps(snapshot[r], now)]
    /\ judgedAt' = [judgedAt EXCEPT ![r] = now]
    /\ snapshot' = [snapshot EXCEPT ![r] = NoStamps]
    /\ at' = [at EXCEPT ![r] = "judged"]
    /\ UNCHANGED <<now, received, stateIsValid, seen>>

ReturnLatestState(r) ==
    /\ at[r] = "judged"
    /\ stateIsValid' = verdict[r]
    /\ seen' = [seen EXCEPT ![r] = [state |-> vehicleState, valid |-> verdict[r]]]
    /\ verdict' = [verdict EXCEPT ![r] = FALSE]
    /\ at' = [at EXCEPT ![r] = "returned"]
    /\ UNCHANGED <<now, received, snapshot, judgedAt>>

Read(r) == \/ CopyStamps(r) \/ ValidateTimestamps(r) \/ ReturnLatestState(r)
           \/ SetPreviousControlOutput(r) \/ ReaderForgets(r)

Next == \/ Tick
        \/ \E type \in MessageTypes : Receive(type)
        \/ \E r \in Readers : Read(r)

Spec == Init /\ [][Next]_vars

-----------------------------------------------------------------------------
(* Every variable keeps its type: what a stamped message brought has a time, *)
(* and nothing else has.                                                     *)
Value ==
    [type : StampedTypes, at : 1..MaxTime] \cup
    [type : (AllTypes \ StampedTypes) \cup {<<"none", 0>>, <<"controller", 0>>}, at : {0}]

TypeOK ==
    /\ now \in Nat \ {0}
    /\ stamps \in [StampedTypes -> Int]
    /\ rawInput \in [RawField -> Value]
    /\ vehicleState \in [Field -> Value]
    /\ stateIsValid \in BOOLEAN
    /\ at \in [Readers -> {"idle", "copied", "judged", "returned"}]
    /\ snapshot \in [Readers -> [StampedTypes -> Int]]
    /\ verdict \in [Readers -> BOOLEAN]
    /\ judgedAt \in [Readers -> Nat]
    /\ seen \in [Readers -> [state : [Field -> Value], valid : BOOLEAN]]

(* A stamp dates the data it stands for: each field that a stamped message   *)
(* sets holds the value handled at that stamp, although two messages share   *)
(* the load-cell and shock-pot vectors and each copies all four corners.     *)
StampDatesData ==
    \A s \in MessageTypes \cap StampedTypes : \A f \in Fields(s) :
        vehicleState[f] # Unset => vehicleState[f].at = stamps[s]

(* What a reader is given as valid is data of all four stamped types, none   *)
(* of it two thresholds old when it was judged: messages handled between the *)
(* two locked sections can only make it newer.                               *)
ValidStateIsRecent ==
    \A r \in Readers : at[r] = "returned" /\ seen[r].valid =>
        \A s \in StampedTypes : \A f \in Fields(s) :
            /\ seen[r].state[f] # Unset
            /\ judgedAt[r] - seen[r].state[f].at < 2 * Threshold

(* At each corner the wheel speed, torque, temperatures and overload come    *)
(* from one inverter, although some handlers index the vector and others     *)
(* name the corner.                                                          *)
CornerIsOneInverter ==
    \A c \in Corners : \A g, h \in {"rpms", "torques", "temps", "overload"} :
        LET x == vehicleState[<<g, c>>]
            y == vehicleState[<<h, c>>]
        IN  x # Unset /\ y # Unset => x.type[2] = y.type[2]

(* The name all_members_received in _validate_timestamps: a valid state has  *)
(* heard from every member.                                                  *)
ValidMeansAllReceived ==
    \A r \in Readers : at[r] = "returned" /\ seen[r].valid =>
        \A s \in StampedTypes : \A f \in Fields(s) : seen[r].state[f] # Unset

(* The README's input timing requirement: the inputs of a controller must    *)
(* keep coming in, so a valid state has wheel speeds at all.                 *)
ValidMeansWheelSpeeds ==
    \A r \in Readers : at[r] = "returned" /\ seen[r].valid =>
        \A c \in Corners : seen[r].state[<<"rpms", c>>] # Unset
=============================================================================
