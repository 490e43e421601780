------------------- MODULE LoadCellTorqueController_proofs ------------------
(* Proofs about LoadCellTorqueController for any fields, any values a client *)
(* sends, any pedal position and any load-cell readings.                     *)
EXTENDS LoadCellTorqueController, TLAPS

(* What step_controller last returned was computed from the configuration it *)
(* had copied.                                                               *)
OutputIsComputed ==
    loop = "idle" /\ output.accel > 0 =>
        \A c \in Corners : output.torque[c] = TorqueLimit(curConfig, output.accel, output.loads, c)

(* The inductive invariant, whenever parameters are changed.                 *)
IInv == TypeOK /\ OutputIsComputed

(* What init() has read is still in force if nothing changes before it ends, *)
(* and the callback is registered only if every field had its type.          *)
Loaded(f) == opts[f] = params[f].val /\ params[f].type = InitType(f)

InitLoads ==
    /\ copy = params
    /\ ~Initialised => handler = "idle"
    /\ init <= NumFields + 2 => \A k \in 1..NumFields : k < init => Loaded(FieldOrder[k])
    /\ init = NumFields + 2 => \A f \in FieldNames : config[f] = AsField(f, opts[f])
    /\ Registered => \A f \in FieldNames : params[f].type = InitType(f)

(* The fields that the running callback has passed follow the parameters.    *)
PassedFollow ==
    Registered /\ handler = "signalling" =>
        \A k \in 1..NumFields : k < turn /\ InitType(FieldOrder[k]) = "float" =>
            config[FieldOrder[k]] = AsField(FieldOrder[k], params[FieldOrder[k]].val)

RInv == InitLoads /\ PassedFollow /\ FloatsFollowParameters

(* A configuration cut at the field that the running callback is about to    *)
(* write: new before it, old from it on.                                     *)
Passed(f) == copy[f].type = UpdateType(f) /\ \E k \in 1..NumFields : k < turn /\ FieldOrder[k] = f

CutAtTurn(cfg) ==
    \A f \in FieldNames : cfg[f] = IF Passed(f) THEN AsField(f, copy[f].val) ELSE before[f]

HalfTaken == turn <= NumFields => Registered /\ handler = "signalling" /\ CutAtTurn(config)

-----------------------------------------------------------------------------
LEMMA FieldFacts ==
    ASSUME ControllerAssumption
    PROVE  /\ NumFields \in Nat /\ FieldNames \subseteq Params
           /\ \A k \in 1..NumFields : FieldOrder[k] \in FieldNames
           /\ \A f \in FieldNames : \E k \in 1..NumFields : FieldOrder[k] = f
           /\ {"max_torque", "max_regen_torque", "rear_torque_scale", "regen_torque_scale",
               "apply_vectoring_in_regen"} \subseteq FieldNames
<1>1. FieldOrder \in Seq(Params) /\ DOMAIN FieldOrder = 1 .. Len(FieldOrder)
  BY DEF ControllerAssumption
<1> QED
  BY <1>1 DEF NumFields, FieldNames, ControllerAssumption

(* An assignment to an int field leaves an integer.                          *)
LEMMA FieldIsNumber ==
    ASSUME NEW f, NEW v \in Int
    PROVE  AsField(f, v) \in Int
BY DEF AsField, Truncated

(* A value that is taken has the type of the one it replaces.                *)
LEMMA UpdatedKeepsType ==
    ASSUME ParamAssumption, NEW v \in DBParam, NEW w \in WireParam
    PROVE  Updated(v, w) \in DBParam /\ Updated(v, w).type = v.type
<1>1. CASE ~Convertible(v, w)
  BY <1>1 DEF Updated
<1>2. CASE Convertible(v, w)
  <2>1. PICK c : c = Converted(v, w)
    OBVIOUS
  <2>2. c.type = Wire(v.type) /\ c.val \in Int
    <3>1. Wire("int") = "integer" /\ Wire("float") = "double"
      BY DEF Wire
    <3> QED
      BY <1>2, <2>1, <3>1 DEF Converted, Convertible, Published, Truncated, DBParam, WireParam
  <2>3. DBType(c.type) = v.type /\ v.type \in DBTypes
    BY <2>2 DEF DBParam, DBTypes, Wire, DBType
  <2>4. PICK n \in Int : n = IF c.type = "integer" THEN Narrowed(c.val) ELSE c.val
    <3>1. Narrowed(c.val) \in Int
      BY <2>2 DEF Narrowed, ParamAssumption
    <3> QED
      BY <2>2, <3>1
  <2>5. Updated(v, w) = [type |-> v.type, val |-> n]
    BY <1>2, <2>1, <2>3, <2>4 DEF Updated, Stored
  <2> QED
    BY <2>3, <2>5 DEF DBParam
<1> QED
  BY <1>1, <1>2

LEMMA ApplyKeepsTypes ==
    ASSUME ParamAssumption, ServerTypeOK, ApplyChanges
    PROVE  /\ params' \in [Params -> DBParam]
           /\ \A p \in Params : params'[p].type = params[p].type
<1>1. PICK names \in SUBSET ClientNames : \E incoming \in [names -> Sent] :
          params' = [p \in Params |->
                        IF p \in names THEN Updated(params[p], incoming[p]) ELSE params[p]]
  BY DEF ApplyChanges
<1>2. PICK incoming \in [names -> Sent] :
          params' = [p \in Params |->
                        IF p \in names THEN Updated(params[p], incoming[p]) ELSE params[p]]
  BY <1>1
<1>3. ASSUME NEW p \in Params
      PROVE  params'[p] \in DBParam /\ params'[p].type = params[p].type
  <2>1. params[p] \in DBParam
    BY DEF ServerTypeOK
  <2>2. CASE p \in names
    <3>1. incoming[p] \in WireParam
      BY <2>2 DEF ParamAssumption
    <3>2. params'[p] = Updated(params[p], incoming[p])
      BY <1>2, <2>2
    <3> QED
      BY <2>1, <3>1, <3>2, UpdatedKeepsType
  <2>3. CASE p \notin names
    BY <1>2, <2>1, <2>3
  <2> QED
    BY <2>2, <2>3
<1>4. params' = [p \in Params |-> params'[p]]
  BY <1>2
<1> QED
  BY <1>3, <1>4

(* A wheel's torque is a number, or 0 divided by 0.                          *)
LEMMA TorqueIsNumber ==
    ASSUME ControllerAssumption, NEW cfg \in [FieldNames -> Int], NEW accel \in Int,
           NEW loads \in [Corners -> Nat], NEW c \in Corners
    PROVE  TorqueLimit(cfg, accel, loads, c) \in Int \cup {NaN}
<1>1. /\ cfg["max_torque"] \in Int /\ cfg["max_regen_torque"] \in Int
      /\ cfg["rear_torque_scale"] \in Int /\ loads[c] \in Int
  BY FieldFacts
<1>2. PICK scale \in Int : scale = AxleScale(cfg, c)
  BY <1>1 DEF AxleScale
<1>3. ASSUME NEW t \in Int PROVE Shared(t, loads, c) \in Int \cup {NaN}
  BY <1>1 DEF Shared
<1>4. /\ scale * (accel * cfg["max_torque"] * 4) \in Int
      /\ (accel * cfg["max_regen_torque"] * 4) * scale \in Int
      /\ (accel * cfg["max_regen_torque"]) * scale \in Int
  BY <1>1
<1>5. /\ Shared(scale * (accel * cfg["max_torque"] * 4), loads, c) \in Int \cup {NaN}
      /\ Shared((accel * cfg["max_regen_torque"] * 4) * scale, loads, c) \in Int \cup {NaN}
  BY <1>3, <1>4
<1> QED
  BY <1>2, <1>4, <1>5 DEF TorqueLimit

-----------------------------------------------------------------------------
LEMMA IInvInit ==
    ASSUME ParamAssumption, ControllerAssumption, Init
    PROVE  IInv
<1>1. ServerTypeOK
  BY DEF Init, ServerInit, ServerTypeOK, ParamAssumption
<1>2. NoConfig \in [FieldNames -> Int]
  BY DEF NoConfig
<1>3. NoStep \in Steps
  BY DEF NoStep, Steps
<1>4. init \in 1..(NumFields + 4) /\ turn \in 1..(NumFields + 1)
  BY FieldFacts DEF Init
<1>5. TypeOK
  BY <1>1, <1>2, <1>3, <1>4 DEF Init, TypeOK
<1>6. OutputIsComputed
  BY DEF Init, NoStep, OutputIsComputed
<1> QED
  BY <1>5, <1>6 DEF IInv

LEMMA TypeStep ==
    ASSUME ParamAssumption, ControllerAssumption, TypeOK, Next
    PROVE  TypeOK'
<1>1. /\ ServerTypeOK /\ output \in Steps /\ loop \in {"idle", "stepping"}
      /\ config \in [FieldNames -> Int] /\ opts \in [FieldNames -> Int]
      /\ before \in [FieldNames -> Int] /\ curConfig \in [FieldNames -> Int]
      /\ init \in 1..(NumFields + 4) /\ turn \in 1..(NumFields + 1)
  BY DEF TypeOK
<1>2. SUFFICES /\ ServerTypeOK' /\ output' \in Steps /\ loop' \in {"idle", "stepping"}
               /\ config' \in [FieldNames -> Int] /\ opts' \in [FieldNames -> Int]
               /\ before' \in [FieldNames -> Int] /\ curConfig' \in [FieldNames -> Int]
               /\ init' \in 1..(NumFields + 4) /\ turn' \in 1..(NumFields + 1)
  BY DEF TypeOK
<1>11. NumFields \in Nat /\ \A k \in 1..NumFields : FieldOrder[k] \in FieldNames
  BY FieldFacts
<1>3. CASE ServerApplies
  <2>1. params' \in [Params -> DBParam]
    BY <1>1, <1>3, ApplyKeepsTypes DEF ServerApplies
  <2>2. ServerTypeOK'
    BY <1>1, <1>3, <2>1 DEF ServerApplies, ApplyChanges, ServerTypeOK
  <2>3. /\ config' = config /\ init' = init /\ opts' = opts /\ turn' = turn
        /\ before' = before /\ loop' = loop /\ curConfig' = curConfig /\ output' = output
    BY <1>3 DEF ServerApplies, controllerVars
  <2> QED
    BY <1>1, <2>2, <2>3
<1>4. CASE ServerLogs \/ ServerReturns
  <2>1. ServerTypeOK'
    BY <1>1, <1>4 DEF ServerLogs, LogAllParams, ServerReturns, SignalReturns, ServerTypeOK
  <2>2. /\ config' = config /\ init' = init /\ opts' = opts
        /\ loop' = loop /\ curConfig' = curConfig /\ output' = output
    BY <1>4 DEF ServerLogs, ServerReturns, controllerVars
  <2>3. turn' \in 1..(NumFields + 1)
    <3>1. turn' = 1 \/ turn' = turn
      BY <1>4 DEF ServerLogs, ServerReturns, FirstField, controllerVars
    <3>2. 1 \in 1..(NumFields + 1)
      BY <1>11
    <3>3. turn \in 1..(NumFields + 1)
      BY <1>1
    <3> QED
      BY <3>1, <3>2, <3>3
  <2>4. before' \in [FieldNames -> Int]
    BY <1>1, <1>4 DEF ServerLogs, ServerReturns, controllerVars
  <2> QED
    BY <1>1, <2>1, <2>2, <2>3, <2>4
<1>5. \A f \in FieldNames : params[f].val \in Int /\ copy[f].val \in Int
  <2>1. FieldNames \subseteq Params
    BY FieldFacts
  <2> QED
    BY <1>1, <2>1 DEF ServerTypeOK, DBParam
<1>6. CASE InitReads
  <2>1. init \in 1..NumFields /\ FieldOrder[init] \in FieldNames
    BY <1>1, <1>6, <1>11 DEF InitReads
  <2>2. opts' \in [FieldNames -> Int] /\ init' \in 1..(NumFields + 4)
    <3>1. CASE Holds(FieldOrder[init], InitType(FieldOrder[init]))
      <4>1. opts' = [opts EXCEPT ![FieldOrder[init]] = params[FieldOrder[init]].val] /\ init' = init + 1
        BY <1>6, <3>1 DEF InitReads
      <4> QED
        <5>1. PICK f \in FieldNames : f = FieldOrder[init] /\ params[f].val \in Int
          BY <1>5, <2>1
        <5>2. opts' = [opts EXCEPT ![f] = params[f].val]
          BY <4>1, <5>1
        <5>3. opts' \in [FieldNames -> Int]
          BY <1>1, <5>1, <5>2
        <5> QED
          BY <1>11, <2>1, <4>1, <5>3
    <3>2. CASE ~Holds(FieldOrder[init], InitType(FieldOrder[init]))
      <4>1. opts' = opts /\ init' = NumFields + 4
        BY <1>6, <3>2 DEF InitReads
      <4> QED
        BY <1>1, <1>11, <4>1
    <3> QED
      BY <3>1, <3>2
  <2> QED
    <3>1. /\ config' = config /\ turn' = turn /\ before' = before /\ loop' = loop
          /\ curConfig' = curConfig /\ output' = output
          /\ UNCHANGED <<params, handler, copy>>
      BY <1>6 DEF InitReads, serverVars
    <3>2. ServerTypeOK'
      BY <1>1, <3>1 DEF ServerTypeOK
    <3> QED
      BY <1>1, <2>2, <3>1, <3>2
<1>7. CASE InitSetsConfig \/ InitRegisters
  <2>1. ServerTypeOK'
    BY <1>1, <1>7 DEF InitSetsConfig, InitRegisters, ServerTypeOK, serverVars
  <2>2. /\ opts' = opts /\ turn' = turn /\ before' = before /\ loop' = loop
        /\ curConfig' = curConfig /\ output' = output
    BY <1>7 DEF InitSetsConfig, InitRegisters
  <2>3. config' \in [FieldNames -> Int]
    <3>1. \A f \in FieldNames : opts[f] \in Int
      BY <1>1
    <3>2. [f \in FieldNames |-> AsField(f, opts[f])] \in [FieldNames -> Int]
      BY <3>1, FieldIsNumber
    <3> QED
      BY <1>1, <1>7, <3>2 DEF InitSetsConfig, InitRegisters
  <2>4. init' \in 1..(NumFields + 4)
    BY <1>7, <1>11 DEF InitSetsConfig, InitRegisters
  <2> QED
    BY <1>1, <2>1, <2>2, <2>3, <2>4
<1>8. CASE UpdateField
  <2>1. turn \in 1..NumFields /\ FieldOrder[turn] \in FieldNames
    BY <1>1, <1>8, <1>11 DEF UpdateField
  <2>2. config' \in [FieldNames -> Int] /\ turn' \in 1..(NumFields + 1)
    <3>1. PICK f \in FieldNames : f = FieldOrder[turn] /\ copy[f].val \in Int
      BY <1>5, <2>1
    <3>2. config' = (IF copy[f].type = UpdateType(f)
                     THEN [config EXCEPT ![f] = AsField(f, copy[f].val)] ELSE config)
          /\ turn' = turn + 1
      BY <1>8, <3>1 DEF UpdateField
    <3>3. PICK v \in Int : v = AsField(f, copy[f].val)
      BY <3>1, FieldIsNumber
    <3>4. config' = IF copy[f].type = UpdateType(f) THEN [config EXCEPT ![f] = v] ELSE config
      BY <3>2, <3>3
    <3>5. config' \in [FieldNames -> Int]
      BY <1>1, <3>1, <3>4
    <3> QED
      BY <1>11, <2>1, <3>2, <3>5
  <2> QED
    BY <1>1, <1>8, <2>2 DEF UpdateField, ServerTypeOK, serverVars
<1>9. CASE CopyConfig
  BY <1>1, <1>9 DEF CopyConfig, ServerTypeOK, serverVars
<1>10. CASE StepController
  <2>1. output' \in Steps
    <3>1. PICK accel \in Accels, loads \in LoadVectors :
             output' = [accel  |-> accel, loads |-> loads,
                        rpm    |-> IF accel >= 0 THEN 20000 ELSE 0,
                        torque |-> [c \in Corners |-> TorqueLimit(curConfig, accel, loads, c)]]
      BY <1>10 DEF StepController
    <3>2. accel \in Int /\ loads \in [Corners -> Nat]
      BY DEF ControllerAssumption
    <3>3. [c \in Corners |-> TorqueLimit(curConfig, accel, loads, c)]
             \in [Corners -> Int \cup {NaN}]
      BY <1>1, <3>2, TorqueIsNumber
    <3>4. (IF accel >= 0 THEN 20000 ELSE 0) \in {0, 20000}
      OBVIOUS
    <3> QED
      BY <3>1, <3>2, <3>3, <3>4 DEF Steps
  <2>2. UNCHANGED <<serverVars, config, init, opts, turn, before, curConfig>> /\ loop' = "idle"
    BY <1>10 DEF StepController
  <2> QED
    BY <1>1, <2>1, <2>2 DEF ServerTypeOK, serverVars
<1> QED
  BY <1>3, <1>4, <1>6, <1>7, <1>8, <1>9, <1>10 DEF Next, Startup, Server, Loop

LEMMA IInvStep ==
    ASSUME ParamAssumption, ControllerAssumption, IInv, [Next]_vars
    PROVE  IInv'
<1>1. TypeOK'
  <2>1. CASE UNCHANGED vars
    BY <2>1 DEF vars, serverVars, controllerVars, IInv, TypeOK, ServerTypeOK
  <2> QED
    BY <2>1, TypeStep DEF IInv
<1>2. OutputIsComputed'
  <2>1. CASE StepController
    <3>1. PICK accel \in Accels, loads \in LoadVectors :
             output' = [accel  |-> accel, loads |-> loads,
                        rpm    |-> IF accel >= 0 THEN 20000 ELSE 0,
                        torque |-> [c \in Corners |-> TorqueLimit(curConfig, accel, loads, c)]]
      BY <2>1 DEF StepController
    <3>2. /\ output'.accel = accel /\ output'.loads = loads /\ curConfig' = curConfig
          /\ \A c \in Corners : output'.torque[c] = TorqueLimit(curConfig, accel, loads, c)
      BY <2>1, <3>1 DEF StepController
    <3>3. ASSUME NEW c \in Corners
          PROVE  TorqueLimit(curConfig, accel, loads, c)
                    = TorqueLimit(curConfig', output'.accel, output'.loads, c)
      BY <3>2
    <3> QED
      BY <3>2, <3>3 DEF OutputIsComputed
  <2>2. CASE CopyConfig
    BY <2>2 DEF CopyConfig, OutputIsComputed
  <2>3. CASE Startup \/ Server \/ UNCHANGED vars
    <3>1. loop' = loop /\ curConfig' = curConfig /\ output' = output
      BY <2>3 DEF Startup, InitReads, InitSetsConfig, InitRegisters, Server, ServerApplies,
         ServerLogs, UpdateField, ServerReturns, controllerVars, vars
    <3> QED
      BY <3>1 DEF IInv, OutputIsComputed
  <2> QED
    BY <2>1, <2>2, <2>3 DEF Next, Loop
<1> QED
  BY <1>1, <1>2 DEF IInv

LEMMA IInvKept == Spec => []IInv
<1>1. Init => IInv
  BY IInvInit, ParamAssumption, ControllerAssumption
<1>2. IInv /\ [Next]_vars => IInv'
  BY IInvStep, ParamAssumption, ControllerAssumption
<1> QED
  BY <1>1, <1>2, PTL DEF Spec

-----------------------------------------------------------------------------
(* The configuration follows the parameters if none changes before init()    *)
(* has ended; what else could go wrong is in a later field of a callback     *)
(* undoing an earlier one, or in a field whose type is not what it was.      *)
LEMMA RInvInit ==
    ASSUME ParamAssumption, ControllerAssumption, Init
    PROVE  RInv
<1>1. init = 1 /\ NumFields \in Nat
  BY FieldFacts DEF Init
<1>2. ~Registered /\ ~Initialised
  BY <1>1 DEF Registered, Initialised
<1>3. InitLoads
  BY <1>1, <1>2 DEF Init, ServerInit, InitLoads
<1>4. PassedFollow /\ FloatsFollowParameters
  BY <1>2 DEF PassedFollow, FloatsFollowParameters, Follows
<1> QED
  BY <1>3, <1>4 DEF RInv

LEMMA StartupStep ==
    ASSUME ParamAssumption, ControllerAssumption, IInv, RInv, Startup
    PROVE  RInv'
<1>1. /\ NumFields \in Nat /\ init \in 1..(NumFields + 4)
      /\ opts \in [FieldNames -> Int] /\ config \in [FieldNames -> Int]
      /\ \A k \in 1..NumFields : FieldOrder[k] \in FieldNames
      /\ \A f \in FieldNames : \E k \in 1..NumFields : FieldOrder[k] = f
  BY FieldFacts DEF IInv, TypeOK
<1>2. /\ params' = params /\ copy' = copy /\ handler' = handler
      /\ init <= NumFields + 2
  <2>1. UNCHANGED serverVars
    BY DEF Startup, InitReads, InitSetsConfig, InitRegisters
  <2>2. init <= NumFields \/ init = NumFields + 1 \/ init = NumFields + 2
    BY DEF Startup, InitReads, InitSetsConfig, InitRegisters
  <2> QED
    BY <1>1, <2>1, <2>2 DEF serverVars
<1>3. copy = params /\ handler = "idle"
  BY <1>1, <1>2 DEF RInv, InitLoads, Initialised
<1>4. \A k \in 1..NumFields : k < init => Loaded(FieldOrder[k])
  BY <1>2 DEF RInv, InitLoads
<1>5. CASE InitReads
  <2>1. init \in 1..NumFields /\ config' = config
    BY <1>1, <1>5 DEF InitReads
  <2>2. CASE Holds(FieldOrder[init], InitType(FieldOrder[init]))
    <3>1. PICK f \in FieldNames : f = FieldOrder[init]
      BY <1>1, <2>1
    <3>2. /\ opts' = [opts EXCEPT ![f] = params[f].val] /\ init' = init + 1
          /\ params[f].type = InitType(f)
      BY <1>5, <2>2, <3>1 DEF InitReads, Holds
    <3>3. ASSUME NEW k \in 1..NumFields, k < init'
          PROVE  opts'[FieldOrder[k]] = params[FieldOrder[k]].val
                    /\ params[FieldOrder[k]].type = InitType(FieldOrder[k])
      <4>1. CASE FieldOrder[k] = f
        BY <1>1, <3>2, <4>1
      <4>2. CASE FieldOrder[k] # f
        <5>1. k < init
          BY <2>1, <3>1, <3>2, <3>3, <4>2
        <5>2. Loaded(FieldOrder[k])
          BY <1>4, <5>1
        <5> QED
          BY <1>1, <3>2, <4>2, <5>2 DEF Loaded
      <4> QED
        BY <4>1, <4>2
    <3>4. ~Registered' /\ ~Initialised' /\ init' # NumFields + 2
      BY <1>1, <2>1, <3>2 DEF Registered, Initialised
    <3>5. InitLoads'
      BY <1>2, <1>3, <3>3, <3>4 DEF InitLoads, Loaded
    <3> QED
      BY <3>4, <3>5 DEF RInv, PassedFollow, FloatsFollowParameters, Follows
  <2>3. CASE ~Holds(FieldOrder[init], InitType(FieldOrder[init]))
    <3>1. init' = NumFields + 4
      BY <1>5, <2>3 DEF InitReads
    <3>2. ~Registered' /\ Initialised' /\ ~(init' <= NumFields + 2)
      BY <1>1, <3>1 DEF Registered, Initialised
    <3>3. InitLoads'
      BY <1>1, <1>2, <1>3, <3>1, <3>2 DEF InitLoads
    <3> QED
      BY <3>2, <3>3 DEF RInv, PassedFollow, FloatsFollowParameters, Follows
  <2> QED
    BY <2>2, <2>3
<1>6. CASE InitSetsConfig
  <2>1. /\ \A f \in FieldNames : config'[f] = AsField(f, opts'[f])
        /\ opts' = opts /\ init = NumFields + 1 /\ init' = NumFields + 2
    BY <1>6 DEF InitSetsConfig
  <2>2. ~Registered' /\ ~Initialised'
    BY <1>1, <2>1 DEF Registered, Initialised
  <2>3. \A k \in 1..NumFields : Loaded(FieldOrder[k])
    BY <1>1, <1>4, <2>1
  <2>4. InitLoads'
    BY <1>2, <1>3, <2>1, <2>2, <2>3 DEF InitLoads, Loaded
  <2> QED
    BY <2>2, <2>4 DEF RInv, PassedFollow, FloatsFollowParameters, Follows
<1>7. CASE InitRegisters
  <2>1. config' = config /\ init = NumFields + 2 /\ init' = NumFields + 3
    BY <1>7 DEF InitRegisters
  <2>2. ASSUME NEW f \in FieldNames
        PROVE  config[f] = AsField(f, params[f].val) /\ params[f].type = InitType(f)
    <3>1. PICK k \in 1..NumFields : FieldOrder[k] = f
      BY <1>1
    <3>2. Loaded(f) /\ config[f] = AsField(f, opts[f])
      BY <1>1, <1>4, <2>1, <3>1 DEF RInv, InitLoads
    <3> QED
      BY <3>2 DEF Loaded
  <2>3. InitLoads'
    <3>1. Initialised' /\ ~(init' <= NumFields + 2) /\ init' # NumFields + 2
      BY <1>1, <2>1 DEF Initialised
    <3> QED
      BY <1>2, <1>3, <2>2, <3>1 DEF InitLoads
  <2>4. FloatsFollowParameters'
    BY <1>2, <2>1, <2>2 DEF FloatsFollowParameters, Follows
  <2> QED
    BY <1>2, <1>3, <2>3, <2>4 DEF RInv, PassedFollow
<1> QED
  BY <1>5, <1>6, <1>7 DEF Startup

LEMMA HandlerStep ==
    ASSUME ParamAssumption, ControllerAssumption, ~ChangesDuringInit, IInv, RInv, Server
    PROVE  RInv'
<1>1. /\ NumFields \in Nat /\ init \in 1..(NumFields + 4) /\ turn \in 1..(NumFields + 1)
      /\ config \in [FieldNames -> Int] /\ ServerTypeOK /\ FieldNames \subseteq Params
      /\ \A k \in 1..NumFields : FieldOrder[k] \in FieldNames
      /\ \A f \in FieldNames : \E k \in 1..NumFields : FieldOrder[k] = f
  BY FieldFacts DEF IInv, TypeOK
<1>2. init' = init /\ opts' = opts
  BY DEF Server, ServerApplies, ServerLogs, UpdateField, ServerReturns, controllerVars
<1>3. Registered' = Registered /\ Initialised' = Initialised
  BY <1>2 DEF Registered, Initialised
<1>4. Initialised /\ ~(init <= NumFields + 2)
  <2>1. Initialised
    BY DEF Server, ServerApplies, ServerLogs, LogAllParams, UpdateField, ServerReturns,
       SignalReturns, RInv, InitLoads
  <2> QED
    BY <1>1, <2>1 DEF Initialised
<1>5. copy = params /\ (Registered => \A f \in FieldNames : params[f].type = InitType(f))
  BY DEF RInv, InitLoads
<1>6. ASSUME copy' = params', \A f \in FieldNames : params'[f].type = params[f].type
      PROVE  InitLoads'
  <2>1. Initialised' /\ ~(init' <= NumFields + 2) /\ init' # NumFields + 2
    BY <1>1, <1>2, <1>3, <1>4
  <2>2. Registered' => \A f \in FieldNames : params'[f].type = InitType(f)
    BY <1>3, <1>5, <1>6
  <2> QED
    BY <1>6, <2>1, <2>2 DEF InitLoads
<1>7. CASE ServerApplies
  <2>1. copy' = params' /\ \A f \in FieldNames : params'[f].type = params[f].type
    BY <1>1, <1>7, ApplyKeepsTypes DEF ServerApplies, ApplyChanges
  <2>2. handler' = "applied"
    BY <1>7 DEF ServerApplies, ApplyChanges
  <2> QED
    BY <1>6, <2>1, <2>2 DEF RInv, PassedFollow, FloatsFollowParameters, Follows
<1>8. CASE ServerLogs
  <2>1. copy' = copy /\ params' = params /\ handler' = "signalling"
    BY <1>8 DEF ServerLogs, LogAllParams
  <2>2. Registered => turn' = 1
    BY <1>8 DEF ServerLogs, FirstField
  <2>3. PassedFollow'
    BY <1>3, <2>2 DEF PassedFollow
  <2> QED
    BY <1>5, <1>6, <2>1, <2>3 DEF RInv, FloatsFollowParameters, Follows
<1>9. CASE UpdateField
  <2>1. /\ copy' = copy /\ params' = params /\ handler' = "signalling" /\ handler = "signalling"
        /\ turn \in 1..NumFields /\ turn' = turn + 1
    BY <1>1, <1>9 DEF UpdateField, serverVars
  <2>2. PICK f \in FieldNames : f = FieldOrder[turn]
    BY <1>1, <2>1
  <2>3. config' = IF params[f].type = "float"
                  THEN [config EXCEPT ![f] = AsField(f, params[f].val)] ELSE config
    BY <1>5, <1>9, <2>2 DEF UpdateField, UpdateType
  <2>4. ASSUME Registered, NEW k \in 1..NumFields, k < turn', InitType(FieldOrder[k]) = "float"
        PROVE  config'[FieldOrder[k]] = AsField(FieldOrder[k], params[FieldOrder[k]].val)
    <3>1. CASE FieldOrder[k] = f
      BY <1>1, <1>5, <2>2, <2>3, <2>4, <3>1
    <3>2. CASE FieldOrder[k] # f
      <4>1. k < turn
        BY <2>1, <2>2, <2>4, <3>2
      <4>2. config[FieldOrder[k]] = AsField(FieldOrder[k], params[FieldOrder[k]].val)
        BY <2>1, <2>4, <4>1 DEF RInv, PassedFollow
      <4> QED
        BY <1>1, <2>3, <3>2, <4>2
    <3> QED
      BY <3>1, <3>2
  <2>5. PassedFollow'
    BY <1>3, <2>1, <2>4 DEF PassedFollow
  <2> QED
    BY <1>5, <1>6, <2>1, <2>5 DEF RInv, FloatsFollowParameters, Follows
<1>10. CASE ServerReturns
  <2>1. /\ copy' = copy /\ params' = params /\ handler' = "idle" /\ handler = "signalling"
        /\ turn = NumFields + 1 /\ config' = config
    BY <1>10 DEF ServerReturns, SignalReturns, controllerVars
  <2>2. ASSUME Registered, NEW f \in FieldNames, InitType(f) = "float"
        PROVE  config[f] = AsField(f, params[f].val)
    <3>1. PICK k \in 1..NumFields : FieldOrder[k] = f
      BY <1>1
    <3>2. k < turn
      BY <1>1, <2>1
    <3> QED
      BY <2>1, <2>2, <3>1, <3>2 DEF RInv, PassedFollow
  <2>3. FloatsFollowParameters'
    BY <1>3, <2>1, <2>2 DEF FloatsFollowParameters, Follows
  <2> QED
    BY <1>5, <1>6, <2>1, <2>3 DEF RInv, PassedFollow
<1> QED
  BY <1>7, <1>8, <1>9, <1>10 DEF Server

LEMMA RInvStep ==
    ASSUME ParamAssumption, ControllerAssumption, ~ChangesDuringInit, IInv, RInv, [Next]_vars
    PROVE  RInv'
<1>1. CASE Loop \/ UNCHANGED vars
  <2>1. /\ params' = params /\ copy' = copy /\ handler' = handler /\ config' = config
        /\ opts' = opts /\ init' = init /\ turn' = turn
    BY <1>1 DEF Loop, CopyConfig, StepController, vars, serverVars, controllerVars
  <2> QED
    BY <2>1 DEF RInv, InitLoads, PassedFollow, FloatsFollowParameters, Follows, Registered,
       Initialised, Loaded
<1> QED
  BY <1>1, StartupStep, HandlerStep DEF Next

-----------------------------------------------------------------------------
(* Every variable keeps its type, whatever clients send: the configuration   *)
(* and each torque are numbers, a torque unless 0 is divided by 0.           *)
THEOREM TypesKept == Spec => []TypeOK
<1>1. IInv => TypeOK
  BY DEF IInv
<1> QED
  BY <1>1, IInvKept, PTL

(* Once no client changes a parameter before init() has ended, each float of *)
(* the configuration is the parameter whenever the server is not handling a  *)
(* change: for any fields in any order, and any messages of clients.         *)
THEOREM ConfigFollows ==
    ASSUME ~ChangesDuringInit
    PROVE  Spec => []FloatsFollowParameters
<1>1. Init => RInv
  BY RInvInit, ParamAssumption, ControllerAssumption
<1>2. IInv /\ RInv /\ [Next]_vars => RInv'
  BY RInvStep, ParamAssumption, ControllerAssumption
<1>3. RInv => FloatsFollowParameters
  BY DEF RInv
<1> QED
  BY <1>1, <1>2, <1>3, IInvKept, PTL DEF Spec

(* A step that copies the configuration while the callback runs may get half *)
(* of a change, but never more than two settings and never in disorder: the  *)
(* fields before the one that is next are of the new parameters, the others  *)
(* are as they were before the callback.                                     *)
THEOREM TornAtOneField ==
    Spec => [][loop = "idle" /\ loop' = "stepping" /\ turn <= NumFields =>
                  CutAtTurn(curConfig')]_<<loop, curConfig>>
<1>1. Init => HalfTaken
  <2>1. Init => turn = NumFields + 1 /\ NumFields \in Nat
    BY ControllerAssumption, FieldFacts DEF Init
  <2> QED
    BY <2>1 DEF HalfTaken
<1>2. ASSUME IInv, HalfTaken, [Next]_vars PROVE HalfTaken'
  <2>1. /\ NumFields \in Nat /\ init \in 1..(NumFields + 4) /\ turn \in 1..(NumFields + 1)
        /\ config \in [FieldNames -> Int]
        /\ \A k \in 1..NumFields : FieldOrder[k] \in FieldNames
    BY <1>2, ControllerAssumption, FieldFacts DEF IInv, TypeOK
  <2>2. CASE Loop \/ UNCHANGED vars
    BY <1>2, <2>2 DEF Loop, CopyConfig, StepController, vars, serverVars, controllerVars,
       HalfTaken, CutAtTurn, Passed, Registered
  <2>3. CASE Startup
    <3>1. init <= NumFields + 2 /\ turn' = turn
      BY <2>1, <2>3 DEF Startup, InitReads, InitSetsConfig, InitRegisters
    <3> QED
      BY <1>2, <2>1, <3>1 DEF HalfTaken, Registered
  <2>4. CASE ServerApplies
    <3>1. handler = "idle" /\ turn' = turn
      BY <2>4 DEF ServerApplies, ApplyChanges, controllerVars
    <3> QED
      BY <1>2, <3>1 DEF HalfTaken
  <2>5. CASE ServerLogs
    <3>1. /\ handler = "applied" /\ handler' = "signalling" /\ init' = init
          /\ config' = config /\ before' = config /\ turn' = IF Registered THEN 1 ELSE turn
      BY <2>5 DEF ServerLogs, LogAllParams, FirstField
    <3>2. turn' <= NumFields => Registered /\ turn' = 1
      BY <1>2, <3>1 DEF HalfTaken
    <3>3. turn' = 1 => CutAtTurn(config)'
      BY <2>1, <3>1 DEF CutAtTurn, Passed
    <3> QED
      BY <3>1, <3>2, <3>3 DEF HalfTaken, Registered
  <2>6. CASE UpdateField
    <3>1. /\ UNCHANGED <<handler, copy, init, before>> /\ handler = "signalling"
          /\ turn \in 1..NumFields /\ turn' = turn + 1
      BY <2>1, <2>6 DEF UpdateField, serverVars
    <3>2. PICK g \in FieldNames : g = FieldOrder[turn]
      BY <2>1, <3>1
    <3>3. config' = IF copy[g].type = UpdateType(g)
                    THEN [config EXCEPT ![g] = AsField(g, copy[g].val)] ELSE config
      BY <2>6, <3>2 DEF UpdateField
    <3>4. ASSUME NEW f \in FieldNames
          PROVE  config'[f] = IF Passed(f)' THEN AsField(f, copy[f].val) ELSE before[f]
      <4>1. config[f] = IF Passed(f) THEN AsField(f, copy[f].val) ELSE before[f]
        BY <1>2, <3>1 DEF HalfTaken, CutAtTurn
      <4>2. CASE f = g
        <5>1. Passed(f)' <=> copy[f].type = UpdateType(f)
          BY <2>1, <3>1, <3>2, <4>2 DEF Passed
        <5>2. copy[f].type # UpdateType(f) => ~Passed(f)
          BY DEF Passed
        <5> QED
          BY <2>1, <3>3, <4>1, <4>2, <5>1, <5>2
      <4>3. CASE f # g
        <5>1. Passed(f)' <=> Passed(f)
          BY <2>1, <3>1, <3>2, <4>3 DEF Passed
        <5> QED
          BY <2>1, <3>3, <4>1, <4>3, <5>1
      <4> QED
        BY <4>2, <4>3
    <3> QED
      BY <1>2, <3>1, <3>4 DEF HalfTaken, CutAtTurn, Registered
  <2>7. CASE ServerReturns
    <3>1. turn' = NumFields + 1
      BY <2>7 DEF ServerReturns, controllerVars
    <3> QED
      BY <2>1, <3>1 DEF HalfTaken
  <2> QED
    BY <1>2, <2>2, <2>3, <2>4, <2>5, <2>6, <2>7 DEF Next, Server
<1>3. ASSUME HalfTaken, [Next]_vars
      PROVE  [loop = "idle" /\ loop' = "stepping" /\ turn <= NumFields =>
                 CutAtTurn(curConfig')]_<<loop, curConfig>>
  <2>1. CASE CopyConfig
    BY <1>3, <2>1 DEF CopyConfig, HalfTaken, CutAtTurn
  <2>2. CASE Startup \/ Server \/ StepController \/ UNCHANGED vars
    BY <2>2 DEF Startup, InitReads, InitSetsConfig, InitRegisters, Server, ServerApplies,
       ServerLogs, UpdateField, ServerReturns, StepController, vars, controllerVars
  <2> QED
    BY <1>3, <2>1, <2>2 DEF Next, Loop
<1>4. HalfTaken /\ [Next]_vars =>
         [loop = "idle" /\ loop' = "stepping" /\ turn <= NumFields =>
             CutAtTurn(curConfig')]_<<loop, curConfig>>
  BY <1>3
<1>5. IInv /\ HalfTaken /\ [Next]_vars => HalfTaken'
  BY <1>2
<1> QED
  BY <1>1, <1>4, <1>5, IInvKept, PTL DEF Spec

LEMMA Distributes ==
    ASSUME NEW k \in Int, NEW a \in Int, NEW b \in Int
    PROVE  k * (a + b) = k * a + k * b
OBVIOUS

LEMMA Swapped ==
    ASSUME NEW k \in Int, NEW a \in Int, NEW b \in Int
    PROVE  (k * a) * b = (k * b) * a
<1>1. a * b = b * a
  OBVIOUS
<1>2. (k * a) * b = k * (a * b) /\ (k * b) * a = k * (b * a)
  OBVIOUS
<1> QED
  BY <1>1, <1>2

(* The torque of an axle is split as its load is, whatever the scales are    *)
(* and whatever the callback does meanwhile: under acceleration the torques  *)
(* of its two wheels are in the proportion of their loads.                   *)
THEOREM AxleFollowsLoads ==
    Spec => [](loop = "idle" /\ output.accel > 0 /\ SumNormal(output.loads) > 0 =>
                  \A axle \in {Front, Rear} : \A c, d \in axle :
                     output.torque[c] * output.loads[d] = output.torque[d] * output.loads[c])
<1>1. ASSUME IInv, loop = "idle", output.accel > 0, SumNormal(output.loads) > 0,
             NEW axle \in {Front, Rear}, NEW c \in axle, NEW d \in axle
      PROVE  output.torque[c] * output.loads[d] = output.torque[d] * output.loads[c]
  <2>1. PICK accel \in Int : accel = output.accel /\ accel > 0
    BY <1>1 DEF IInv, TypeOK, Steps
  <2>2. c \in Corners /\ d \in Corners /\ (c \in Rear <=> d \in Rear)
    BY <1>1 DEF Front, Rear, Corners
  <2>3. PICK a \in Int, b \in Int : a = output.loads[c] /\ b = output.loads[d]
    BY <1>1, <2>2 DEF IInv, TypeOK, Steps
  <2>4. PICK max \in Int, rear \in Int :
           max = curConfig["max_torque"] /\ rear = curConfig["rear_torque_scale"]
    BY <1>1, FieldFacts, ControllerAssumption DEF IInv, TypeOK
  <2>5. AxleScale(curConfig, c) = AxleScale(curConfig, d) /\ AxleScale(curConfig, c) \in Int
    BY <2>2, <2>4 DEF AxleScale
  <2>6. PICK k \in Int : k = AxleScale(curConfig, c) * (accel * max * 4)
    <3>1. accel * max * 4 \in Int
      BY <2>1, <2>4
    <3> QED
      BY <2>5, <3>1
  <2>7. ASSUME NEW w \in {c, d} PROVE output.torque[w] = k * output.loads[w]
    <3>1. output.torque[w] = TorqueLimit(curConfig, accel, output.loads, w)
      BY <1>1, <2>1, <2>2 DEF IInv, OutputIsComputed
    <3>2. SumNormal(output.loads) # 0
      BY <1>1
    <3>3. output.torque[w] = AxleScale(curConfig, w) * (accel * max * 4) * output.loads[w]
      BY <2>1, <2>4, <3>1, <3>2 DEF TorqueLimit, Shared
    <3>4. AxleScale(curConfig, w) = AxleScale(curConfig, c)
      BY <2>5
    <3> QED
      BY <2>6, <3>3, <3>4
  <2>8. (k * a) * b = (k * b) * a
    BY Swapped
  <2> QED
    BY <2>3, <2>7, <2>8
<1>2. IInv => (loop = "idle" /\ output.accel > 0 /\ SumNormal(output.loads) > 0 =>
                  \A axle \in {Front, Rear} : \A c, d \in axle :
                     output.torque[c] * output.loads[d] = output.torque[d] * output.loads[c])
  BY <1>1
<1> QED
  BY <1>2, IInvKept, PTL

(* rear_torque_scale drives the front wheels only at 0 and the rear only at  *)
(* 2, and at 1 the wheels together get four times max_torque, however the    *)
(* load is spread, and also when the configuration changes before the next   *)
(* step.                                                                     *)
THEOREM RearScaleSplits == Spec => []RearScaleSplitsDrive
<1>1. IInv => RearScaleSplitsDrive
  <2> SUFFICES ASSUME IInv, output.accel > 0, loop = "idle", SumNormal(output.loads) > 0
               PROVE  /\ curConfig["rear_torque_scale"] = 0 =>
                            \A c \in Rear : output.torque[c] = 0
                      /\ curConfig["rear_torque_scale"] = 4 =>
                            \A c \in Front : output.torque[c] = 0
                      /\ curConfig["rear_torque_scale"] = 2 =>
                            SumNormal(output.torque) =
                               8 * output.accel * curConfig["max_torque"] * SumNormal(output.loads)
    BY DEF RearScaleSplitsDrive
  <2>1. PICK accel \in Int : accel = output.accel /\ accel > 0
    BY DEF IInv, TypeOK, Steps
  <2>2. PICK loads \in [Corners -> Nat] : loads = output.loads /\ SumNormal(loads) > 0
    BY DEF IInv, TypeOK, Steps
  <2>3. PICK max \in Int, rear \in Int :
           max = curConfig["max_torque"] /\ rear = curConfig["rear_torque_scale"]
    BY FieldFacts, ControllerAssumption DEF IInv, TypeOK
  <2>4. ASSUME NEW c \in Corners
        PROVE  output.torque[c] = AxleScale(curConfig, c) * (accel * max * 4) * loads[c]
    <3>1. output.torque[c] = TorqueLimit(curConfig, accel, loads, c)
      BY <2>1, <2>2 DEF IInv, OutputIsComputed
    <3>2. SumNormal(loads) # 0
      BY <2>2
    <3> QED
      BY <2>1, <2>3, <3>1, <3>2 DEF TorqueLimit, Shared
  <2>5. ASSUME NEW c \in Corners, AxleScale(curConfig, c) = 0
        PROVE  output.torque[c] = 0
    <3>1. PICK load \in Int : load = loads[c]
      OBVIOUS
    <3> QED
      BY <2>1, <2>3, <2>4, <2>5, <3>1
  <2>6. ASSUME rear = 0, NEW c \in Rear PROVE output.torque[c] = 0
    BY <2>3, <2>5, <2>6 DEF AxleScale, Rear
  <2>7. ASSUME rear = 4, NEW c \in Front PROVE output.torque[c] = 0
    BY <2>3, <2>5, <2>7 DEF AxleScale, Rear, Front, Corners
  <2>8. ASSUME rear = 2
        PROVE  SumNormal(output.torque) = 8 * accel * max * SumNormal(loads)
    <3>1. ASSUME NEW c \in Corners PROVE output.torque[c] = 8 * (accel * max) * loads[c]
      <4>1. AxleScale(curConfig, c) = 2
        BY <2>3, <2>8 DEF AxleScale
      <4>2. output.torque[c] = 2 * (accel * max * 4) * loads[c]
        BY <2>4, <4>1
      <4>3. 2 * (accel * max * 4) = 8 * (accel * max)
        BY <2>1, <2>3
      <4> QED
        BY <4>2, <4>3
    <3>2. PICK fl \in Int, fr \in Int, rl \in Int, rr \in Int :
             fl = loads["FL"] /\ fr = loads["FR"] /\ rl = loads["RL"] /\ rr = loads["RR"]
      BY DEF Corners
    <3>3. PICK k \in Int : k = 8 * (accel * max)
      BY <2>1, <2>3
    <3>4. SumNormal(output.torque) = k * fl + k * fr + k * rl + k * rr
      BY <3>1, <3>2, <3>3 DEF SumNormal, Corners
    <3>5. SumNormal(loads) = fl + fr + rl + rr
      BY <3>2 DEF SumNormal
    <3>6. k * fl + k * fr + k * rl + k * rr = k * (fl + fr + rl + rr)
      <4>1. /\ k * (fl + fr) = k * fl + k * fr
            /\ k * ((fl + fr) + rl) = k * (fl + fr) + k * rl
            /\ k * (((fl + fr) + rl) + rr) = k * ((fl + fr) + rl) + k * rr
        BY Distributes
      <4> QED
        BY <4>1
    <3>7. 8 * accel * max = k
      BY <2>1, <2>3, <3>3
    <3> QED
      BY <3>4, <3>5, <3>6, <3>7
  <2> QED
    BY <2>1, <2>2, <2>3, <2>6, <2>7, <2>8
<1> QED
  BY <1>1, IInvKept, PTL
=============================================================================
