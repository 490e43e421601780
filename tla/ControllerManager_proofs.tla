---------------------- MODULE ControllerManager_proofs ----------------------
(* Proofs about ControllerManager for any number of controllers, any of them *)
(* null but the first, any requests, limits and values.                      *)
EXTENDS ControllerManager, TLAPS

(* A controller that a thread has found to be there stays the one it calls:  *)
(* the active controller is never null, and a request that steps controllers *)
(* has checked the one it wants.                                             *)
NoNullWithin ==
    /\ active \notin NullControllers
    /\ request \in {"stepping_next", "stepping_active"} => wanted \in Index \ NullControllers

(* The inductive invariant.                                                  *)
IInv == /\ TypeOK /\ NoNullWithin /\ NeverStepsNull
        /\ tracked => phase = "running"
        /\ StatusIsHonest

-----------------------------------------------------------------------------
(* An output that passes has a torque, or a speed and a limit, within limits.*)
LEMMA VerifiedOutput ==
    ASSUME NEW out \in Output
    PROVE  /\ VerifyControllerOutput(out) \in Status
           /\ VerifyControllerOutput(out) = "NO_ERROR" =>
                 /\ out.kind # "none" /\ ~Above(out.torque, MaxTorque)
                 /\ out.kind = "speed" => ~AboveAbs(out.rpm, MaxRpm)
<1>1. out.kind \in {"speed", "torque", "none"}
  BY DEF Output
<1>2. CASE out.kind = "speed"
  BY <1>2 DEF VerifyControllerOutput, Status
<1>3. CASE out.kind = "torque"
  BY <1>3 DEF VerifyControllerOutput, Status
<1>4. CASE out.kind = "none"
  BY <1>4 DEF VerifyControllerOutput, Status
<1> QED
  BY <1>1, <1>2, <1>3, <1>4

(* A switch is allowed only if neither the state nor the outputs forbid it.  *)
LEMMA AllowedSwitch ==
    ASSUME NEW state, NEW previous \in Output, NEW next \in Output
    PROVE  /\ CanSwitchController(state, previous, next) \in Status
           /\ CanSwitchController(state, previous, next) = "NO_ERROR" =>
                 /\ ~AboveAbs(state.rpm, MaxSwitchRpm) /\ ~Above(state.accel, MaxAccel)
                 /\ VerifyControllerOutput(next) = "NO_ERROR"
                 /\ VerifyControllerOutput(previous) = "NO_ERROR"
BY VerifiedOutput DEF CanSwitchController, Status

(* A float that is not above a limit is below it or at it, or is no number.  *)
LEMMA WithinLimit ==
    ASSUME ManagerAssumption, NEW x \in Floats, NEW max \in Int
    PROVE  /\ ~Above(x, max) => x = NaN \/ x <= max
           /\ ~AboveAbs(x, max) => x \in {NaN} \cup (-max)..max
<1>1. CASE x = NaN
  BY <1>1
<1>2. CASE x \in Int /\ x # NaN
  BY <1>2 DEF Above, AboveAbs
<1> QED
  BY <1>1, <1>2 DEF Floats, ManagerAssumption

(* So an output that passes is within the limits of its kind.                *)
LEMMA VerifiedIsWithin ==
    ASSUME ManagerAssumption, NEW out \in Output, VerifyControllerOutput(out) = "NO_ERROR"
    PROVE  Within(out)
<1>1. /\ out.kind # "none" /\ ~Above(out.torque, MaxTorque)
      /\ out.kind = "speed" => ~AboveAbs(out.rpm, MaxRpm)
  BY VerifiedOutput
<1>2. out.torque \in Floats /\ out.rpm \in Floats
  BY DEF Output, Floats, ManagerAssumption
<1>3. MaxTorque \in Int /\ MaxRpm \in Int
  BY DEF ManagerAssumption
<1>4. out.torque = NaN \/ out.torque <= MaxTorque
  BY <1>1, <1>2, <1>3, WithinLimit
<1>5. out.kind = "speed" => out.rpm \in {NaN} \cup (-MaxRpm)..MaxRpm
  BY <1>1, <1>2, <1>3, WithinLimit
<1> QED
  BY <1>1, <1>4, <1>5 DEF Within

LEMMA IInvInit ==
    ASSUME ManagerAssumption, Init
    PROVE  IInv
<1>1. active = 0 /\ 0 \in Index /\ 0 \notin NullControllers /\ None \notin NullControllers
  BY DEF Init, ManagerAssumption, Index, None
<1>2. stepping \in [{"loop", "request"} -> {None}]
  BY DEF Init
<1>3. Still \in VehicleState /\ NoOutput \in Output
  BY DEF ManagerAssumption, Still, VehicleState, Floats, NoOutput, Output
<1>4. wanted \in Int
  BY DEF Init, ManagerAssumption
<1>5. tracked \in BOOLEAN
  BY Zenon DEF Init
<1>6. TypeOK
  BY <1>1, <1>2, <1>3, <1>4, <1>5 DEF Init, TypeOK, Status
<1> QED
  BY <1>1, <1>2, <1>6 DEF Init, IInv, NoNullWithin, NeverStepsNull, StatusIsHonest

LEMMA IInvStep ==
    ASSUME ManagerAssumption, IInv, [Next]_vars
    PROVE  IInv'
<1> USE DEF IInv, TypeOK, NoNullWithin, NeverStepsNull, StatusIsHonest, threads, locals
<1>0. None \notin NullControllers /\ None \notin Index /\ NullControllers \subseteq Index
  BY DEF ManagerAssumption, None, Index
<1>1. CASE Create
  BY <1>1 DEF Create
<1>2. CASE InitManager
  BY <1>2 DEF InitManager, Status
<1>3. CASE LoopChecks
  BY <1>3 DEF LoopChecks, Status
<1>4. CASE LoopSteps
  BY <1>4 DEF LoopSteps
<1>5. CASE LoopReturns
  BY <1>0, <1>5 DEF LoopReturns
<1>6. CASE ParameterChanges
  <2>1. wanted' \in Int
    BY <1>6 DEF ParameterChanges, ManagerAssumption
  <2>2. tracked' \in BOOLEAN
    BY <1>6, Zenon DEF ParameterChanges
  <2> QED
    BY <1>6, <2>1, <2>2 DEF ParameterChanges
<1>7. CASE IgnoreRequest
  BY <1>7 DEF IgnoreRequest
<1>8. CASE RejectAtOnce
  BY <1>8 DEF RejectAtOnce, Rejection, Status
<1>9. CASE StepRequested
  <2>1. wanted \in Index \ NullControllers
    BY <1>9 DEF StepRequested, Switchable
  <2> QED
    BY <1>9, <2>1 DEF StepRequested
<1>10. CASE StepActive
  BY <1>10 DEF StepActive
<1>11. CASE Decide
  <2>1. PICK previous \in Output, decision \in Status :
            /\ prevOut' = previous
            /\ decision = CanSwitchController(input, previous, nextOut)
            /\ status' = decision
            /\ IF decision = "NO_ERROR" THEN active' = wanted ELSE UNCHANGED active
    BY <1>11, AllowedSwitch DEF Decide
  <2>2. Still \in VehicleState /\ NoOutput \in Output
    BY DEF ManagerAssumption, Still, VehicleState, Floats, NoOutput, Output
  <2> QED
    BY <1>0, <1>11, <2>1, <2>2 DEF Decide
<1>12. CASE RequestReturns
  <2>1. Still \in VehicleState /\ NoOutput \in Output
    BY DEF ManagerAssumption, Still, VehicleState, Floats, NoOutput, Output
  <2> QED
    BY <1>12, <2>1 DEF RequestReturns
<1>13. CASE UNCHANGED vars
  BY <1>13 DEF vars
<1> QED
  BY <1>1, <1>2, <1>3, <1>4, <1>5, <1>6, <1>7, <1>8, <1>9, <1>10, <1>11, <1>12, <1>13
     DEF Next, Main, Loop, Request

LEMMA IInvKept == Spec => []IInv
<1>1. Init => IInv
  BY IInvInit, ManagerAssumption
<1>2. IInv /\ [Next]_vars => IInv'
  BY IInvStep, ManagerAssumption
<1> QED
  BY <1>1, <1>2, PTL DEF Spec

-----------------------------------------------------------------------------
(* Every variable of the manager and of its threads keeps its type.          *)
THEOREM TypesKept == Spec => []TypeOK
BY IInvKept, PTL DEF IInv

(* No thread calls through a null controller pointer, although neither of    *)
(* them locks the index that it checks and then uses.                        *)
THEOREM NullNeverStepped == Spec => []NeverStepsNull
BY IInvKept, PTL DEF IInv

(* A status of NO_ERROR after a request means what it says.                  *)
THEOREM StatusHonest == Spec => []StatusIsHonest
BY IInvKept, PTL DEF IInv

(* The active controller changes only to the one requested, which is there,  *)
(* in a vehicle state that allows it and with outputs of the new controller  *)
(* and of the one it replaces that are both within their limits.             *)
THEOREM SwitchSafe == Spec => SwitchIsSafe
<1> DEFINE Safe ==
        /\ active' = wanted /\ active' \in Index \ NullControllers
        /\ input.rpm \in {NaN} \cup (-MaxSwitchRpm)..MaxSwitchRpm
        /\ input.accel = NaN \/ input.accel <= MaxAccel
        /\ Within(nextOut) /\ Within(prevOut')
<1>1. IInv /\ [Next]_vars => [active' # active => Safe]_<<active, wanted>>
  <2> SUFFICES ASSUME IInv, Next, active' # active
               PROVE  Safe
    BY DEF vars
  <2>1. Decide
    BY DEF Next, Main, Loop, Request, Create, InitManager, LoopChecks, LoopSteps, LoopReturns,
       ParameterChanges, IgnoreRequest, RejectAtOnce, StepRequested, StepActive,
       RequestReturns, threads, locals
  <2>2. PICK previous \in Output :
            /\ prevOut' = previous /\ active' = wanted
            /\ CanSwitchController(input, previous, nextOut) = "NO_ERROR"
    BY <2>1 DEF Decide
  <2>3. wanted \in Index \ NullControllers
    BY <2>1 DEF Decide, IInv, NoNullWithin
  <2>4. /\ ~AboveAbs(input.rpm, MaxSwitchRpm) /\ ~Above(input.accel, MaxAccel)
        /\ VerifyControllerOutput(nextOut) = "NO_ERROR"
        /\ VerifyControllerOutput(previous) = "NO_ERROR"
    BY <2>2, AllowedSwitch DEF IInv, TypeOK
  <2>5. input.rpm \in Floats /\ input.accel \in Floats /\ nextOut \in Output
    BY DEF IInv, TypeOK, VehicleState
  <2>6. MaxSwitchRpm \in Int /\ MaxAccel \in Int
    BY ManagerAssumption DEF ManagerAssumption
  <2>7. input.rpm \in {NaN} \cup (-MaxSwitchRpm)..MaxSwitchRpm
    BY <2>4, <2>5, <2>6, WithinLimit, ManagerAssumption
  <2>8. input.accel = NaN \/ input.accel <= MaxAccel
    BY <2>4, <2>5, <2>6, WithinLimit, ManagerAssumption
  <2>9. Within(nextOut) /\ Within(previous)
    BY <2>4, <2>5, VerifiedIsWithin, ManagerAssumption
  <2>10. Within(prevOut')
    BY <2>2, <2>9 DEF Within
  <2> QED
    BY <2>2, <2>3, <2>7, <2>8, <2>9, <2>10
<1> QED
  BY <1>1, IInvKept, PTL DEF Spec, SwitchIsSafe
=============================================================================
