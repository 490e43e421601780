------------------------ MODULE StateTracker_proofs -------------------------
(* Proofs about StateTracker for any set of message types and readers, any   *)
(* threshold and any length of time.                                         *)
EXTENDS StateTracker, TLAPS

InverterGroups == {"rpms", "torques", "temps", "overload"}
InverterOf(c) == CASE c = "FL" -> 1 [] c = "FR" -> 2 [] c = "RL" -> 3 [] c = "RR" -> 4

(* The vectors kept twice agree, so that copying one over all four corners   *)
(* brings back nothing old.                                                  *)
KeptTwice == \A f \in RawField : vehicleState[f] = rawInput[f]

(* StampDatesData for every stamped type, whether its messages arrive or not.*)
DataIsDated ==
    \A s \in StampedTypes : \A f \in Fields(s) :
        vehicleState[f] # Unset => vehicleState[f].at = stamps[s]

(* What a corner holds of an inverter is of the inverter of that corner.     *)
CornerHasOwnInverter ==
    \A g \in InverterGroups : \A c \in Corners :
        vehicleState[<<g, c>>] # Unset => vehicleState[<<g, c>>].type[2] = InverterOf(c)

(* The inductive invariant, whatever the time stamps are at first.           *)
IInv == /\ TypeOK /\ now <= MaxTime
        /\ KeptTwice /\ DataIsDated /\ CornerHasOwnInverter

(* A message of the type has been handled.                                   *)
Heard(s) == \A f \in Fields(s) : vehicleState[f] # Unset
AllHeard == \A s \in StampedTypes : Heard(s)

(* A stamp that is set stands for a message, and is not what the memory held *)
(* at first; the stamp of a message is of the past.                          *)
SetMeansHeard == \A s \in StampedTypes : stamps[s] > 0 => Heard(s)
HeardInPast   == \A s \in StampedTypes : Heard(s) => stamps[s] <= now

(* What a reader knows before it returns, if what it copied stood for        *)
(* messages: stamps only grow after it copied them, and a verdict it has     *)
(* reached remains true of the newer ones.                                   *)
ReaderKnows ==
    \A r \in Readers :
        /\ at[r] = "copied" =>
              \A s \in StampedTypes :
                 snapshot[r][s] > 0 => Heard(s) /\ snapshot[r][s] <= stamps[s]
        /\ at[r] = "judged" /\ verdict[r] =>
              \A s \in StampedTypes : Heard(s) /\ judgedAt[r] - stamps[s] < 2 * Threshold

RInv == HeardInPast /\ ReaderKnows /\ ValidStateIsRecent

(* No reader copies a stamp that is only what the memory held.               *)
CopiesHeard == \A r \in Readers : CopyStamps(r) => SetMeansHeard

NoInitialStamps == \A x \in InitialStamps : x <= 0

-----------------------------------------------------------------------------
(* The fields that each type of message sets.                                *)
LEMMA FieldsOfStamped ==
    /\ Fields(<<"rear_suspension", 0>>) = {"loadcells", "shock_pots"} \X {"RL", "RR"}
    /\ Fields(<<"front_suspension", 0>>) = {"loadcells", "shock_pots"} \X {"FL", "FR"}
    /\ Fields(<<"pedals_system_data", 0>>) = {<<"input", "all">>}
    /\ Fields(<<"steering_data", 0>>) = {<<"steering", "all">>}
BY DEF Fields

LEMMA FieldsOfInverter ==
    ASSUME NEW t \in InverterTypes
    PROVE  \A f \in Fields(t) :
              f \in InverterGroups \X Corners /\ t[2] = InverterOf(f[2])
<1>1. t[1] \in {"inv_dynamics", "inv_temps", "inv_overload"} /\ t[2] \in 1..4
  BY DEF InverterTypes, Inverters
<1>2. CASE t[1] = "inv_dynamics"
  <2>1. Fields(t) = {"rpms", "torques"} \X {SetFromIndex(t[2] - 1)}
    BY <1>2 DEF Fields
  <2>2. SetFromIndex(t[2] - 1) \in Corners /\ InverterOf(SetFromIndex(t[2] - 1)) = t[2]
    BY <1>1 DEF SetFromIndex, Corners, InverterOf
  <2> QED
    BY <2>1, <2>2 DEF InverterGroups
<1>3. NamedCorner(t[2]) \in Corners /\ InverterOf(NamedCorner(t[2])) = t[2]
  BY <1>1 DEF NamedCorner, Corners, InverterOf
<1>4. CASE t[1] = "inv_temps"
  <2>1. Fields(t) = {"temps"} \X {NamedCorner(t[2])}
    BY <1>4 DEF Fields
  <2> QED
    BY <2>1, <1>3 DEF InverterGroups
<1>5. CASE t[1] = "inv_overload"
  <2>1. Fields(t) = {"overload"} \X {NamedCorner(t[2])}
    BY <1>5 DEF Fields
  <2> QED
    BY <2>1, <1>3 DEF InverterGroups
<1> QED
  BY <1>1, <1>2, <1>4, <1>5

LEMMA FieldsOfOther ==
    ASSUME NEW t \in OtherTypes
    PROVE  Fields(t) \subseteq {"energy_meter", "pack_voltage", "ins", "ready_to_drive",
                                "min_cell_voltage"} \X {"all"}
<1>1. t[1] \in {"em_measurement", "inv1_status", "VNData", "VCRData_s", "ACUAllData"}
  BY DEF OtherTypes
<1> QED
  BY <1>1 DEF Fields

(* A field belongs to the stamped type that sets it, and to no other type;   *)
(* no message sets the previous output; and what belongs to an inverter is   *)
(* set by that inverter alone.                                               *)
LEMMA OwnFields ==
    ASSUME NEW t \in AllTypes
    PROVE  /\ Fields(t) \subseteq Field \ {PrevOutput}
           /\ \A s \in StampedTypes : \A f \in Fields(s) : f \in Fields(t) => t = s
           /\ \A g \in InverterGroups : \A c \in Corners :
                 <<g, c>> \in Fields(t) => t[2] = InverterOf(c)
<1>1. \A s \in StampedTypes :
         Fields(s) \subseteq ({"loadcells", "shock_pots"} \X Corners)
                               \cup {<<"input", "all">>, <<"steering", "all">>}
  BY FieldsOfStamped DEF StampedTypes, Corners
<1>2. CASE t \in StampedTypes
  <2>1. Fields(t) \subseteq Field \ {PrevOutput}
    BY <1>1, <1>2 DEF Field, PrevOutput
  <2>2. \A s \in StampedTypes : \A f \in Fields(s) : f \in Fields(t) => t = s
    BY <1>2, FieldsOfStamped DEF StampedTypes
  <2>3. \A g \in InverterGroups : \A c \in Corners : <<g, c>> \notin Fields(t)
    BY <1>1, <1>2 DEF InverterGroups
  <2> QED
    BY <2>1, <2>2, <2>3
<1>3. CASE t \in InverterTypes
  <2>1. \A f \in Fields(t) : f \in InverterGroups \X Corners /\ t[2] = InverterOf(f[2])
    BY <1>3, FieldsOfInverter
  <2>2. Fields(t) \subseteq Field \ {PrevOutput}
    BY <2>1 DEF Field, PrevOutput, InverterGroups
  <2>3. \A s \in StampedTypes : \A f \in Fields(s) : f \notin Fields(t)
    BY <1>1, <2>1 DEF InverterGroups
  <2> QED
    BY <2>1, <2>2, <2>3
<1>4. CASE t \in OtherTypes
  <2>1. Fields(t) \subseteq {"energy_meter", "pack_voltage", "ins", "ready_to_drive",
                             "min_cell_voltage"} \X {"all"}
    BY <1>4, FieldsOfOther
  <2>2. Fields(t) \subseteq Field \ {PrevOutput}
    BY <2>1 DEF Field, PrevOutput
  <2>3. \A s \in StampedTypes : \A f \in Fields(s) : f \notin Fields(t)
    BY <1>1, <2>1
  <2>4. \A g \in InverterGroups : \A c \in Corners : <<g, c>> \notin Fields(t)
    BY <2>1 DEF InverterGroups
  <2> QED
    BY <2>2, <2>3, <2>4
<1> QED
  BY <1>2, <1>3, <1>4 DEF AllTypes

(* As the vectors kept twice agree, a message sets its fields and no other.  *)
LEMMA ReceiveSetsFields ==
    ASSUME TypeOK, KeptTwice, NEW t \in AllTypes, Receive(t)
    PROVE  /\ KeptTwice'
           /\ \A f \in Field :
                 vehicleState'[f] = IF f \in Fields(t) THEN Arrived(t) ELSE vehicleState[f]
<1> DEFINE copied == RawGroups \cap Groups(Fields(t))
<1>1. \A f \in RawField : rawInput'[f] = IF f \in Fields(t) THEN Arrived(t) ELSE rawInput[f]
  BY DEF Receive, Merged
<1>2. \A f \in Field : vehicleState'[f] = IF f[1] \in copied THEN rawInput'[f]
                                          ELSE IF f \in Fields(t) THEN Arrived(t)
                                          ELSE vehicleState[f]
  BY DEF Receive
<1>3. RawField \subseteq Field /\ \A f \in Field : f[1] \in RawGroups => f \in RawField
  BY DEF RawField, Field, RawGroups, PrevOutput
<1>4. \A f \in Fields(t) : f[1] \in Groups(Fields(t))
  BY DEF Groups
<1>5. ASSUME NEW f \in Field
      PROVE  vehicleState'[f] = IF f \in Fields(t) THEN Arrived(t) ELSE vehicleState[f]
  <2>1. CASE f[1] \in copied
    <3>1. f \in RawField
      BY <1>3, <2>1
    <3> QED
      BY <1>1, <1>2, <2>1, <3>1 DEF KeptTwice
  <2>2. CASE f[1] \notin copied
    BY <1>2, <2>2
  <2> QED
    BY <2>1, <2>2
<1>6. KeptTwice'
  <2> SUFFICES ASSUME NEW f \in RawField
               PROVE  vehicleState'[f] = rawInput'[f]
    BY DEF KeptTwice
  <2> QED
    BY <1>1, <1>3, <1>5 DEF KeptTwice
<1> QED
  BY <1>5, <1>6

-----------------------------------------------------------------------------
LEMMA ValuesAreTyped ==
    /\ Unset \in Value
    /\ [type |-> <<"controller", 0>>, at |-> 0] \in Value
    /\ PrevOutput \in Field
    /\ NoStamps \in [StampedTypes -> Int]
    /\ Nothing \in [state : [Field -> Value], valid : BOOLEAN]
<1>1. <<"none", 0>> \in (AllTypes \ StampedTypes) \cup {<<"none", 0>>, <<"controller", 0>>}
  OBVIOUS
<1>2. Unset \in Value /\ [type |-> <<"controller", 0>>, at |-> 0] \in Value
  BY <1>1 DEF Unset, Value
<1>3. [f \in Field |-> Unset] \in [Field -> Value] /\ FALSE \in BOOLEAN
  BY <1>2
<1>4. Nothing \in [state : [Field -> Value], valid : BOOLEAN]
  BY <1>3, Zenon DEF Nothing
<1> QED
  BY <1>2, <1>4 DEF PrevOutput, Field, NoStamps

LEMMA ArrivedIsValue ==
    ASSUME TypeOK, now <= MaxTime, TrackerAssumption, NEW t \in AllTypes
    PROVE  /\ Arrived(t) \in Value
           /\ Arrived(t).type = t
           /\ Arrived(t) # Unset
           /\ t \in StampedTypes => Arrived(t).at = now
<1>1. now \in 1 .. MaxTime
  BY DEF TypeOK, TrackerAssumption
<1>2. t # <<"none", 0>>
  BY DEF AllTypes, StampedTypes, InverterTypes, OtherTypes
<1> QED
  BY <1>1, <1>2 DEF Arrived, Value, Unset

LEMMA IInvInit ==
    ASSUME TrackerAssumption, Init
    PROVE  IInv
<1>1. TypeOK
  <2>1. now \in Nat \ {0} /\ stamps \in [StampedTypes -> Int]
    <3>1. now = 1 /\ stamps \in [StampedTypes -> InitialStamps] /\ InitialStamps \subseteq Int
      BY DEF Init, TrackerAssumption
    <3>2. now \in Nat \ {0}
      BY <3>1
    <3>3. stamps \in [StampedTypes -> Int]
      BY <3>1, Zenon
    <3> QED
      BY <3>2, <3>3
  <2>6. rawInput \in [RawField -> Value] /\ vehicleState \in [Field -> Value]
    <3>1. /\ rawInput = [f \in RawField |-> Unset] /\ vehicleState = [f \in Field |-> Unset]
          /\ Unset \in Value
      BY ValuesAreTyped DEF Init
    <3> QED
      BY <3>1
  <2>2. /\ at \in [Readers -> {"idle", "copied", "judged", "returned"}]
        /\ snapshot \in [Readers -> [StampedTypes -> Int]] /\ judgedAt \in [Readers -> Nat]
    BY ValuesAreTyped DEF Init, TrackerAssumption
  <2>3. stateIsValid \in BOOLEAN
    BY Zenon DEF Init
  <2>4. verdict \in [Readers -> BOOLEAN]
    BY DEF Init
  <2>5. seen \in [Readers -> [state : [Field -> Value], valid : BOOLEAN]]
    BY ValuesAreTyped DEF Init
  <2> QED
    BY <2>1, <2>2, <2>3, <2>4, <2>5, <2>6 DEF TypeOK
<1>2. now <= MaxTime
  BY DEF Init, TrackerAssumption
<1>3. KeptTwice /\ \A f \in Field : vehicleState[f] = Unset
  BY DEF Init, KeptTwice, RawField, RawGroups, Field
<1>4. DataIsDated
  <2>1. \A s \in StampedTypes : Fields(s) \subseteq Field
    BY OwnFields DEF AllTypes
  <2> QED
    BY <1>3, <2>1 DEF DataIsDated
<1>5. CornerHasOwnInverter
  BY <1>3 DEF CornerHasOwnInverter, InverterGroups, Field
<1> QED
  BY <1>1, <1>2, <1>3, <1>4, <1>5 DEF IInv

(* Each action keeps the types.                                              *)
LEMMA TypeStep ==
    ASSUME TrackerAssumption, IInv, [Next]_vars
    PROVE  TypeOK' /\ now' <= MaxTime
<1> USE DEF IInv
<1> DEFINE Data == /\ stamps \in [StampedTypes -> Int]
                   /\ rawInput \in [RawField -> Value]
                   /\ vehicleState \in [Field -> Value]
           Reading == /\ at \in [Readers -> {"idle", "copied", "judged", "returned"}]
                      /\ snapshot \in [Readers -> [StampedTypes -> Int]]
                      /\ judgedAt \in [Readers -> Nat]
           Seen == seen \in [Readers -> [state : [Field -> Value], valid : BOOLEAN]]
           Verdicts == stateIsValid \in BOOLEAN /\ verdict \in [Readers -> BOOLEAN]
           Clock == now \in Nat \ {0} /\ now <= MaxTime
<1>1. Data /\ Reading /\ Seen /\ Verdicts /\ Clock
  BY DEF TypeOK
<1>2. Data' /\ Reading' /\ Seen' /\ Verdicts' /\ Clock' => TypeOK' /\ now' <= MaxTime
  BY DEF TypeOK
<1>3. /\ UNCHANGED received => Data'
      /\ UNCHANGED <<at, snapshot, judgedAt>> => Reading'
      /\ UNCHANGED seen => Seen'
      /\ UNCHANGED <<stateIsValid, verdict>> => Verdicts'
      /\ UNCHANGED now => Clock'
  BY <1>1 DEF received
<1>5. CASE UNCHANGED vars
  BY <1>2, <1>3, <1>5 DEF vars, readers
<1>6. CASE Tick
  <2>1. Clock'
    BY <1>1, <1>6 DEF Tick, TrackerAssumption
  <2> QED
    BY <1>2, <1>3, <1>6, <2>1 DEF Tick, readers
<1>7. ASSUME NEW t \in MessageTypes, Receive(t) PROVE TypeOK' /\ now' <= MaxTime
  <2>1. t \in AllTypes
    BY DEF TrackerAssumption
  <2>2. Arrived(t) \in Value
    BY <2>1, ArrivedIsValue
  <2>3. stamps' \in [StampedTypes -> Int]
    BY <1>1, <1>7 DEF Receive
  <2>4. rawInput' \in [RawField -> Value]
    BY <1>1, <1>7, <2>2 DEF Receive, Merged
  <2>5. vehicleState' \in [Field -> Value]
    <3>1. \A f \in Field : vehicleState'[f] \in Value
      BY <1>1, <1>7, <2>1, <2>2, ReceiveSetsFields
    <3>2. vehicleState' = [f \in Field |-> vehicleState'[f]]
      BY <1>7 DEF Receive
    <3> QED
      BY <3>1, <3>2
  <2> QED
    BY <1>2, <1>3, <1>7, <2>3, <2>4, <2>5 DEF Receive, readers
<1>8. ASSUME NEW r \in Readers, CopyStamps(r) PROVE TypeOK' /\ now' <= MaxTime
  <2>1. Reading'
    BY <1>1, <1>8 DEF CopyStamps
  <2> QED
    BY <1>2, <1>3, <1>8, <2>1 DEF CopyStamps
<1>9. ASSUME NEW r \in Readers, ValidateTimestamps(r) PROVE TypeOK' /\ now' <= MaxTime
  <2>1. Reading'
    BY <1>1, <1>9, ValuesAreTyped DEF ValidateTimestamps
  <2>2. ValidStamps(snapshot[r], now) \in BOOLEAN
    BY DEF ValidStamps
  <2>3. Verdicts'
    BY <1>1, <1>9, <2>2 DEF ValidateTimestamps
  <2> QED
    BY <1>2, <1>3, <1>9, <2>1, <2>3 DEF ValidateTimestamps
<1>10. ASSUME NEW r \in Readers, ReturnLatestState(r) PROVE TypeOK' /\ now' <= MaxTime
  <2>1. Reading'
    BY <1>1, <1>10 DEF ReturnLatestState
  <2>2. verdict[r] \in BOOLEAN /\ FALSE \in BOOLEAN
    BY <1>1
  <2>3. Verdicts'
    BY <1>1, <1>10, <2>2 DEF ReturnLatestState
  <2>4. Seen'
    BY <1>1, <1>10, <2>2 DEF ReturnLatestState
  <2> QED
    BY <1>2, <1>3, <1>10, <2>1, <2>3, <2>4 DEF ReturnLatestState
<1>11. ASSUME NEW r \in Readers, Forget(r), UNCHANGED snapshot PROVE Reading' /\ Seen'
  BY <1>1, <1>11, ValuesAreTyped DEF Forget
<1>12. ASSUME NEW r \in Readers, SetPreviousControlOutput(r)
       PROVE  TypeOK' /\ now' <= MaxTime
  <2>1. Data'
    BY <1>1, <1>12, ValuesAreTyped DEF SetPreviousControlOutput
  <2> QED
    BY <1>2, <1>3, <1>11, <1>12, <2>1 DEF SetPreviousControlOutput
<1>13. ASSUME NEW r \in Readers, ReaderForgets(r) PROVE TypeOK' /\ now' <= MaxTime
  BY <1>2, <1>3, <1>11, <1>13 DEF ReaderForgets
<1> QED
  BY <1>5, <1>6, <1>7, <1>8, <1>9, <1>10, <1>12, <1>13 DEF Next, Read

(* Each action keeps the data dated, and each corner to its inverter.        *)
LEMMA DataStep ==
    ASSUME TrackerAssumption, IInv, [Next]_vars
    PROVE  KeptTwice' /\ DataIsDated' /\ CornerHasOwnInverter'
<1> USE DEF IInv
<1> DEFINE Goal == KeptTwice' /\ DataIsDated' /\ CornerHasOwnInverter'
<1>1. CASE UNCHANGED received
  BY <1>1 DEF received, KeptTwice, DataIsDated, CornerHasOwnInverter
<1>2. ASSUME NEW t \in MessageTypes, Receive(t) PROVE Goal
  <2>1. t \in AllTypes
    BY DEF TrackerAssumption
  <2>2. /\ KeptTwice'
        /\ \A f \in Field :
              vehicleState'[f] = IF f \in Fields(t) THEN Arrived(t) ELSE vehicleState[f]
    BY <1>2, <2>1, ReceiveSetsFields
  <2>3. /\ Arrived(t).type = t /\ (t \in StampedTypes => Arrived(t).at = now)
    BY <2>1, ArrivedIsValue
  <2>4. \A s \in StampedTypes : stamps'[s] = IF s = t THEN now ELSE stamps[s]
    BY <1>2 DEF Receive, TypeOK
  <2>5. ASSUME NEW s \in StampedTypes, NEW f \in Fields(s), vehicleState'[f] # Unset
        PROVE  vehicleState'[f].at = stamps'[s]
    <3>1. f \in Field /\ (f \in Fields(t) => t = s)
      BY <2>1, OwnFields DEF AllTypes
    <3>2. CASE t = s
      BY <2>2, <2>3, <2>4, <3>1, <3>2
    <3>3. CASE t # s
      BY <2>2, <2>4, <2>5, <3>1, <3>3 DEF DataIsDated
    <3> QED
      BY <3>2, <3>3
  <2>6. ASSUME NEW g \in InverterGroups, NEW c \in Corners, vehicleState'[<<g, c>>] # Unset
        PROVE  vehicleState'[<<g, c>>].type[2] = InverterOf(c)
    <3>1. <<g, c>> \in Field
      BY DEF Field, InverterGroups
    <3>2. <<g, c>> \in Fields(t) => t[2] = InverterOf(c)
      BY <2>1, OwnFields
    <3> QED
      BY <2>2, <2>3, <2>6, <3>1, <3>2 DEF CornerHasOwnInverter
  <2> QED
    BY <2>2, <2>5, <2>6 DEF DataIsDated, CornerHasOwnInverter
<1>3. ASSUME NEW r \in Readers, SetPreviousControlOutput(r) PROVE Goal
  <2>1. /\ UNCHANGED <<stamps, rawInput>>
        /\ \A f \in Field : f # PrevOutput => vehicleState'[f] = vehicleState[f]
    BY <1>3 DEF SetPreviousControlOutput, TypeOK
  <2>2. /\ RawField \subseteq Field \ {PrevOutput}
        /\ \A s \in StampedTypes : Fields(s) \subseteq Field \ {PrevOutput}
        /\ \A g \in InverterGroups : \A c \in Corners : <<g, c>> \in Field \ {PrevOutput}
    <3>1. \A s \in StampedTypes : Fields(s) \subseteq Field \ {PrevOutput}
      BY OwnFields DEF AllTypes
    <3> QED
      BY <3>1 DEF RawField, RawGroups, Field, PrevOutput, InverterGroups
  <2> QED
    BY <2>1, <2>2 DEF KeptTwice, DataIsDated, CornerHasOwnInverter
<1> QED
  BY <1>1, <1>2, <1>3 DEF Next, Read, Tick, CopyStamps, ValidateTimestamps,
     ReturnLatestState, ReaderForgets, vars

LEMMA IInvKept == Spec => []IInv
<1>1. Init => IInv
  BY IInvInit, TrackerAssumption
<1>2. IInv /\ [Next]_vars => IInv'
  BY TypeStep, DataStep, TrackerAssumption DEF IInv
<1> QED
  BY <1>1, <1>2, PTL DEF Spec

-----------------------------------------------------------------------------
(* A verdict that the stamps are valid bounds the age of each of them.       *)
LEMMA ValidStampsAreRecent ==
    ASSUME TrackerAssumption, NEW s \in [StampedTypes -> Int], NEW time \in Int,
           ValidStamps(s, time)
    PROVE  \A b \in StampedTypes : s[b] > 0 /\ time - s[b] < 2 * Threshold
<1>1. PICK a \in StampedTypes : time - s[a] < Threshold
  BY DEF ValidStamps, RecentEnough
<1> SUFFICES ASSUME NEW b \in StampedTypes
             PROVE  s[b] > 0 /\ time - s[b] < 2 * Threshold
  OBVIOUS
<1>2. s[a] - s[b] <= Threshold /\ s[b] > 0 /\ s[a] \in Int /\ s[b] \in Int /\ Threshold \in Int
  BY DEF ValidStamps, WithinThreshold, AllMembersReceived, TrackerAssumption
<1> QED
  BY <1>1, <1>2

LEMMA RInvInit ==
    ASSUME Init
    PROVE  RInv
<1>1. \A r \in Readers : at[r] = "idle"
  BY DEF Init
<1>2. \A s \in StampedTypes : ~Heard(s)
  <2>1. \A s \in StampedTypes : \E f \in Fields(s) : f \in Field
    <3>1. /\ <<"loadcells", "RL">> \in Fields(<<"rear_suspension", 0>>)
          /\ <<"loadcells", "FL">> \in Fields(<<"front_suspension", 0>>)
          /\ <<"input", "all">> \in Fields(<<"pedals_system_data", 0>>)
          /\ <<"steering", "all">> \in Fields(<<"steering_data", 0>>)
      BY FieldsOfStamped
    <3>2. \A s \in StampedTypes : \E f : f \in Fields(s)
      BY <3>1 DEF StampedTypes
    <3> QED
      BY <3>2, OwnFields DEF AllTypes
  <2> QED
    BY <2>1 DEF Init, Heard
<1> QED
  BY <1>1, <1>2 DEF RInv, HeardInPast, ReaderKnows, ValidStateIsRecent

(* A message makes its stamp newer and its data present.                     *)
LEMMA ReceiveRenews ==
    ASSUME TrackerAssumption, IInv, HeardInPast, NEW t \in MessageTypes, Receive(t)
    PROVE  /\ HeardInPast' /\ (SetMeansHeard => SetMeansHeard')
           /\ \A s \in StampedTypes :
                 /\ stamps'[s] \in Int
                 /\ Heard(s) => Heard(s)' /\ stamps[s] <= stamps'[s]
<1>1. /\ t \in AllTypes /\ TypeOK /\ KeptTwice /\ now <= MaxTime /\ now \in Nat
      /\ \A s \in StampedTypes : stamps[s] \in Int
  BY DEF TrackerAssumption, IInv, TypeOK
<1>2. \A f \in Field :
         vehicleState'[f] = IF f \in Fields(t) THEN Arrived(t) ELSE vehicleState[f]
  BY <1>1, ReceiveSetsFields
<1>3. Arrived(t) # Unset
  BY <1>1, ArrivedIsValue
<1>4. now' = now /\ \A s \in StampedTypes : stamps'[s] = IF s = t THEN now ELSE stamps[s]
  BY <1>1 DEF Receive, TypeOK
<1>5. ASSUME NEW s \in StampedTypes
      PROVE  /\ stamps'[s] \in Int
             /\ Heard(s) => Heard(s)' /\ stamps[s] <= stamps'[s]
             /\ Heard(s)' => stamps'[s] <= now'
             /\ (stamps[s] > 0 => Heard(s)) => (stamps'[s] > 0 => Heard(s)')
  <2>1. \A f \in Fields(s) : f \in Field /\ (f \in Fields(t) => t = s)
    BY <1>1, OwnFields DEF AllTypes
  <2>2. CASE s = t
    <3>1. Heard(s)' /\ stamps'[s] = now
      BY <2>1, <2>2, <1>2, <1>3, <1>4 DEF Heard
    <3> QED
      BY <3>1, <1>1, <1>4 DEF HeardInPast
  <2>3. CASE s # t
    <3>1. \A f \in Fields(s) : vehicleState'[f] = vehicleState[f]
      BY <2>1, <2>3, <1>2
    <3>2. Heard(s)' = Heard(s) /\ stamps'[s] = stamps[s]
      BY <3>1, <2>3, <1>4 DEF Heard
    <3> QED
      BY <3>2, <1>1, <1>4 DEF HeardInPast
  <2> QED
    BY <2>2, <2>3
<1> QED
  BY <1>5 DEF HeardInPast, SetMeansHeard

(* What a reader does keeps the fields of the stamped types.                 *)
LEMMA ReadKeepsHeard ==
    ASSUME TypeOK, NEW r \in Readers, Read(r)
    PROVE  \A s \in StampedTypes : Heard(s)' = Heard(s)
<1>1. \A s \in StampedTypes : \A f \in Fields(s) : f \in Field /\ f # PrevOutput
  BY OwnFields DEF AllTypes
<1>2. \A f \in Field : f # PrevOutput => vehicleState'[f] = vehicleState[f]
  BY DEF Read, CopyStamps, ValidateTimestamps, ReturnLatestState,
     SetPreviousControlOutput, ReaderForgets, received, TypeOK
<1> QED
  BY <1>1, <1>2 DEF Heard

LEMMA RInvStep ==
    ASSUME TrackerAssumption, IInv, RInv, CopiesHeard, [Next]_vars
    PROVE  RInv'
<1> DEFINE Knows(r) ==
               /\ at[r] = "copied" =>
                     \A s \in StampedTypes :
                        snapshot[r][s] > 0 => Heard(s) /\ snapshot[r][s] <= stamps[s]
               /\ at[r] = "judged" /\ verdict[r] =>
                     \A s \in StampedTypes :
                        Heard(s) /\ judgedAt[r] - stamps[s] < 2 * Threshold
           Recent(r) ==
               at[r] = "returned" /\ seen[r].valid =>
                  \A s \in StampedTypes : \A f \in Fields(s) :
                     /\ seen[r].state[f] # Unset
                     /\ judgedAt[r] - seen[r].state[f].at < 2 * Threshold
<1>1. /\ TypeOK /\ DataIsDated /\ HeardInPast
      /\ \A r \in Readers : Knows(r) /\ Recent(r)
  BY DEF IInv, RInv, ReaderKnows, ValidStateIsRecent
<1>2. (HeardInPast' /\ \A r \in Readers : Knows(r)' /\ Recent(r)') => RInv'
  BY DEF RInv, ReaderKnows, ValidStateIsRecent
<1>3. /\ \A s \in StampedTypes : stamps[s] \in Int
      /\ \A r \in Readers : /\ snapshot[r] \in [StampedTypes -> Int] /\ judgedAt[r] \in Int
                            /\ verdict[r] \in BOOLEAN
      /\ Threshold \in Int /\ now \in Nat
  BY DEF IInv, TypeOK, TrackerAssumption
<1>4. UNCHANGED <<now, stamps, vehicleState>> => HeardInPast'
  BY <1>1 DEF HeardInPast, Heard
<1>5. ASSUME NEW r \in Readers, at'[r] = at[r], snapshot'[r] = snapshot[r],
             verdict'[r] = verdict[r], judgedAt'[r] = judgedAt[r], seen'[r] = seen[r],
             \A s \in StampedTypes :
                /\ stamps'[s] \in Int
                /\ Heard(s) => Heard(s)' /\ stamps[s] <= stamps'[s]
      PROVE  Knows(r)' /\ Recent(r)'
  BY <1>1, <1>3, <1>5
<1>6. CASE UNCHANGED vars
  <2>1. \A s \in StampedTypes : Heard(s)' = Heard(s)
    BY <1>6 DEF vars, received, Heard
  <2> QED
    BY <1>2, <1>3, <1>4, <1>5, <1>6, <2>1 DEF vars, received, readers
<1>7. CASE Tick
  <2>1. HeardInPast'
    BY <1>1, <1>3, <1>7 DEF Tick, HeardInPast, Heard, received
  <2>2. \A s \in StampedTypes : Heard(s)' = Heard(s)
    BY <1>7 DEF Tick, Heard, received
  <2> QED
    BY <1>2, <1>3, <1>5, <1>7, <2>1, <2>2 DEF Tick, received, readers
<1>8. ASSUME NEW t \in MessageTypes, Receive(t) PROVE RInv'
  <2>1. /\ HeardInPast'
        /\ \A s \in StampedTypes :
              /\ stamps'[s] \in Int
              /\ Heard(s) => Heard(s)' /\ stamps[s] <= stamps'[s]
    BY <1>1, <1>8, ReceiveRenews
  <2> QED
    BY <1>2, <1>5, <1>8, <2>1 DEF Receive, readers
<1>9. ASSUME NEW r \in Readers, Read(r) PROVE RInv'
  <2>1. ASSUME NEW q \in Readers, q # r
        PROVE  /\ at'[q] = at[q] /\ snapshot'[q] = snapshot[q] /\ verdict'[q] = verdict[q]
               /\ judgedAt'[q] = judgedAt[q] /\ seen'[q] = seen[q]
    BY <1>1, <1>9, <2>1 DEF Read, CopyStamps, ValidateTimestamps, ReturnLatestState,
       SetPreviousControlOutput, ReaderForgets, Forget, TypeOK
  <2>2. stamps' = stamps /\ now' = now
    BY <1>9 DEF Read, CopyStamps, ValidateTimestamps, ReturnLatestState,
       SetPreviousControlOutput, ReaderForgets, received
  <2>3. \A s \in StampedTypes : Heard(s)' = Heard(s)
    BY <1>1, <1>9, ReadKeepsHeard
  <2>4. HeardInPast' /\ \A q \in Readers : q # r => Knows(q)' /\ Recent(q)'
    BY <1>1, <1>3, <1>5, <2>1, <2>2, <2>3 DEF HeardInPast
  <2>5. Knows(r)' /\ Recent(r)'
    <3>1. CASE CopyStamps(r)
      <4>1. at'[r] = "copied" /\ snapshot'[r] = stamps
        BY <1>1, <3>1 DEF CopyStamps, TypeOK
      <4>2. SetMeansHeard
        BY <3>1 DEF CopiesHeard
      <4> QED
        BY <4>1, <4>2, <2>2, <2>3, <1>3 DEF SetMeansHeard
    <3>2. CASE ValidateTimestamps(r)
      <4>1. /\ at[r] = "copied" /\ at'[r] = "judged" /\ judgedAt'[r] = now
            /\ verdict'[r] = ValidStamps(snapshot[r], now)
        BY <1>1, <3>2 DEF ValidateTimestamps, TypeOK
      <4>2. ASSUME verdict'[r], NEW s \in StampedTypes
            PROVE  Heard(s) /\ now - stamps[s] < 2 * Threshold
        <5>1. ValidStamps(snapshot[r], now)
          BY <4>1, <4>2, Zenon
        <5>2. snapshot[r][s] > 0 /\ now - snapshot[r][s] < 2 * Threshold
          <6>1. PICK t \in [StampedTypes -> Int] : t = snapshot[r]
            BY <1>1 DEF TypeOK
          <6>2. ValidStamps(t, now) /\ now \in Int
            BY <5>1, <6>1, <1>1 DEF TypeOK
          <6>3. t[s] > 0 /\ now - t[s] < 2 * Threshold
            BY <6>2, ValidStampsAreRecent
          <6> QED
            BY <6>1, <6>3
        <5>3. Heard(s) /\ snapshot[r][s] <= stamps[s] /\ snapshot[r][s] \in Int /\ stamps[s] \in Int
          BY <1>1, <1>3, <4>1, <5>2
        <5> QED
          BY <5>2, <5>3, <1>3
      <4> QED
        BY <4>1, <4>2, <2>2, <2>3
    <3>3. CASE ReturnLatestState(r)
      <4>1. /\ at[r] = "judged" /\ at'[r] = "returned" /\ judgedAt' = judgedAt
            /\ seen'[r] = [state |-> vehicleState, valid |-> verdict[r]]
        BY <1>1, <3>3 DEF ReturnLatestState, TypeOK
      <4>2. ASSUME verdict[r], NEW s \in StampedTypes, NEW f \in Fields(s)
            PROVE  vehicleState[f] # Unset /\ judgedAt[r] - vehicleState[f].at < 2 * Threshold
        <5>1. Heard(s) /\ judgedAt[r] - stamps[s] < 2 * Threshold
          BY <1>1, <4>1, <4>2
        <5>2. vehicleState[f] # Unset
          BY <5>1 DEF Heard
        <5>3. vehicleState[f].at = stamps[s]
          BY <1>1, <5>2 DEF DataIsDated
        <5> QED
          BY <5>1, <5>2, <5>3
      <4> QED
        BY <4>1, <4>2
    <3>4. CASE SetPreviousControlOutput(r) \/ ReaderForgets(r)
      <4>1. at'[r] = "idle"
        BY <1>1, <3>4 DEF SetPreviousControlOutput, ReaderForgets, Forget, TypeOK
      <4> QED
        BY <4>1
    <3> QED
      BY <1>9, <3>1, <3>2, <3>3, <3>4 DEF Read
  <2> QED
    BY <1>2, <2>4, <2>5
<1> QED
  BY <1>6, <1>7, <1>8, <1>9 DEF Next

-----------------------------------------------------------------------------
(* Every variable of the tracker and of its readers keeps its type.          *)
THEOREM TypesKept == Spec => []TypeOK
BY IInvKept, PTL DEF IInv

(* Each field that a stamped message sets holds the value of that stamp.     *)
THEOREM StampsDateData == Spec => []StampDatesData
<1>1. IInv => StampDatesData
  BY DEF IInv, DataIsDated, StampDatesData
<1> QED
  BY <1>1, IInvKept, PTL

(* What a corner holds of an inverter is of one inverter, whether a handler  *)
(* indexes the vector or names the corner.                                   *)
THEOREM CornersNotMixed == Spec => []CornerIsOneInverter
<1>1. IInv => CornerIsOneInverter
  BY DEF IInv, CornerHasOwnInverter, CornerIsOneInverter, InverterGroups
<1> QED
  BY <1>1, IInvKept, PTL

(* Whatever the memory of the time stamps holds at first: as long as no      *)
(* reader copies them before each of the four stamped messages was handled   *)
(* once, what it is given as valid is data of all four, none of it two       *)
(* thresholds old.                                                           *)
THEOREM HeardFirstIsRecent ==
    Spec /\ [][\A r \in Readers : CopyStamps(r) => AllHeard]_vars => []ValidStateIsRecent
<1>1. Init => RInv
  BY RInvInit
<1>2. IInv /\ RInv /\ [Next]_vars /\ [\A r \in Readers : CopyStamps(r) => AllHeard]_vars => RInv'
  <2> SUFFICES ASSUME IInv, RInv, [Next]_vars,
                      [\A r \in Readers : CopyStamps(r) => AllHeard]_vars
               PROVE  RInv'
    OBVIOUS
  <2>1. CASE UNCHANGED vars
    BY <2>1 DEF RInv, HeardInPast, Heard, ReaderKnows, ValidStateIsRecent, vars, received, readers
  <2>2. CASE \A r \in Readers : CopyStamps(r) => AllHeard
    BY <2>2, RInvStep, TrackerAssumption DEF CopiesHeard, AllHeard, SetMeansHeard
  <2> QED
    BY <2>1, <2>2
<1>3. RInv => ValidStateIsRecent
  BY DEF RInv
<1> QED
  BY <1>1, <1>2, <1>3, IInvKept, PTL DEF Spec

(* Unless the time stamps hold something at first, this is so for every      *)
(* reader: it is given as valid only data of all four stamped types, none of *)
(* it two thresholds old.                                                    *)
THEOREM ValidIsRecent == ASSUME NoInitialStamps PROVE Spec => []ValidStateIsRecent
<1>1. Init => RInv /\ SetMeansHeard
  <2>1. ASSUME Init PROVE SetMeansHeard
    <3>1. \A s \in StampedTypes : stamps[s] \in Int /\ stamps[s] <= 0
      BY <2>1, TrackerAssumption DEF Init, NoInitialStamps, TrackerAssumption
    <3> QED
      BY <3>1 DEF SetMeansHeard
  <2> QED
    BY <2>1, RInvInit
<1>2. IInv /\ RInv /\ SetMeansHeard /\ [Next]_vars => (RInv /\ SetMeansHeard)'
  <2> SUFFICES ASSUME IInv, RInv, SetMeansHeard, [Next]_vars
               PROVE  SetMeansHeard'
    BY RInvStep, TrackerAssumption DEF CopiesHeard
  <2>1. CASE Tick \/ UNCHANGED vars
    BY <2>1 DEF SetMeansHeard, Heard, Tick, vars, received
  <2>2. ASSUME NEW t \in MessageTypes, Receive(t) PROVE SetMeansHeard'
    BY <2>2, ReceiveRenews, TrackerAssumption DEF RInv
  <2>3. ASSUME NEW r \in Readers, Read(r) PROVE SetMeansHeard'
    <3>1. stamps' = stamps
      BY <2>3 DEF Read, CopyStamps, ValidateTimestamps, ReturnLatestState,
         SetPreviousControlOutput, ReaderForgets, received
    <3> QED
      BY <2>3, <3>1, ReadKeepsHeard DEF SetMeansHeard, IInv
  <2> QED
    BY <2>1, <2>2, <2>3 DEF Next
<1>3. RInv => ValidStateIsRecent
  BY DEF RInv
<1> QED
  BY <1>1, <1>2, <1>3, IInvKept, PTL DEF Spec
=============================================================================
