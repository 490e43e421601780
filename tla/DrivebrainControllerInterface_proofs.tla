---------------- MODULE DrivebrainControllerInterface_proofs ----------------
(* Proofs about DrivebrainControllerInterface and the parameter server it    *)
(* extends (FoxgloveServer), for any parameters, any values a client sends   *)
(* and any width of an int.                                                  *)
EXTENDS DrivebrainControllerInterface, SequenceTheorems, TLAPS

(* The numbers that an int holds.                                            *)
IntRange == -(IntSize \div 2) .. (IntSize \div 2 - 1)
IntsFit == \A p \in Params : params[p].type = "int" => params[p].val \in IntRange

(* The worker thread signals exactly while the callback runs, and there is   *)
(* one set of parameters outside the lock, that of the last change.          *)
ServerAndCallback ==
    /\ handler = "signalling" <=> slot # "idle"
    /\ copy = params
    /\ handler # "idle" => changes > 0

(* A callback that has run was registered, and boot goes only forward.       *)
BootIsPast ==
    /\ Registered(ran) => Registered(boot)
    /\ ran = "ready" => boot = "ready"
    /\ slot \in {"starting", "joining", "switching"} => Registered(boot)

(* What the callback has done by the time it reaches a slot.                 *)
CallbackDecides ==
    /\ slot = "starting" => WantsLogging
    /\ slot = "joining" => ~WantsLogging /\ ~logging
    /\ slot = "switching" => logging = WantsLogging
    /\ slot = "returned" /\ Registered(ran) => logging = WantsLogging
    /\ slot = "returned" /\ ran = "ready" =>
          active = WantedIndex \/ WantedIndex < 0 \/ rejected

(* And what holds of the flag once it is gone.                               *)
FlagFollows == handler = "idle" /\ Registered(ran) => logging = (params[ShouldLog].val # 0)

(* The writer and the recording agree with the flag, but while it changes.   *)
LoggerFits ==
    /\ boot \notin {"serving", "opened"} /\ slot \notin {"starting", "joining"} =>
          IF logging THEN writer # "none" ELSE writer = "none" /\ shown = NoFile
    /\ running => writer # "done"

(* The parameters that the open recording will show once all is written, and *)
(* those it should: a change that is not logged yet is not among them.       *)
Latest == IF pending = <<>> THEN shown ELSE Last(pending)
Due    == IF handler = "applied" THEN changes - 1 ELSE changes

RecordingIsCurrent ==
    /\ early <= Due
    /\ shown # NoFile => Latest = IF Due > early THEN Due ELSE 0

IInv == /\ TypeOK /\ TypesNeverChange /\ IntsFit
        /\ ServerAndCallback /\ BootIsPast /\ CallbackDecides /\ FlagFollows
        /\ RequestIsDecided /\ LoggerFits /\ RecordingIsCurrent

-----------------------------------------------------------------------------
(* The conversions. An int64_t that is made an int fits it, and is unchanged *)
(* if it did.                                                                *)
LEMMA NarrowedFits ==
    ASSUME ParamAssumption, NEW n \in Int
    PROVE  /\ Narrowed(n) \in IntRange
           /\ n \in IntRange => Narrowed(n) = n
<1>1. PICK half \in Nat : IntSize = 2 * half /\ half > 0 /\ IntSize \div 2 = half
  BY DEF ParamAssumption
<1>2. (n + half) % IntSize \in 0 .. IntSize - 1
  BY <1>1
<1>3. ASSUME n \in IntRange PROVE (n + half) % IntSize = n + half
  <2>1. n + half \in 0 .. IntSize - 1
    BY <1>1, <1>3 DEF IntRange
  <2> QED
    BY <1>1, <2>1
<1>4. Narrowed(n) = ((n + half) % IntSize) - half
  BY <1>1 DEF Narrowed
<1> QED
  BY <1>1, <1>2, <1>3, <1>4 DEF IntRange

LEMMA WiresDiffer ==
    /\ Wire("int") = "integer" /\ Wire("float") = "double"
    /\ Wire("bool") = "bool" /\ Wire("string") = "string"
    /\ DBType("integer") = "int" /\ DBType("double") = "float"
    /\ DBType("bool") = "bool" /\ DBType("string") = "string"
BY DEF Wire, DBType

(* A value that is taken has the type of the one it replaces, and fits it.   *)
LEMMA UpdatedKeepsType ==
    ASSUME ParamAssumption, NEW v \in DBParam, NEW w \in WireParam,
           v.type = "int" => v.val \in IntRange
    PROVE  LET u == Updated(v, w) IN
           u \in DBParam /\ u.type = v.type /\ (u.type = "int" => u.val \in IntRange)
<1> DEFINE c == Converted(v, w)
<1>1. CASE ~Convertible(v, w)
  BY <1>1 DEF Updated
<1>2. CASE Convertible(v, w)
  <2>1. c.type = Wire(v.type) /\ c.val \in Int
    BY <1>2, WiresDiffer DEF Converted, Convertible, Published, Truncated, DBParam, WireParam
  <2>2. DBType(c.type) = v.type /\ v.type \in DBTypes
    BY <2>1, WiresDiffer DEF DBParam, DBTypes
  <2>3. c.type = "integer" <=> v.type = "int"
    BY <2>1, <2>2, WiresDiffer DEF DBTypes
  <2>4. Updated(v, w) = [type |-> v.type,
                         val |-> IF c.type = "integer" THEN Narrowed(c.val) ELSE c.val]
    BY <1>2, <2>2 DEF Updated, Stored
  <2>5. Narrowed(c.val) \in IntRange /\ IntRange \subseteq Int
    BY <2>1, NarrowedFits DEF IntRange
  <2>6. CASE c.type = "integer"
    <3>1. Updated(v, w) = [type |-> v.type, val |-> Narrowed(c.val)]
      BY <2>4, <2>6
    <3>2. PICK n \in IntRange : n = Narrowed(c.val) /\ n \in Int
      BY <2>5
    <3>3. Updated(v, w) = [type |-> v.type, val |-> n]
      BY <3>1, <3>2
    <3> QED
      BY <2>2, <3>2, <3>3 DEF DBParam
  <2>7. CASE c.type # "integer"
    <3>1. Updated(v, w) = [type |-> v.type, val |-> c.val] /\ v.type # "int"
      BY <2>3, <2>4, <2>7
    <3> QED
      BY <2>1, <2>2, <3>1 DEF DBParam
  <2> QED
    BY <2>6, <2>7
<1> QED
  BY <1>1, <1>2

(* What the server published comes back as it is, whatever JSON makes of it. *)
LEMMA PublishedComesBack ==
    ASSUME ParamAssumption, NEW v \in DBParam, v.type = "int" => v.val \in IntRange
    PROVE  /\ Updated(v, Published(v)) = v
           /\ v.type = "int" => Updated(v, [type |-> "double", val |-> 2 * v.val]) = v
           /\ v.type = "float" /\ v.val % 2 = 0 =>
                 Updated(v, [type |-> "integer", val |-> v.val \div 2]) = v
<1>1. v = [type |-> v.type, val |-> v.val] /\ v.type \in DBTypes /\ v.val \in Int
  BY DEF DBParam
<1>2. v.type = "int" => Narrowed(v.val) = v.val
  BY <1>1, NarrowedFits
<1>3. Updated(v, Published(v)) = v
  <2>1. Updated(v, Published(v)) = Stored(Published(v))
    BY DEF Updated, Convertible, Converted
  <2>2. Stored(Published(v)).type = v.type
    BY <1>1, WiresDiffer DEF Stored, Published, DBTypes
  <2>3. Stored(Published(v)) = [type |-> v.type, val |-> v.val]
    BY <1>1, <1>2, WiresDiffer DEF Stored, Published, DBTypes
  <2> QED
    BY <1>1, <2>1, <2>3
<1>4. ASSUME v.type = "int"
      PROVE  Updated(v, [type |-> "double", val |-> 2 * v.val]) = v
  <2> DEFINE w == [type |-> "double", val |-> 2 * v.val]
  <2>1. Published(v).type = "integer" /\ w.type = "double"
    BY <1>4, WiresDiffer DEF Published
  <2>2. Converted(v, w) = [type |-> "integer", val |-> Truncated(2 * v.val)]
    BY <2>1 DEF Converted
  <2>3. Truncated(2 * v.val) = v.val
    BY <1>1 DEF Truncated
  <2>4. Updated(v, w) = Stored([type |-> "integer", val |-> v.val])
    BY <2>1, <2>2, <2>3 DEF Updated, Convertible
  <2> QED
    BY <1>1, <1>2, <1>4, <2>4, WiresDiffer DEF Stored
<1>5. ASSUME v.type = "float", v.val % 2 = 0
      PROVE  Updated(v, [type |-> "integer", val |-> v.val \div 2]) = v
  <2> DEFINE w == [type |-> "integer", val |-> v.val \div 2]
  <2>1. Published(v).type = "double" /\ w.type = "integer"
    BY <1>5, WiresDiffer DEF Published
  <2>2. Converted(v, w) = [type |-> "double", val |-> 2 * (v.val \div 2)]
    BY <2>1 DEF Converted
  <2>3. 2 * (v.val \div 2) = v.val
    BY <1>1, <1>5
  <2>4. Updated(v, w) = Stored([type |-> "double", val |-> v.val])
    BY <2>1, <2>2, <2>3 DEF Updated, Convertible
  <2> QED
    BY <1>1, <1>5, <2>4, WiresDiffer DEF Stored
<1> QED
  BY <1>3, <1>4, <1>5

-----------------------------------------------------------------------------
LEMMA LastOfAppend ==
    ASSUME NEW s \in Seq(Nat), NEW x \in Nat
    PROVE  /\ Append(s, x) # <<>> /\ Last(Append(s, x)) = x
           /\ s # <<>> => Last(s) \in Nat
<1>1. Len(Append(s, x)) = Len(s) + 1 /\ Append(s, x)[Len(s) + 1] = x
  BY AppendProperties
<1>2. s # <<>> => Len(s) \in 1 .. Len(s)
  BY LenProperties, EmptySeq
<1> QED
  BY <1>1, <1>2, ElementOfSeq, AppendProperties DEF Last

(* A message of a client changes no type, and no int to what it cannot hold. *)
LEMMA ApplyKeepsTypes ==
    ASSUME ParamAssumption, TypeOK, TypesNeverChange, IntsFit, ApplyChanges
    PROVE  /\ params' \in [Params -> DBParam]
           /\ TypesNeverChange' /\ IntsFit'
<1>1. PICK names \in SUBSET ClientNames : \E incoming \in [names -> Sent] :
          params' = [p \in Params |->
                        IF p \in names THEN Updated(params[p], incoming[p]) ELSE params[p]]
  BY DEF ApplyChanges
<1>2. PICK incoming \in [names -> Sent] :
          params' = [p \in Params |->
                        IF p \in names THEN Updated(params[p], incoming[p]) ELSE params[p]]
  BY <1>1
<1>3. ASSUME NEW p \in Params
      PROVE  /\ params'[p] \in DBParam /\ params'[p].type = params[p].type
             /\ params'[p].type = "int" => params'[p].val \in IntRange
  <2>1. params[p] \in DBParam /\ (params[p].type = "int" => params[p].val \in IntRange)
    BY DEF TypeOK, ServerTypeOK, IntsFit
  <2>2. CASE p \in names
    <3>1. incoming[p] \in WireParam
      BY <2>2 DEF ParamAssumption
    <3>2. params'[p] = Updated(params[p], incoming[p])
      BY <1>2, <2>2
    <3> QED
      BY <2>1, <3>1, <3>2, UpdatedKeepsType
  <2>3. CASE p \notin names
    BY <1>2, <2>1, <2>3
  <2> QED
    BY <2>2, <2>3
<1>4. params' = [p \in Params |-> params'[p]]
  BY <1>2
<1> QED
  BY <1>3, <1>4 DEF TypesNeverChange, IntsFit

-----------------------------------------------------------------------------
LEMMA IInvInit ==
    ASSUME ParamAssumption, InterfaceAssumption, Init
    PROVE  IInv
<1>1. TypeOK
  <2>1. <<>> \in Seq(Nat)
    OBVIOUS
  <2>2. logging \in BOOLEAN /\ running \in BOOLEAN /\ rejected \in BOOLEAN
    BY Zenon DEF Init
  <2> QED
    BY <2>1, <2>2 DEF Init, ServerInit, TypeOK, ServerTypeOK, ParamAssumption, NoFile, BootPhases
<1>2. TypesNeverChange /\ IntsFit
  BY DEF Init, ServerInit, TypesNeverChange, IntsFit, IntRange, ParamAssumption
<1>3. ServerAndCallback /\ CallbackDecides /\ BootIsPast
  BY DEF Init, ServerInit, ServerAndCallback, CallbackDecides, BootIsPast, Registered
<1>4. RecordingIsCurrent /\ LoggerFits
  BY DEF Init, ServerInit, RecordingIsCurrent, LoggerFits, Due
<1>5. FlagFollows /\ RequestIsDecided
  BY DEF Init, FlagFollows, RequestIsDecided, Registered
<1> QED
  BY <1>1, <1>2, <1>3, <1>4, <1>5 DEF IInv

-----------------------------------------------------------------------------
(* What the threads leave alone.                                             *)
LEMMA MainLeaves ==
    ASSUME Main
    PROVE  UNCHANGED <<serverVars, callbackVars, running, active>>
BY DEF Main, BootOpens, BootInitsLogging, RegisterCallback, CreateManager, InitManager,
   loggerVars, managerVars

LEMMA RequestLeaves ==
    ASSUME Request
    PROVE  /\ UNCHANGED <<serverVars, boot, changes>>
           /\ slot # "idle"
           /\ slot' \in {"starting", "joining", "switching", "returned", "aborted"}
BY DEF Request, LoggingAsWanted, OpenNewMcap, InitLogging, StopLogging, CloseActiveMcap,
   ManagerMissing, IgnoreRequest, SwapController, Asked

LEMMA WriterLeaves ==
    ASSUME Writer
    PROVE  UNCHANGED <<serverVars, boot, callbackVars, logging, running, early, managerVars>>
BY DEF Writer, WriterWrites, WriterExits, fileVars

LEMMA ServerLeaves ==
    ASSUME Server
    PROVE  UNCHANGED <<boot, logging, running, writer, shown, early, managerVars>>
BY DEF Server, ServerApplies, ServerLogs, SkipCallback, ServerReturns, loggerVars, fileVars

-----------------------------------------------------------------------------
(* The parameters and the worker thread, step by step.                       *)
LEMMA ServerStep ==
    ASSUME ParamAssumption, InterfaceAssumption, IInv, Next
    PROVE  /\ ServerTypeOK' /\ changes' \in Nat
           /\ slot' \in {"idle", "logging", "starting", "joining", "switching", "returned",
                         "aborted"}
           /\ TypesNeverChange' /\ IntsFit' /\ ServerAndCallback'
<1>1. TypeOK /\ TypesNeverChange /\ IntsFit /\ ServerAndCallback
  BY DEF IInv
<1>2. CASE ServerApplies
  <2>1. ApplyChanges
    BY <1>2 DEF ServerApplies
  <2>2. params' \in [Params -> DBParam] /\ TypesNeverChange' /\ IntsFit'
    BY <1>1, <2>1, ApplyKeepsTypes
  <2> QED
    BY <1>1, <1>2, <2>2 DEF ServerApplies, ApplyChanges, TypeOK, ServerTypeOK, ServerAndCallback
<1>3. CASE ServerLogs
  BY <1>1, <1>3 DEF ServerLogs, LogAllParams, TypeOK, ServerTypeOK, TypesNeverChange, IntsFit,
     ServerAndCallback
<1>4. CASE SkipCallback
  BY <1>1, <1>4 DEF SkipCallback, serverVars, TypeOK, ServerTypeOK, TypesNeverChange, IntsFit,
     ServerAndCallback
<1>5. CASE ServerReturns
  BY <1>1, <1>5 DEF ServerReturns, SignalReturns, TypeOK, ServerTypeOK, TypesNeverChange,
     IntsFit, ServerAndCallback
<1>6. CASE Request
  BY <1>1, <1>6, RequestLeaves DEF serverVars, TypeOK, ServerTypeOK, TypesNeverChange, IntsFit,
     ServerAndCallback
<1>7. CASE Main \/ Writer
  <2>1. UNCHANGED <<serverVars, callbackVars>>
    BY <1>7, MainLeaves, WriterLeaves
  <2> QED
    BY <1>1, <2>1 DEF serverVars, callbackVars, TypeOK, ServerTypeOK, TypesNeverChange, IntsFit,
       ServerAndCallback
<1> QED
  BY <1>2, <1>3, <1>4, <1>5, <1>6, <1>7 DEF Next, Server

(* The recording, the manager and boot.                                      *)
LEMMA RecordingTypes ==
    ASSUME ParamAssumption, InterfaceAssumption, IInv, Next
    PROVE  /\ boot' \in BootPhases /\ ran' \in BootPhases
           /\ logging' \in BOOLEAN /\ running' \in BOOLEAN /\ rejected' \in BOOLEAN
           /\ writer' \in {"none", "running", "done"} /\ active' \in Nat
           /\ early' \in Nat /\ pending' \in Seq(Nat) /\ shown' \in Nat \cup {NoFile, NoEntry}
<1>1. logging \in BOOLEAN /\ running \in BOOLEAN /\ rejected \in BOOLEAN
  BY Zenon DEF IInv, TypeOK
<1>2. logging' \in BOOLEAN /\ running' \in BOOLEAN /\ rejected' \in BOOLEAN
  BY <1>1, Zenon DEF Next, Main, BootOpens, BootInitsLogging, RegisterCallback, CreateManager,
     InitManager, Server, ServerApplies, ServerLogs, SkipCallback, ServerReturns, Request,
     LoggingAsWanted, OpenNewMcap, InitLogging, StopLogging, CloseActiveMcap, ManagerMissing,
     IgnoreRequest, SwapController, Writer, WriterWrites, WriterExits, StartsWriter,
     loggerVars, managerVars
<1>3. /\ writer \in {"none", "running", "done"} /\ active \in Nat /\ changes \in Nat
      /\ early \in Nat /\ pending \in Seq(Nat) /\ shown \in Nat \cup {NoFile, NoEntry}
      /\ boot \in BootPhases /\ ran \in BootPhases
      /\ handler # "idle" => changes > 0
  BY DEF IInv, TypeOK, ServerAndCallback
<1>4. WantedIndex \in Int
  BY DEF IInv, TypeOK, ServerTypeOK, DBParam, WantedIndex, InterfaceAssumption
<1>5. boot' \in BootPhases /\ ran' \in BootPhases
  <2>1. CASE Main
    BY <1>3, <2>1, MainLeaves DEF Main, BootOpens, BootInitsLogging, RegisterCallback,
       CreateManager, InitManager, BootPhases, callbackVars
  <2>2. CASE Server
    BY <1>3, <2>2, ServerLeaves DEF Server, ServerApplies, ServerLogs, SkipCallback, ServerReturns
  <2>3. CASE Request
    BY <1>3, <2>3 DEF Request, LoggingAsWanted, OpenNewMcap, InitLogging, StopLogging,
       CloseActiveMcap, ManagerMissing, IgnoreRequest, SwapController
  <2>4. CASE Writer
    BY <1>3, <2>4, WriterLeaves DEF callbackVars
  <2> QED
    BY <2>1, <2>2, <2>3, <2>4 DEF Next
<1>6. writer' \in {"none", "running", "done"}
  BY <1>3 DEF Next, Main, BootOpens, BootInitsLogging, RegisterCallback, CreateManager,
     InitManager, Server, ServerApplies, ServerLogs, SkipCallback, ServerReturns, Request,
     LoggingAsWanted, OpenNewMcap, InitLogging, StopLogging, CloseActiveMcap, ManagerMissing,
     IgnoreRequest, SwapController, Writer, WriterWrites, WriterExits, StartsWriter, loggerVars
<1>7. active' \in Nat
  <2>1. CASE SwapController
    BY <1>3, <1>4, <2>1 DEF SwapController, Ignored
  <2>2. CASE Main \/ Server \/ Writer
    BY <1>3, <2>2, MainLeaves, ServerLeaves, WriterLeaves DEF managerVars
  <2> QED
    BY <1>3, <2>1, <2>2 DEF Next, Request, LoggingAsWanted, OpenNewMcap, InitLogging,
       StopLogging, CloseActiveMcap, ManagerMissing, IgnoreRequest, managerVars
<1>8. early' \in Nat /\ pending' \in Seq(Nat) /\ shown' \in Nat \cup {NoFile, NoEntry}
  <2>1. Append(pending, changes) \in Seq(Nat) /\ Append(pending, 0) \in Seq(Nat)
    BY <1>3, AppendProperties
  <2>2. <<>> \in Seq(Nat) /\ (pending # <<>> => Last(pending) \in Nat)
    BY <1>3, LastOfAppend
  <2>3. (IF handler = "applied" THEN changes - 1 ELSE changes) \in Nat
    BY <1>3
  <2>4. CASE Main
    BY <1>3, <2>1, <2>3, <2>4 DEF Main, BootOpens, BootInitsLogging, RegisterCallback,
       CreateManager, InitManager, Opens, loggerVars, fileVars
  <2>5. CASE Server
    BY <1>3, <2>1, <2>5 DEF Server, ServerApplies, ServerLogs, SkipCallback, ServerReturns,
       loggerVars, fileVars
  <2>6. CASE Request
    BY <1>3, <2>1, <2>6 DEF Request, LoggingAsWanted, OpenNewMcap, InitLogging, StopLogging,
       CloseActiveMcap, ManagerMissing, IgnoreRequest, SwapController, Opens, loggerVars, fileVars
  <2>7. CASE Writer
    BY <1>3, <2>2, <2>7 DEF Writer, WriterWrites, WriterExits, fileVars
  <2> QED
    BY <2>4, <2>5, <2>6, <2>7 DEF Next
<1> QED
  BY <1>2, <1>3, <1>5, <1>6, <1>7, <1>8

LEMMA SlotsDiffer ==
    ASSUME NEW s
    PROVE  /\ s = "switching" => s # "starting" /\ s # "joining" /\ s # "returned"
           /\ s = "returned" => s # "starting" /\ s # "joining" /\ s # "switching"
           /\ s = "starting" => s # "joining" /\ s # "switching" /\ s # "returned"
           /\ s = "joining" => s # "starting" /\ s # "switching" /\ s # "returned"
           /\ s \in {"idle", "logging", "aborted"} =>
                 s # "starting" /\ s # "joining" /\ s # "switching" /\ s # "returned"
OBVIOUS

LEMMA BootStep ==
    ASSUME ParamAssumption, InterfaceAssumption, IInv, Next
    PROVE  BootIsPast'
<1>1. /\ slot \in {"idle", "logging", "starting", "joining", "switching", "returned", "aborted"}
      /\ BootIsPast
  BY DEF IInv, TypeOK
<1>2. CASE Main
  <2>1. ran' = ran /\ slot' = slot /\ (Registered(boot) => Registered(boot'))
        /\ boot # "ready"
    BY <1>2, MainLeaves DEF Main, BootOpens, BootInitsLogging, RegisterCallback, CreateManager,
       InitManager, Registered, callbackVars
  <2> QED
    BY <1>1, <2>1 DEF BootIsPast, Registered
<1>3. CASE Server
  <2>1. boot' = boot
    BY <1>3, ServerLeaves
  <2>2. \/ slot' \in {"idle", "logging", "returned"} /\ (ran' = ran \/ ran' = boot)
        \/ UNCHANGED <<slot, ran>>
    BY <1>3 DEF Server, ServerApplies, ServerLogs, SkipCallback, ServerReturns
  <2> QED
    BY <1>1, <2>1, <2>2 DEF BootIsPast, Registered
<1>4. CASE Request
  BY <1>1, <1>4 DEF Request, LoggingAsWanted, OpenNewMcap, InitLogging, StopLogging,
     CloseActiveMcap, ManagerMissing, IgnoreRequest, SwapController, Asked, BootIsPast,
     Registered, HasManager
<1>5. CASE Writer
  BY <1>1, <1>5, WriterLeaves DEF callbackVars, BootIsPast, Registered
<1> QED
  BY <1>2, <1>3, <1>4, <1>5 DEF Next

(* The callback leaves the parameters alone while it runs, and its verdicts  *)
(* outlive it until the next change.                                         *)
LEMMA CallbackStep ==
    ASSUME ParamAssumption, InterfaceAssumption, IInv, Next
    PROVE  CallbackDecides' /\ FlagFollows' /\ RequestIsDecided'
<1>1. /\ slot \in {"idle", "logging", "starting", "joining", "switching", "returned", "aborted"}
      /\ handler \in {"idle", "applied", "signalling"}
      /\ ServerAndCallback /\ BootIsPast /\ CallbackDecides
      /\ FlagFollows /\ RequestIsDecided
  BY DEF IInv, TypeOK, ServerTypeOK
<1>2. CASE Main
  <2>1. /\ handler' = handler /\ copy' = copy /\ params' = params
        /\ slot' = slot /\ ran' = ran /\ active' = active
    BY <1>2, MainLeaves DEF serverVars, callbackVars
  <2>2. WantsLogging' = WantsLogging /\ WantedIndex' = WantedIndex
    BY <2>1 DEF WantsLogging, WantedIndex
  <2>3. \/ UNCHANGED <<logging, rejected>>
        \/ BootInitsLogging /\ UNCHANGED rejected /\ ~Registered(boot)
        \/ InitManager /\ UNCHANGED logging /\ boot # "ready"
    BY <1>2 DEF Main, BootOpens, BootInitsLogging, RegisterCallback, CreateManager, InitManager,
       Registered, loggerVars, managerVars
  <2>4. CASE UNCHANGED <<logging, rejected>>
    BY <1>1, <2>1, <2>2, <2>4, Zenon DEF CallbackDecides, FlagFollows, RequestIsDecided, Registered
  <2>5. CASE BootInitsLogging /\ UNCHANGED rejected /\ ~Registered(boot)
    <3>1. /\ ~Registered(ran) /\ ~Registered(ran')
          /\ slot' \notin {"starting", "joining", "switching"} /\ ran # "ready"
      BY <1>1, <2>1, <2>5 DEF BootIsPast, Registered
    <3>2. CallbackDecides'
      BY <2>1, <3>1 DEF CallbackDecides, Registered
    <3>3. FlagFollows' /\ RequestIsDecided'
      BY <2>1, <3>1 DEF FlagFollows, RequestIsDecided, Registered
    <3> QED
      BY <3>2, <3>3
  <2>6. CASE InitManager /\ UNCHANGED logging /\ boot # "ready"
    <3>1. ran' # "ready" /\ logging' = logging
      BY <1>1, <2>1, <2>6 DEF BootIsPast
    <3>2. CallbackDecides'
      BY <1>1, <2>1, <2>2, <3>1, Zenon DEF CallbackDecides, Registered
    <3>3. FlagFollows'
      BY <1>1, <2>1, <3>1, Zenon DEF FlagFollows, Registered
    <3>4. RequestIsDecided'
      BY <3>1 DEF RequestIsDecided
    <3> QED
      BY <3>2, <3>3, <3>4
  <2> QED
    BY <2>3, <2>4, <2>5, <2>6
<1>3. CASE ServerApplies
  <2>1. slot' = slot /\ slot = "idle" /\ handler' = "applied"
    BY <1>1, <1>3 DEF ServerApplies, ApplyChanges, ServerAndCallback
  <2> QED
    BY <2>1 DEF CallbackDecides, FlagFollows, RequestIsDecided
<1>4. CASE ServerLogs
  BY <1>4 DEF ServerLogs, LogAllParams, CallbackDecides, FlagFollows, RequestIsDecided
<1>5. CASE SkipCallback
  <2>1. slot' = "returned" /\ ran' = boot /\ ~Registered(boot) /\ handler' = "signalling"
    BY <1>1, <1>5 DEF SkipCallback, ServerAndCallback, serverVars
  <2>2. ~Registered(ran') /\ ran' # "ready"
    BY <2>1 DEF Registered
  <2>3. CallbackDecides'
    BY <2>1, <2>2 DEF CallbackDecides, Registered
  <2> QED
    BY <2>1, <2>3 DEF FlagFollows, RequestIsDecided
<1>6. CASE ServerReturns
  <2>1. /\ slot' = "idle" /\ slot = "returned" /\ copy = params /\ params' = params
        /\ logging' = logging /\ active' = active /\ rejected' = rejected /\ ran' = ran
    BY <1>1, <1>6 DEF ServerReturns, SignalReturns, ServerAndCallback, loggerVars, managerVars
  <2>2. Registered(ran) => logging = (params[ShouldLog].val # 0)
    BY <1>1, <2>1, Zenon DEF CallbackDecides, WantsLogging
  <2>3. ran = "ready" =>
        \/ active = params[ControllerIndex].val
        \/ params[ControllerIndex].val < 0
        \/ rejected
    BY <1>1, <2>1 DEF CallbackDecides, WantedIndex
  <2>4. CallbackDecides'
    BY <2>1 DEF CallbackDecides
  <2>5. FlagFollows'
    BY <2>1, <2>2, Zenon DEF FlagFollows, Registered
  <2>6. RequestIsDecided'
    BY <2>1, <2>3 DEF RequestIsDecided
  <2> QED
    BY <2>4, <2>5, <2>6
<1>7. CASE Request
  <2>1. handler' = handler /\ copy' = copy /\ handler = "signalling"
    BY <1>1, <1>7, RequestLeaves DEF serverVars, ServerAndCallback
  <2>2. WantsLogging' = WantsLogging /\ WantedIndex' = WantedIndex
    BY <2>1 DEF WantsLogging, WantedIndex
  <2>3. FlagFollows' /\ RequestIsDecided'
    BY <2>1 DEF FlagFollows, RequestIsDecided
  <2>4. CASE LoggingAsWanted
    <3>1. slot' = "switching" /\ logging' = WantsLogging'
      BY <2>2, <2>4, Zenon DEF LoggingAsWanted, loggerVars
    <3> QED
      BY <3>1, <2>3, SlotsDiffer, Zenon DEF CallbackDecides
  <2>5. CASE OpenNewMcap
    <3>1. slot' = "starting" /\ WantsLogging'
      BY <2>2, <2>5, Zenon DEF OpenNewMcap
    <3> QED
      BY <3>1, <2>3, SlotsDiffer, Zenon DEF CallbackDecides
  <2>6. CASE InitLogging
    <3>1. slot = "starting" /\ slot' = "switching" /\ logging' = TRUE
      BY <2>6 DEF InitLogging, StartsWriter
    <3>2. WantsLogging' = TRUE
      BY <1>1, <2>2, <3>1 DEF CallbackDecides, WantsLogging
    <3> QED
      BY <3>1, <3>2, <2>3, SlotsDiffer, Zenon DEF CallbackDecides
  <2>7. CASE StopLogging
    <3>1. slot' = "joining" /\ ~WantsLogging' /\ ~logging'
      BY <2>2, <2>7, Zenon DEF StopLogging
    <3> QED
      BY <3>1, <2>3, SlotsDiffer, Zenon DEF CallbackDecides
  <2>8. CASE CloseActiveMcap
    <3>1. slot = "joining" /\ slot' = "switching" /\ logging' = logging
      BY <2>8 DEF CloseActiveMcap
    <3>2. ~logging /\ ~WantsLogging
      BY <1>1, <3>1 DEF CallbackDecides
    <3>3. logging' = FALSE
      BY <3>1, <3>2, RecordingTypes, Zenon
    <3>4. WantsLogging' = FALSE
      BY <2>2, <3>2 DEF WantsLogging
    <3> QED
      BY <3>1, <3>3, <3>4, <2>3, SlotsDiffer, Zenon DEF CallbackDecides
  <2>9. CASE ManagerMissing
    <3>1. slot' = "aborted"
      BY <2>9 DEF ManagerMissing
    <3> QED
      BY <3>1, <2>3, SlotsDiffer, Zenon DEF CallbackDecides
  <2>10. CASE IgnoreRequest \/ SwapController
    <3>1. slot' = "returned" /\ slot = "switching"
      BY <2>10 DEF IgnoreRequest, SwapController
    <3>2. logging' = WantsLogging'
      BY <1>1, <2>2, <2>10, <3>1, Zenon DEF IgnoreRequest, SwapController, loggerVars, CallbackDecides
    <3>3. active' = WantedIndex' \/ WantedIndex' < 0 \/ rejected'
      BY <2>2, <2>10 DEF IgnoreRequest, SwapController, Ignored, managerVars
    <3> QED
      BY <3>1, <3>2, <3>3, <2>3, SlotsDiffer, Zenon DEF CallbackDecides
  <2> QED
    BY <1>7, <2>3, <2>4, <2>5, <2>6, <2>7, <2>8, <2>9, <2>10 DEF Request
<1>8. CASE Writer
  <2>1. /\ handler' = handler /\ copy' = copy /\ params' = params
        /\ slot' = slot /\ ran' = ran
        /\ logging' = logging /\ active' = active /\ rejected' = rejected
    BY <1>8, WriterLeaves DEF serverVars, callbackVars, managerVars
  <2>2. WantsLogging' = WantsLogging /\ WantedIndex' = WantedIndex
    BY <2>1 DEF WantsLogging, WantedIndex
  <2> QED
    BY <1>1, <2>1, <2>2, Zenon DEF CallbackDecides, FlagFollows, RequestIsDecided, Registered
<1> QED
  BY <1>2, <1>3, <1>4, <1>5, <1>6, <1>7, <1>8 DEF Next, Server

(* The writer and the file.                                                  *)
LEMMA LoggerStep ==
    ASSUME ParamAssumption, InterfaceAssumption, IInv, Next
    PROVE  LoggerFits'
<1>1. /\ slot \in {"idle", "logging", "starting", "joining", "switching", "returned", "aborted"}
      /\ writer \in {"none", "running", "done"} /\ boot \in BootPhases
      /\ BootIsPast /\ CallbackDecides /\ LoggerFits
  BY DEF IInv, TypeOK
<1>2. CASE Main
  <2>1. slot' = slot /\ running' = running
    BY <1>2, MainLeaves DEF callbackVars
  <2>2. \/ boot' \in {"serving", "opened"} /\ writer' = writer
        \/ boot' = "logging" /\ logging' = TRUE /\ writer' = "running"
        \/ UNCHANGED <<logging, writer, shown>> /\ boot \notin {"serving", "opened"}
    BY <1>2 DEF Main, BootOpens, BootInitsLogging, RegisterCallback, CreateManager, InitManager,
       StartsWriter, loggerVars, fileVars
  <2> QED
    BY <1>1, <2>1, <2>2 DEF LoggerFits
<1>3. CASE Server
  <2>1. UNCHANGED <<boot, logging, running, writer, shown>>
    BY <1>3, ServerLeaves
  <2>2. slot \notin {"starting", "joining"}
    BY <1>3 DEF Server, ServerApplies, ServerLogs, LogAllParams, SkipCallback, ServerReturns,
       ApplyChanges, IInv, ServerAndCallback
  <2> QED
    BY <1>1, <2>1, <2>2 DEF LoggerFits
<1>4. CASE Request
  <2>1. boot' = boot
    BY <1>4, RequestLeaves
  <2>2. CASE LoggingAsWanted \/ ManagerMissing \/ IgnoreRequest \/ SwapController
    <3>1. slot \notin {"starting", "joining"} /\ UNCHANGED <<logging, running, writer, shown>>
      BY <2>2 DEF LoggingAsWanted, ManagerMissing, IgnoreRequest, SwapController, Asked,
         loggerVars, fileVars
    <3> QED
      BY <1>1, <2>1, <3>1 DEF LoggerFits
  <2>3. CASE OpenNewMcap \/ StopLogging
    <3>1. slot' \in {"starting", "joining"} /\ writer' = writer /\ (running' => running)
      BY <2>3 DEF OpenNewMcap, StopLogging
    <3> QED
      BY <1>1, <3>1 DEF LoggerFits
  <2>4. CASE InitLogging
    BY <2>4 DEF InitLogging, StartsWriter, LoggerFits
  <2>5. CASE CloseActiveMcap
    <3>1. logging' = logging /\ ~logging /\ writer' = "none" /\ shown' = NoFile
      BY <1>1, <2>5 DEF CloseActiveMcap, CallbackDecides
    <3> QED
      BY <3>1 DEF LoggerFits
  <2> QED
    BY <1>4, <2>2, <2>3, <2>4, <2>5 DEF Request
<1>5. CASE Writer
  <2>1. UNCHANGED <<boot, slot, logging, running>>
    BY <1>5, WriterLeaves DEF callbackVars
  <2>2. /\ writer = "running" /\ writer' # "none" /\ (running => writer' = writer)
    BY <1>5 DEF Writer, WriterWrites, WriterExits
  <2> QED
    BY <1>1, <2>1, <2>2 DEF LoggerFits
<1> QED
  BY <1>2, <1>3, <1>4, <1>5 DEF Next

(* An open recording: what a change is and what is queued for it.            *)
LEMMA Opened ==
    ASSUME NEW before, before \in Nat, pending \in Seq(Nat), Opens(before)
    PROVE  \/ UNCHANGED fileVars
           \/ Latest' = 0 /\ early' = before
BY LastOfAppend DEF Opens, Latest

LEMMA RecordingStep ==
    ASSUME ParamAssumption, InterfaceAssumption, IInv, Next
    PROVE  RecordingIsCurrent'
<1>1. /\ handler \in {"idle", "applied", "signalling"} /\ changes \in Nat /\ early \in Nat
      /\ pending \in Seq(Nat) /\ shown \in Nat \cup {NoFile, NoEntry}
      /\ ServerAndCallback /\ RecordingIsCurrent
  BY DEF IInv, TypeOK, ServerTypeOK
<1>2. Due \in Nat
  BY <1>1 DEF Due, ServerAndCallback
<1>3. ASSUME Due' = Due, UNCHANGED fileVars
      PROVE  RecordingIsCurrent'
  BY <1>1, <1>3 DEF RecordingIsCurrent, Latest, fileVars
<1>4. ASSUME Due' = Due, Opens(Due)
      PROVE  RecordingIsCurrent'
  BY <1>1, <1>2, <1>3, <1>4, Opened DEF RecordingIsCurrent
<1>5. CASE Main
  <2>1. handler' = handler /\ changes' = changes
    BY <1>5, MainLeaves DEF serverVars, callbackVars
  <2>2. Due' = Due
    BY <2>1 DEF Due
  <2>3. Opens(Due) \/ UNCHANGED fileVars
    BY <1>5 DEF Main, BootOpens, BootInitsLogging, RegisterCallback, CreateManager, InitManager,
       loggerVars, Due
  <2> QED
    BY <1>3, <1>4, <2>2, <2>3
<1>6. CASE ServerApplies
  <2>1. /\ handler' = "applied" /\ handler = "idle" /\ changes' = changes + 1
        /\ UNCHANGED fileVars
    BY <1>6 DEF ServerApplies, ApplyChanges, loggerVars
  <2>2. Due' = Due
    BY <1>1, <2>1 DEF Due
  <2> QED
    BY <1>3, <2>1, <2>2
<1>7. CASE ServerLogs
  <2>1. /\ pending' = Append(pending, changes) /\ changes' = changes
        /\ handler = "applied" /\ handler' = "signalling" /\ early' = early
    BY <1>7 DEF ServerLogs, LogAllParams
  <2>2. Latest' = changes /\ Due' = changes /\ Due = changes - 1
    BY <1>1, <2>1, LastOfAppend DEF Latest, Due
  <2> QED
    BY <1>1, <2>1, <2>2 DEF RecordingIsCurrent
<1>8. CASE SkipCallback \/ ServerReturns
  <2>1. /\ UNCHANGED fileVars /\ changes' = changes
        /\ handler # "applied" /\ handler' # "applied"
    BY <1>1, <1>8 DEF SkipCallback, ServerReturns, SignalReturns, ServerAndCallback, serverVars,
       loggerVars
  <2>2. Due' = Due
    BY <2>1 DEF Due
  <2> QED
    BY <1>3, <2>1, <2>2
<1>9. CASE Request
  <2>1. handler' = handler /\ changes' = changes /\ handler = "signalling"
    BY <1>1, <1>9, RequestLeaves DEF serverVars, ServerAndCallback
  <2>2. Due' = Due /\ Due = changes
    BY <2>1 DEF Due
  <2>3. \/ Opens(Due) \/ UNCHANGED fileVars
        \/ shown' = NoFile /\ early' = early
    BY <1>9, <2>2 DEF Request, LoggingAsWanted, OpenNewMcap, InitLogging, StopLogging,
       CloseActiveMcap, ManagerMissing, IgnoreRequest, SwapController, loggerVars
  <2>4. CASE shown' = NoFile /\ early' = early
    BY <1>1, <2>2, <2>4 DEF RecordingIsCurrent
  <2> QED
    BY <1>3, <1>4, <2>2, <2>3, <2>4
<1>10. CASE Writer
  <2>1. handler' = handler /\ changes' = changes /\ early' = early
    BY <1>10, WriterLeaves DEF serverVars, callbackVars
  <2>2. Due' = Due
    BY <2>1 DEF Due
  <2>3. (shown' # NoFile => shown # NoFile) /\ (shown # NoFile => Latest' = Latest)
    BY <1>10 DEF Writer, WriterWrites, WriterExits, Latest, fileVars
  <2> QED
    BY <1>1, <2>1, <2>2, <2>3 DEF RecordingIsCurrent
<1> QED
  BY <1>5, <1>6, <1>7, <1>8, <1>9, <1>10 DEF Next, Server

-----------------------------------------------------------------------------
LEMMA IInvStep ==
    ASSUME ParamAssumption, InterfaceAssumption, IInv, [Next]_vars
    PROVE  IInv'
<1>1. CASE Next
  <2>1. TypeOK'
    BY <1>1, ServerStep, RecordingTypes, Zenon DEF TypeOK
  <2> QED
    BY <1>1, <2>1, ServerStep, BootStep, CallbackStep, LoggerStep, RecordingStep DEF IInv
<1>2. CASE UNCHANGED vars
  <2>1. /\ UNCHANGED <<params, handler, copy, boot, changes, slot, ran>>
        /\ UNCHANGED <<logging, running, writer, pending, shown, early>>
        /\ UNCHANGED <<active, rejected>>
    BY <1>2 DEF vars, serverVars, callbackVars, loggerVars, fileVars, managerVars
  <2>2. TypeOK'
    BY <2>1, Zenon DEF IInv, TypeOK, ServerTypeOK
  <2>3. TypesNeverChange' /\ IntsFit' /\ ServerAndCallback' /\ BootIsPast' /\ LoggerFits'
    BY <2>1 DEF IInv, TypesNeverChange, IntsFit, ServerAndCallback, BootIsPast, LoggerFits,
       Registered
  <2>4. WantsLogging' = WantsLogging /\ WantedIndex' = WantedIndex /\ Latest' = Latest /\ Due' = Due
    BY <2>1 DEF WantsLogging, WantedIndex, Latest, Due
  <2>5. CallbackDecides' /\ RecordingIsCurrent'
    BY <2>1, <2>4, Zenon DEF IInv, CallbackDecides, RecordingIsCurrent, Registered
  <2>6. FlagFollows' /\ RequestIsDecided'
    BY <2>1, Zenon DEF IInv, FlagFollows, RequestIsDecided, Registered
  <2> QED
    BY <2>2, <2>3, <2>5, <2>6 DEF IInv
<1> QED
  BY <1>1, <1>2

LEMMA IInvKept == Spec => []IInv
<1>1. Init => IInv
  BY IInvInit, ParamAssumption, InterfaceAssumption
<1>2. IInv /\ [Next]_vars => IInv'
  BY IInvStep, ParamAssumption, InterfaceAssumption
<1> QED
  BY <1>1, <1>2, PTL DEF Spec

-----------------------------------------------------------------------------
(* Every variable keeps its type, whatever clients send: the parameters that *)
(* parameterChangeHandler stores are values of the map, and the callback's   *)
(* index is a controller's.                                                  *)
THEOREM TypesKept == Spec => []TypeOK
<1>1. IInv => TypeOK
  BY DEF IInv
<1> QED
  BY <1>1, IInvKept, PTL

(* No message changes the type of a parameter (_get_db_param and             *)
(* _convert_foxglove_parameter), for any values sent and any width of int.   *)
THEOREM ParametersKeepTypes == Spec => []TypesNeverChange
<1>1. IInv => TypesNeverChange
  BY DEF IInv
<1> QED
  BY <1>1, IInvKept, PTL

(* What the server publishes and a client sends back changes nothing, for    *)
(* every value that the map can come to hold.                                *)
THEOREM RoundTrip == Spec => []SentBackIsUnchanged
<1>1. IInv => SentBackIsUnchanged
  <2> SUFFICES ASSUME IInv, NEW p \in Params
               PROVE  LET v == params[p] IN
                      /\ Updated(v, Published(v)) = v
                      /\ v.type = "int" => Updated(v, [type |-> "double", val |-> 2 * v.val]) = v
                      /\ v.type = "float" /\ v.val % 2 = 0 =>
                            Updated(v, [type |-> "integer", val |-> v.val \div 2]) = v
    BY DEF SentBackIsUnchanged
  <2>1. params[p] \in DBParam /\ (params[p].type = "int" => params[p].val \in IntRange)
    BY DEF IInv, TypeOK, ServerTypeOK, IntsFit
  <2> QED
    BY <2>1, PublishedComesBack, ParamAssumption
<1> QED
  BY <1>1, IInvKept, PTL

(* After a change that the callback has handled, nothing records if          *)
(* should_log is off, and a writer was started, and is at work unless        *)
(* logging was stopped before, if it is on; for any number of changes and    *)
(* whatever became of the files.                                             *)
THEOREM LoggingFollows == Spec => []LoggingFollowsParameter
<1>1. IInv => LoggingFollowsParameter
  <2> SUFFICES ASSUME IInv, handler = "idle", Registered(ran)
               PROVE  IF params[ShouldLog].val # 0
                        THEN logging /\ writer # "none" /\ (running => writer = "running")
                        ELSE ~logging /\ writer = "none" /\ shown = NoFile
    BY DEF LoggingFollowsParameter
  <2>1. slot = "idle" /\ boot \notin {"serving", "opened"}
    BY DEF IInv, ServerAndCallback, BootIsPast, Registered
  <2>2. writer \in {"none", "running", "done"} /\ LoggerFits
    BY DEF IInv, TypeOK
  <2>3. /\ params[ShouldLog].val # 0 => logging
        /\ params[ShouldLog].val = 0 => ~logging
    BY DEF IInv, FlagFollows
  <2> QED
    BY <2>1, <2>2, <2>3 DEF LoggerFits
<1> QED
  BY <1>1, IInvKept, PTL

(* A request is granted or reported as rejected once a change is handled.    *)
THEOREM RequestDecided == Spec => []RequestIsDecided
<1>1. IInv => RequestIsDecided
  BY DEF IInv
<1> QED
  BY <1>1, IInvKept, PTL

(* A recording, of boot or one started later, shows the latest change that   *)
(* was logged after it was opened, or the file's parameters, also as it      *)
(* closes and for any number of changes at any time.                         *)
THEOREM LaterChangesShown == Spec => []LaterChangesAreShown
<1>1. IInv => LaterChangesAreShown
  <2> SUFFICES ASSUME IInv, shown # NoFile, pending = <<>>, handler # "applied"
               PROVE  shown = IF changes > early THEN changes ELSE 0
    BY DEF LaterChangesAreShown
  <2>1. Latest = shown /\ Due = changes
    BY DEF Latest, Due
  <2> QED
    BY <2>1 DEF IInv, RecordingIsCurrent
<1> QED
  BY <1>1, IInvKept, PTL
=============================================================================
