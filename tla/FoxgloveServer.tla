--------------------------- MODULE FoxgloveServer ---------------------------
(* The parameter side of core::FoxgloveServer: the parameter map, the        *)
(* parameterChangeHandler that its worker thread runs for each message of a  *)
(* client, the conversions between the types of the map and of the Foxglove  *)
(* protocol, and the signal that runs the registered callbacks.              *)
(*                                                                           *)
(* A double or float is counted in halves, so that the conversion to an      *)
(* integer has something to cut off.                                         *)
EXTENDS Integers

CONSTANTS Params,       \* names in the configuration file
          InitialValue, \* what the file gives each name
          ClientNames,  \* names a client may send, in the map or not
          Sent,         \* the values a client may send
          IntSize       \* 2^32: how many values an int has

(* A value of the map (DBParam) or of the protocol: its type and its number. *)
DBTypes == {"bool", "int", "float", "string"}
Wire(type) == CASE type = "int" -> "integer" [] type = "float" -> "double" [] OTHER -> type
DBType(wire) == CASE wire = "integer" -> "int" [] wire = "double" -> "float" [] OTHER -> wire
WireTypes == {"bool", "integer", "double", "string"}

DBParam == [type : DBTypes, val : Int]
WireParam == [type : WireTypes, val : Int]

ASSUME ParamAssumption ==
    /\ InitialValue \in [Params -> DBParam]
    /\ Sent \subseteq WireParam
    /\ IntSize \in Nat /\ IntSize > 0 /\ IntSize % 2 = 0
    /\ \A p \in Params : InitialValue[p].type = "int" =>
           InitialValue[p].val \in -(IntSize \div 2) .. (IntSize \div 2 - 1)

VARIABLES
    params,   \* _foxglove_params_map
    handler,  \* where the worker thread is: idle, applied or signalling
    copy      \* param_copy, what the callbacks are given

serverVars == <<params, handler, copy>>

ServerInit ==
    /\ params = InitialValue
    /\ handler = "idle"
    /\ copy = InitialValue

-----------------------------------------------------------------------------
(* static_cast<int64_t>(double) cuts towards zero; (int) of an int64_t keeps *)
(* the low bits.                                                             *)
(* Mutant: a cast that converts nothing.                                     *)
NotTruncated(halves) == halves
Truncated(halves) == IF halves >= 0 THEN halves \div 2 ELSE -((-halves) \div 2)
Narrowed(n) == ((n + IntSize \div 2) % IntSize) - IntSize \div 2

(* _get_foxglove_parameter, also the reply to a client's request.            *)
Published(v) == [type |-> Wire(v.type), val |-> v.val]

(* _convert_foxglove_parameter gives the incoming value the current type.    *)
(* Mutant: any value is taken.                                               *)
AnyConvertible(current, incoming) == TRUE
Convertible(current, incoming) ==
    \/ Published(current).type = incoming.type
    \/ {Published(current).type, incoming.type} = {"integer", "double"}

Converted(current, incoming) ==
    CASE Published(current).type = incoming.type -> incoming
      [] Published(current).type = "integer" /\ incoming.type = "double" ->
             [type |-> "integer", val |-> Truncated(incoming.val)]
      [] OTHER -> [type |-> "double", val |-> 2 * incoming.val]

(* _get_db_param.                                                            *)
Stored(wire) ==
    [type |-> DBType(wire.type),
     val  |-> IF wire.type = "integer" THEN Narrowed(wire.val) ELSE wire.val]

(* One entry of the message, for a name in the map.                          *)
Updated(current, incoming) ==
    IF Convertible(current, incoming) THEN Stored(Converted(current, incoming)) ELSE current

(* The locked loop of parameterChangeHandler over a message that sets each   *)
(* name of a set; a name that is not in the map is skipped.                  *)
ApplyChanges ==
    /\ handler = "idle"
    /\ \E names \in SUBSET ClientNames : \E incoming \in [names -> Sent] :
          params' = [p \in Params |->
                        IF p \in names THEN Updated(params[p], incoming[p]) ELSE params[p]]
    /\ copy' = params'
    /\ handler' = "applied"

(* MCAPLogger::log_params(get_all_params()), which takes the lock again. The *)
(* map is what it was: only this thread changes it.                          *)
LogAllParams ==
    /\ handler = "applied"
    /\ handler' = "signalling"
    /\ UNCHANGED <<params, copy>>

(* _param_update_signal(param_copy) has run the last callback.               *)
SignalReturns ==
    /\ handler = "signalling"
    /\ handler' = "idle"
    /\ UNCHANGED <<params, copy>>

ServerNext == ApplyChanges \/ LogAllParams \/ SignalReturns

ServerSpec == ServerInit /\ [][ServerNext]_serverVars

(* get_param<type>: only a value of the type asked for is returned.          *)
Holds(p, type) == params[p].type = type

-----------------------------------------------------------------------------
(* Every variable keeps its type.                                            *)
ServerTypeOK ==
    /\ params \in [Params -> DBParam]
    /\ handler \in {"idle", "applied", "signalling"}
    /\ copy \in [Params -> DBParam]

(* No message of a client, of whatever types, changes the type of a          *)
(* parameter: get_param and the get_if of the callbacks ask for the type the *)
(* configuration file had, and would never find the parameter again.         *)
TypesNeverChange == \A p \in Params : params[p].type = InitialValue[p].type

(* A client that sends back what the server published changes nothing,       *)
(* although JSON may turn an integer into a double (5 into 5.0) or a whole   *)
(* double into an integer on the way.                                        *)
SentBackIsUnchanged ==
    \A p \in Params : LET v == params[p] IN
        /\ Updated(v, Published(v)) = v
        /\ v.type = "int" => Updated(v, [type |-> "double", val |-> 2 * v.val]) = v
        /\ v.type = "float" /\ v.val % 2 = 0 =>
              Updated(v, [type |-> "integer", val |-> v.val \div 2]) = v
=============================================================================
