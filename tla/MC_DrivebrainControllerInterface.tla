------------------ MODULE MC_DrivebrainControllerInterface ------------------
(* Instances of DrivebrainControllerInterface for TLC.                       *)
EXTENDS DrivebrainControllerInterface

OneOfEachType == {"should_log", "controller_index", "scale", "device"}
FileValues == [p \in OneOfEachType |->
    CASE p = "should_log"       -> [type |-> "bool", val |-> 1]
      [] p = "controller_index" -> [type |-> "int", val |-> 1]
      [] p = "scale"            -> [type |-> "float", val |-> 1]
      [] p = "device"           -> [type |-> "string", val |-> 1]]
(* The device is read at boot only; a client does not set it here.           *)
SetNames == OneOfEachType \ {"device"}
(* An int has 4 values here: 4 wraps to 0, and 3 halves is cut to 1.         *)
SentValues == {[type |-> "bool", val |-> 0], [type |-> "bool", val |-> 1],
               [type |-> "integer", val |-> 4], [type |-> "integer", val |-> -3],
               [type |-> "double", val |-> 3], [type |-> "double", val |-> -3],
               [type |-> "string", val |-> 0]}
=============================================================================
