-------------------- MODULE MC_LoadCellTorqueController ---------------------
(* Instances of LoadCellTorqueController for TLC. Numbers are in halves.     *)
EXTENDS LoadCellTorqueController

CodeOrder == <<"max_torque", "max_regen_torque", "rear_torque_scale",
               "regen_torque_scale", "dt_rate_hz", "apply_vectoring_in_regen">>
FileNames == {CodeOrder[k] : k \in DOMAIN CodeOrder}
FileValues == [f \in FileNames |->
    CASE f = "apply_vectoring_in_regen" -> [type |-> "bool", val |-> 1]
      [] f = "regen_torque_scale"       -> [type |-> "float", val |-> 0]
      [] f = "dt_rate_hz"               -> [type |-> "float", val |-> 3]
      [] OTHER                          -> [type |-> "float", val |-> 2]]
SentScales == {[type |-> "double", val |-> 0], [type |-> "double", val |-> 4]}
SentFlag   == {[type |-> "bool", val |-> 0]}
Pedals     == {-1, 1}
LoadCells  == {[c \in {"FL", "FR", "RL", "RR"} |-> 0],
               [c \in {"FL", "FR", "RL", "RR"} |-> IF c \in {"FL", "RL"} THEN 3 ELSE 1]}
=============================================================================
