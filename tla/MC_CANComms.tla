---------------------------- MODULE MC_CANComms -----------------------------
(* Instances of CANComms for TLC.                                            *)
EXTENDS CANComms

SignalAt(name, pos, plexed, type) ==
    [name |-> name, pos |-> pos, plexed |-> plexed, type |-> type]

(* 1: what the control loop sends. 2: known to the DBC file only. 3: an enum *)
(* field. 4: two signals in one place, told apart by the multiplexer. 9 is   *)
(* in no file.                                                               *)
CarDbc == [id \in 1..4 |-> [mux |-> 1, signals |->
    CASE id = 3 -> <<SignalAt("mode", 1, Always, "enum"), SignalAt("speed", 2, Always, "float")>>
      [] id = 4 -> <<SignalAt("page", 1, Always, "int32"), SignalAt("low", 2, 0, "float"),
                     SignalAt("high", 2, 1, "float")>>
      [] OTHER  -> <<SignalAt("left", 1, Always, "float"), SignalAt("right", 2, Always, "bool")>>]]
=============================================================================
