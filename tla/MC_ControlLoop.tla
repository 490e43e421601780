-------------------------- MODULE MC_ControlLoop ----------------------------
(* Instances of ControlLoop for TLC.                                         *)
EXTENDS ControlLoop

(* Mode 1 returns speeds with limits; a generated controller torques, or     *)
(* nothing.                                                                  *)
KindsOfEach == [c \in Controllers |->
    IF c = First THEN {"speed"} ELSE {"torque", "none"}]

(* The DBC file of the car, and one that lacks the torque limits.            *)
TwoFiles == {Parts, Parts \ {"limit"}}
=============================================================================
