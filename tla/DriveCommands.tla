--------------------------- MODULE DriveCommands ----------------------------
(* What the drivebrain promises the drive units on each CAN bus: commands    *)
(* that only get newer. A tick of the control loop is commanded by one       *)
(* controller, in one mode, each part at most once and the speeds before     *)
(* their torque limits; a part may be missing, but none comes late.          *)
EXTENDS Integers

CONSTANTS Buses, Controllers, NoController

Parts == {"rpm", "limit", "torque"}
Frame == [tick : Nat \ {0}, controller : Controllers, part : Parts]
Start == [tick |-> 0, controller |-> NoController, part |-> "torque"]

VARIABLE last   \* bus -> the command that it carried last

Init == last = [b \in Buses |-> Start]

(* f may come after g.                                                       *)
Follows(f, g) ==
    \/ f.tick > g.tick
    \/ /\ f.tick = g.tick /\ f.controller = g.controller
       /\ g.part = "rpm" /\ f.part = "limit"

Command(b) ==
    /\ last'[b] \in Frame /\ Follows(last'[b], last[b])
    /\ last' = [last EXCEPT ![b] = last'[b]]

Next == \E b \in Buses : Command(b)

Spec == Init /\ [][Next]_last
=============================================================================
