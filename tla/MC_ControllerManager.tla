----------------------- MODULE MC_ControllerManager -------------------------
(* Instances of ControllerManager for TLC.                                   *)
EXTENDS ControllerManager

(* Each value is below, at or above every limit, which is 1.                 *)
AroundTheLimit == {-2, 0, 1, 2}
(* Two controllers, a null one, one index too many and a negative one.       *)
EveryRequest == {-1, 0, 1, 2, 3}
=============================================================================
