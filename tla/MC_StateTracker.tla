-------------------------- MODULE MC_StateTracker ---------------------------
(* Instances of StateTracker for TLC.                                        *)
EXTENDS StateTracker, TLC

ReaderSymmetry  == Permutations(Readers)
StampedOnly     == StampedTypes
StampedAndInverters == StampedTypes \cup
    {<<"inv_dynamics", 3>>, <<"inv_temps", 4>>}
StampedAndWheel == StampedTypes \cup {<<"inv_dynamics", 1>>}
=============================================================================
