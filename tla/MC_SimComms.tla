---------------------------- MODULE MC_SimComms -----------------------------
(* Instances of SimComms, with the receivers of the io thread, for TLC.      *)
EXTENDS SimComms

OnePort  == {"acu"}
TwoPorts == {"acu", "vcf"}
=============================================================================
