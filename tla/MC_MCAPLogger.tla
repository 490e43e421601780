--------------------------- MODULE MC_MCAPLogger ----------------------------
(* Instances of MCAPLogger for TLC.                                          *)
EXTENDS MCAPLogger, TLC

LoggerSymmetry == Permutations(Loggers)
OneEarlierBoot == {3}
=============================================================================
