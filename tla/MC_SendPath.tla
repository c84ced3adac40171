---------------------------- MODULE MC_SendPath ----------------------------
(* Small instance of SendPath for TLC.                                      *)
EXTENDS SendPath, TLC

CONSTANTS b1, b2
MC_Byte == {b1, b2}
MC_Symmetry == Permutations(MC_Byte)
=============================================================================
