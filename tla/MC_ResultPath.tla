---------------------------- MODULE MC_ResultPath ----------------------------
(* Small instance of ResultPath for TLC.                                    *)
EXTENDS ResultPath

MC_Packet == {<<2, 0>>, <<2, 1>>, <<3, 0, 1>>}
=============================================================================
