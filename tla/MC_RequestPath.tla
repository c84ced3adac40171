--------------------------- MODULE MC_RequestPath ---------------------------
(* Small instance of RequestPath for TLC.                                   *)
EXTENDS RequestPath

MC_Packet == {<<2, 0>>, <<3, 0, 0>>}
=============================================================================
