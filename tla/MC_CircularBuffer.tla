-------------------------- MODULE MC_CircularBuffer --------------------------
(* Small instance of CircularBuffer for TLC.                                *)
EXTENDS CircularBuffer

CONSTANTS b1, b2
MC_Byte == {b1, b2}
=============================================================================
