----------------------------- MODULE MC_Motion -----------------------------
(* Small instance of MotionView, and so of Motion, for TLC.                 *)
EXTENDS MotionView

MC_Positions == (0 :> -3) @@ (1 :> 0) @@ (2 :> 3)
=============================================================================
