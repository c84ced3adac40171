------------------------------ MODULE MC_Play ------------------------------
(* Small instance of Play for TLC.                                          *)
EXTENDS Play

MC_SkillCooldown == [skill \in {"PUSH", "GATHER"} |-> 1]
=============================================================================
