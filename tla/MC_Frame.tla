------------------------------ MODULE MC_Frame ------------------------------
(***************************************************************************)
(* Two fireworks of two particles and a snow of four, in vertex buffers of *)
(* two segments of three.                                                  *)
(***************************************************************************)
EXTENDS Frame

const_EffectType == {"EXPLOSION"}
const_Key == {"SPACE", "ESCAPE"}
=============================================================================
