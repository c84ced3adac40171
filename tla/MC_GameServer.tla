---------------------------- MODULE MC_GameServer ----------------------------
(* Small instance of GameServer for TLC.                                    *)
EXTENDS GameServer, TLC

CONSTANTS s1, s2, k1, k2, seed1, seed2

MC_Sessions2 == {s1, s2}
MC_Socks2 == {k1, k2}
MC_Seeds == {seed1, seed2}
MC_Symmetry2 == Permutations(MC_Sessions2) \cup Permutations(MC_Socks2)
                  \cup Permutations(MC_Seeds)
=============================================================================
