--------------------------- MODULE MC_ClientView ---------------------------
(* Small instance of ClientView for TLC.                                    *)
EXTENDS ClientView
=============================================================================
