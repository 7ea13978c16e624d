------------------------- MODULE MC_EmBrickMaster ---------------------------
(* Two Masters in two resources.      *)
EXTENDS EmBrickMaster

CONSTANTS m1, m2

MCTwoMasters == {m1, m2}
=============================================================================
