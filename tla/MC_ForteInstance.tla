------------------------- MODULE MC_ForteInstance ---------------------------
(* Three heap addresses, so that a deleted device's address may be reused *)
(* by the next start; ports at the edges of forteStartInstance's checks.   *)
EXTENDS ForteInstance

CONSTANTS h1, h2, a1, a2, a3, null

MCAddresses == {a1, a2, a3}
MCPorts == {0, 4840, 65535, 65536}
MCOneHandle == {h1}
MCTwoHandles == {h1, h2}
=============================================================================
