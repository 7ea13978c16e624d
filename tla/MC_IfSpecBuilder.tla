------------------------- MODULE MC_IfSpecBuilder ---------------------------
(* Model-checking instance of IfSpecBuilder.  Two-bit references keep the  *)
(* ratio of the 8-bit TDataIOID: the largest index is the sentinel and the *)
(* capacity stops one below it, so the capacity, the sentinel and the      *)
(* wrap-around of indices all lie within a few calls.                      *)
EXTENDS IfSpecBuilder

MCDirs == {"In"}
MCRefWidth == 2
MCMaxItems == 2
MCRangeSizes == {0, 2}
MCMaxCalls == 6
MCMaxBindList == 2
MCMaxAdapters == 1
=============================================================================
