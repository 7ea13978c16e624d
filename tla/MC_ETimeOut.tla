---------------------------- MODULE MC_ETimeOut -----------------------------
(* Model-checking instance of ETimeOut: three START events are enough for  *)
(* a stale timer event to meet a re-armed timer and for a third START to   *)
(* find the block inactive while its entry is still registered.            *)
EXTENDS ETimeOut

MCMaxStartEvents == 5
=============================================================================
