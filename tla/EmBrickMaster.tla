---------------------------- MODULE EmBrickMaster ---------------------------
(***************************************************************************)
(* The emBrick Master function block (src/modules/embrick/types/          *)
(* Master.cpp) and the process-wide BusHandler singleton it starts.        *)
(* Only one Master is permitted: INIT with QI = TRUE rejects the request   *)
(* when the singleton's thread is already alive, otherwise starts it and  *)
(* waits for its initialisation; INIT with QI = FALSE and the destructor  *)
(* end the singleton's thread if it is alive.                              *)
(*                                                                         *)
(* Each Master runs on the executor of its resource, and resources run in  *)
(* parallel (spec section 5), so two Masters interleave.  The isAlive      *)
(* check and the start are separate steps; bus->start() and              *)
(* waitForInit() are one step, as no other Master may start the thread    *)
(* in between without first having passed its own check.                  *)
(***************************************************************************)
EXTENDS Naturals

CONSTANTS
  Masters   (* Master instances, each in its own resource               *)

VARIABLES
  busAlive, (* BusHandler::getInstance().isAlive()                         *)
  pc,       (* [Masters -> {"idle", "starting", "deleted"}]                  *)
  qo,       (* [Masters -> BOOLEAN]: the QO output of the last INITO       *)
  cfgPending, (* [Masters -> BOOLEAN]: the adapter INIT sent to the bus     *)
              (* has not been answered by the adapter's INITO yet           *)
  (* history variables, not state of the program:                         *)
  served,   (* [Masters -> BOOLEAN]: the Master started the bus thread and *)
            (* has not asked for it to stop since                          *)
  restarted (* bus->start() was called while the thread was alive          *)

vars == <<busAlive, pc, qo, cfgPending, served, restarted>>

-----------------------------------------------------------------------------
(* BusHandler::end on the singleton: the thread is stopped and joined.      *)
EndBus == busAlive' = FALSE

(* executeEvent(INIT), QI = TRUE, up to the isAlive check: reject when the  *)
(* thread is alive (QO = FALSE, INITO), else go on to start it.            *)
InitStart(m) ==
  /\ pc[m] = "idle"
  /\ IF busAlive
       THEN /\ qo' = [qo EXCEPT ![m] = FALSE]
            /\ UNCHANGED pc
       ELSE /\ pc' = [pc EXCEPT ![m] = "starting"]
            /\ UNCHANGED qo
  /\ UNCHANGED <<busAlive, cfgPending, served, restarted>>

(* bus->start(); bus->waitForInit(); then the configuration is sent down   *)
(* the bus adapter (INDEX = 0, adapter INIT).                              *)
StartBus(m) ==
  /\ pc[m] = "starting"
  /\ restarted' = (restarted \/ busAlive)
  /\ busAlive' = TRUE
  /\ pc' = [pc EXCEPT ![m] = "idle"]
  /\ served' = [served EXCEPT ![m] = TRUE]
  /\ cfgPending' = [cfgPending EXCEPT ![m] = TRUE]
  /\ UNCHANGED qo

(* executeEvent(BusAdapterOut().INITO()): the bus configuration answered;  *)
(* QO is copied from the adapter's QO and INITO is sent.                   *)
BusInitO(m, adapterQO) ==
  /\ cfgPending[m] /\ pc[m] # "deleted"
  /\ qo' = [qo EXCEPT ![m] = adapterQO]
  /\ cfgPending' = [cfgPending EXCEPT ![m] = FALSE]
  /\ UNCHANGED <<busAlive, pc, served, restarted>>

(* executeEvent(INIT), QI = FALSE: end the thread if alive, QO = TRUE,      *)
(* INITO.  bus is the singleton whichever Master started it.              *)
InitStop(m) ==
  /\ pc[m] = "idle"
  /\ IF busAlive THEN EndBus ELSE UNCHANGED busAlive
  /\ qo' = [qo EXCEPT ![m] = TRUE]
  /\ served' = [served EXCEPT ![m] = FALSE]
  /\ UNCHANGED <<pc, cfgPending, restarted>>

(* Mutant of Delete: the destructor does not end the thread.                *)
DeleteNoEnd(m) ==
  /\ pc[m] = "idle"
  /\ pc' = [pc EXCEPT ![m] = "deleted"]
  /\ served' = [served EXCEPT ![m] = FALSE]
  /\ UNCHANGED <<busAlive, qo, cfgPending, restarted>>

(* ~Master: end the thread if alive.                                         *)
Delete(m) ==
  /\ pc[m] = "idle"
  /\ IF busAlive THEN EndBus ELSE UNCHANGED busAlive
  /\ pc' = [pc EXCEPT ![m] = "deleted"]
  /\ served' = [served EXCEPT ![m] = FALSE]
  /\ UNCHANGED <<qo, cfgPending, restarted>>

-----------------------------------------------------------------------------
Init ==
  /\ busAlive = FALSE
  /\ pc = [m \in Masters |-> "idle"]
  /\ qo = [m \in Masters |-> FALSE]
  /\ cfgPending = [m \in Masters |-> FALSE]
  /\ served = [m \in Masters |-> FALSE]
  /\ restarted = FALSE

Next ==
  \E m \in Masters :
    \/ InitStart(m) \/ StartBus(m) \/ InitStop(m) \/ Delete(m)
    \/ \E adapterQO \in BOOLEAN : BusInitO(m, adapterQO)

Spec == Init /\ [][Next]_vars

-----------------------------------------------------------------------------
(* The BusHandler thread never runs unclaimed: while it is alive some       *)
(* Master that started it has neither stopped it nor been deleted, so      *)
(* deleting every Master (~Master ends the thread) leaves no thread.       *)
NoOrphanBus == busAlive => \E m \in Masters : served[m]

(* Only one master is permitted: bus->start() is never called on a running *)
(* BusHandler thread.                                                      *)
OneBusStart == ~restarted
=============================================================================
