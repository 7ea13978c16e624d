------------------------------ MODULE ETimeOut ------------------------------
(***************************************************************************)
(* The E_TimeOut function block (src/stdfblib/events/E_TimeOut.cpp) and    *)
(* the runtime services it uses: the block's execution state machine      *)
(* (CFunctionBlock::changeFBExecutionState), the timer registry            *)
(* (registerTimedFB / unregisterTimedFB and the timer thread that fires    *)
(* due entries) and the event-chain executor that re-delivers a fired     *)
(* timer as the external event cg_nExternalEventID.                        *)
(*                                                                         *)
(* The block owns exactly one timer-list entry (mTimeListEntry).  A fired  *)
(* entry is not executed on the timer thread: it is queued on the          *)
(* executor captured by setEventChainExecutor, and the block reacts to it  *)
(* later, after whatever chains the executor runs first.  All reactions    *)
(* of the block run on that one executor, so each handler is one atomic    *)
(* step; the timer thread fires concurrently with them.                    *)
(***************************************************************************)
EXTENDS Naturals

CONSTANTS
  MaxStartEvents  (* bound on START events the adapter delivers           *)

ASSUME MaxStartEvents \in Nat \ {0}

VARIABLES
  fbState,     (* execution state of the block (spec section 4.2)          *)
  mActive,     (* E_TimeOut::mActive                                       *)
  registered,  (* copies of mTimeListEntry in the timer registry           *)
  pending,     (* fired entries queued on the executor, not yet delivered  *)
  (* history variables, not state of the program:                         *)
  startEvents, (* START events processed by the block                     *)
  awaiting     (* the last START/STOP the block reacted to was START and   *)
               (* no TimeOut or Stop/Kill has answered it yet              *)

vars == <<fbState, mActive, registered, pending,
          startEvents, awaiting>>

FBStates == {"Stopped", "Running", "Killed"}

-----------------------------------------------------------------------------
(* Timer service and block life cycle, modelled from the spec.             *)

(* registerTimedFB(&mTimeListEntry, DT): one more entry in the registry.    *)
registerTimedFB ==
  /\ registered' = registered + 1

(* unregisterTimedFB(this): every entry of the block leaves the registry.  *)
unregisterTimedFB == registered' = 0

(* The timer thread, under the registry lock, removes a due entry and      *)
(* queues the external event on the captured executor.                     *)
Fire ==
  /\ registered > 0
  /\ registered' = registered - 1
  /\ pending' = pending + 1
  /\ UNCHANGED <<fbState, mActive, startEvents, awaiting>>

(* An input event reaches executeEvent only while the block is Running;    *)
(* otherwise receiveInputEvent is a no-op.                                 *)
Reacting == fbState = "Running"

-----------------------------------------------------------------------------
(* E_TimeOut::executeEvent, one action per branch.                         *)

(* Mutant of ExecuteStart: sets mActive without registering the entry.     *)
ExecuteStartNoRegister ==
  /\ Reacting
  /\ startEvents < MaxStartEvents
  /\ startEvents' = startEvents + 1
  /\ awaiting' = TRUE
  /\ mActive' = TRUE
  /\ UNCHANGED <<fbState, pending, registered>>

(* START: arm the timer on the invoking executor unless already active.    *)
ExecuteStart ==
  /\ Reacting
  /\ startEvents < MaxStartEvents
  /\ startEvents' = startEvents + 1
  /\ awaiting' = TRUE
  /\ IF ~mActive
       THEN /\ registerTimedFB
            /\ mActive' = TRUE
       ELSE UNCHANGED <<registered, mActive>>
  /\ UNCHANGED <<fbState, pending>>

(* Mutant of ExecuteStop: STOP removes one entry from the registry,        *)
(* whether or not one is still registered.                                 *)
ExecuteStopOne ==
  /\ Reacting
  /\ awaiting' = FALSE
  /\ IF mActive
       THEN /\ registered' = registered - 1
            /\ mActive' = FALSE
       ELSE UNCHANGED <<registered, mActive>>
  /\ UNCHANGED <<fbState, pending, startEvents>>

(* STOP: cancel the timer if active.                                       *)
ExecuteStop ==
  /\ Reacting
  /\ awaiting' = FALSE
  /\ IF mActive
       THEN /\ unregisterTimedFB
            /\ mActive' = FALSE
       ELSE UNCHANGED <<registered, mActive>>
  /\ UNCHANGED <<fbState, pending, startEvents>>

(* cg_nExternalEventID: the executor delivers a queued timer event;        *)
(* the block clears mActive and sends TimeOut on its socket.               *)
DeliverTimeOut ==
  /\ pending > 0
  /\ Reacting
  /\ pending' = pending - 1
  /\ mActive' = FALSE
  /\ awaiting' = FALSE
  /\ UNCHANGED <<fbState, registered, startEvents>>

(* A queued timer event for a block that is not Running is discarded.      *)
DropTimeOut ==
  /\ pending > 0
  /\ ~Reacting
  /\ pending' = pending - 1
  /\ UNCHANGED <<fbState, mActive, registered, startEvents, awaiting>>

-----------------------------------------------------------------------------
(* E_TimeOut::changeFBExecutionState: the base state machine, then, when   *)
(* the command was accepted and is Stop or Kill, cancel an active timer.   *)

CancelOnReady ==
  /\ awaiting' = FALSE
  /\ IF mActive
       THEN /\ unregisterTimedFB
            /\ mActive' = FALSE
       ELSE UNCHANGED <<registered, mActive>>

StartCommand ==
  /\ fbState = "Stopped"
  /\ fbState' = "Running"
  /\ UNCHANGED <<mActive, registered, pending, startEvents, awaiting>>

StopCommand ==
  /\ fbState = "Running"
  /\ fbState' = "Stopped"
  /\ CancelOnReady
  /\ UNCHANGED <<pending, startEvents>>

KillCommand ==
  /\ fbState # "Killed"
  /\ fbState' = "Killed"
  /\ CancelOnReady
  /\ UNCHANGED <<pending, startEvents>>

-----------------------------------------------------------------------------
Init ==
  /\ fbState = "Stopped"
  /\ mActive = FALSE
  /\ registered = 0
  /\ pending = 0
  /\ startEvents = 0
  /\ awaiting = FALSE

Next ==
  \/ ExecuteStart
  \/ ExecuteStop
  \/ DeliverTimeOut
  \/ DropTimeOut
  \/ Fire
  \/ StartCommand
  \/ StopCommand
  \/ KillCommand

(* The timer thread fires every due entry and the executor drains its      *)
(* external-event queue; nothing obliges the adapter or the manager to     *)
(* send events or commands.                                                *)
Fairness ==
  /\ WF_vars(Fire)
  /\ WF_vars(DeliverTimeOut)
  /\ WF_vars(DropTimeOut)

Spec == Init /\ [][Next]_vars /\ Fairness

-----------------------------------------------------------------------------
TypeOK ==
  /\ fbState \in FBStates
  /\ mActive \in BOOLEAN
  /\ registered \in Nat
  /\ pending \in Nat
  /\ startEvents \in 0..MaxStartEvents
  /\ awaiting \in BOOLEAN

(* Every START the block reacts to is eventually answered by a TimeOut,    *)
(* or cancelled by STOP, Stop or Kill: an active flag never outlives the   *)
(* timer that would clear it, so a later START is never ignored forever.   *)
StartAnswered == awaiting ~> ~awaiting

(* The block's timer entry does not outlive it: once Killed, the registry  *)
(* holds no entry of the block (the timer thread would touch a deleted     *)
(* object).                                                                *)
NoTimerAfterKill == fbState = "Killed" => registered = 0
=============================================================================
