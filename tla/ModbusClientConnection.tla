----------------------- MODULE ModbusClientConnection -----------------------
(***************************************************************************)
(* CModbusClientConnection (src/com/modbus/modbusclientconnection.cpp): a *)
(* Modbus connection shared by several function blocks.  Its own thread    *)
(* (run) either retries the connection (tryConnect) or runs every due     *)
(* poll (tryPolling), reconnecting when every poll of a round failed.     *)
(* Blocks on other threads register their poll (addNewPoll) and write    *)
(* through writeDataRange; the owning block, whose polls are registered   *)
(* before it connects, connects, disconnects and deletes the connection.  *)
(*                                                                         *)
(* m_oModbusLock guards the libmodbus handle.  The I/O outcome of a poll  *)
(* or connection attempt is a nondeterministic choice; poll timing is     *)
(* abstracted to rounds in which every active poll is due.                *)
(***************************************************************************)
EXTENDS Naturals, Sequences, SequencesExt

CONSTANTS
  PollList,       (* the owning block's polls, one per poll interval,    *)
                  (* registered before it connects                       *)
  Clients,        (* blocks that share the connection                    *)
  ClientInterval, (* [Clients -> intervals]: the poll a block registers  *)
  MaxWrites       (* bound on writeDataRange calls per client             *)

ASSUME /\ Len(PollList) > 0
       /\ IsInjective(PollList)
       /\ DOMAIN ClientInterval = Clients
       (* Blocks register distinct intervals, none of the owner's.          *)
       /\ IsInjective(ClientInterval)
       /\ \A c \in Clients : ClientInterval[c] \notin ToSet(PollList)
       /\ MaxWrites \in Nat

(* A poll is identified by its interval: addNewPoll keeps one per interval. *)
Polls == ToSet(PollList) \cup {ClientInterval[c] : c \in Clients}

VARIABLES
  alive,      (* CThread::isAlive of the connection thread                 *)
  ppc,        (* where the connection thread is                            *)
  idx,        (* tryPolling: index into m_lstPollList                      *)
  nrErrors,   (* tryPolling: failed polls this round                       *)
  nrPolls,    (* tryPolling: executed polls this round                     *)
  connected,  (* m_bConnected                                              *)
  handleOpen, (* the libmodbus handle is connected (not modbus_close'd)    *)
  connEvent,  (* m_pModbusConnEvent: "none" (nullptr) or "active"          *)
  orphaned,   (* a CModbusConnectionEvent is allocated that no pointer     *)
              (* refers to any more                                        *)
  pollList,   (* m_lstPollList                                             *)
  active,     (* [Polls -> BOOLEAN]: the poll is activated                 *)
  lock,       (* holder of m_oModbusLock: "free", "poller" or a client     *)
  cpc,        (* [Clients -> pc]: registering its poll, then writing       *)
  writes,     (* [Clients -> Nat]: writeDataRange calls made               *)
  opc,        (* the owning block: connect / disconnect / delete            *)
  destroyed   (* the connection object has been deleted                    *)

vars == <<alive, ppc, idx, nrErrors, nrPolls, connected, handleOpen,
          connEvent, orphaned, pollList, active, lock, cpc, writes, opc,
          destroyed>>

pollerVars == <<ppc, idx, nrErrors, nrPolls>>

-----------------------------------------------------------------------------
(* run(): while alive, poll when connected, else try to connect.           *)

(* Mutant of ThreadExit: the loop also keeps running while connected.      *)
ThreadExitWhenClosed ==
  /\ ppc = "top" /\ ~alive /\ ~connected
  /\ ppc' = "exited"
  /\ UNCHANGED <<orphaned, alive, idx, nrErrors, nrPolls, connected,
                 handleOpen, connEvent, pollList, active, lock, cpc, writes,
                 opc, destroyed>>

(* The thread leaves its loop once end() has cleared isAlive.              *)
ThreadExit ==
  /\ ppc = "top" /\ ~alive
  /\ ppc' = "exited"
  /\ UNCHANGED <<orphaned, alive, idx, nrErrors, nrPolls, connected,
                 handleOpen, connEvent, pollList, active, lock, cpc, writes,
                 opc, destroyed>>

(* tryPolling starts a round over the poll list.                            *)
StartRound ==
  /\ ppc = "top" /\ alive /\ connected
  /\ ppc' = "poll" /\ idx' = 1 /\ nrErrors' = 0 /\ nrPolls' = 0
  /\ UNCHANGED <<orphaned, alive, connected, handleOpen, connEvent, pollList,
                 active, lock, cpc, writes, opc, destroyed>>

(* An inactive poll is skipped.                                              *)
SkipPoll ==
  /\ ppc = "poll" /\ idx <= Len(pollList)
  /\ ~active[pollList[idx]]
  /\ idx' = idx + 1
  /\ UNCHANGED <<orphaned, alive, ppc, nrErrors, nrPolls, connected,
                 handleOpen, connEvent, pollList, active, lock, cpc, writes,
                 opc, destroyed>>

(* A due poll takes m_oModbusLock and executes on the handle.              *)
PollBegin ==
  /\ ppc = "poll" /\ idx <= Len(pollList)
  /\ active[pollList[idx]]
  /\ lock = "free"
  /\ lock' = "poller" /\ ppc' = "polling"
  /\ UNCHANGED <<orphaned, alive, idx, nrErrors, nrPolls, connected,
                 handleOpen, connEvent, pollList, active, cpc, writes, opc,
                 destroyed>>

(* Mutant of PollEnd: ++nrPolls only on the success path.                  *)
PollEndCountOk(ok) ==
  /\ ppc = "polling"
  /\ lock' = "free" /\ ppc' = "poll"
  /\ idx' = idx + 1
  /\ nrPolls' = IF ok THEN nrPolls + 1 ELSE nrPolls
  /\ nrErrors' = IF ok THEN nrErrors ELSE nrErrors + 1
  /\ active' = IF ok THEN active ELSE [active EXCEPT ![pollList[idx]] = FALSE]
  /\ UNCHANGED <<orphaned, alive, connected, handleOpen, connEvent, pollList,
                 cpc, writes, opc, destroyed>>

(* executeEvent returns; a failed poll is deactivated and counted.          *)
PollEnd(ok) ==
  /\ ppc = "polling"
  /\ lock' = "free" /\ ppc' = "poll"
  /\ idx' = idx + 1
  /\ nrPolls' = nrPolls + 1
  /\ nrErrors' = IF ok THEN nrErrors ELSE nrErrors + 1
  /\ active' = IF ok THEN active ELSE [active EXCEPT ![pollList[idx]] = FALSE]
  /\ UNCHANGED <<orphaned, alive, connected, handleOpen, connEvent, pollList,
                 cpc, writes, opc, destroyed>>

(* Mutant of EndRound: closes and marks disconnected but creates no new     *)
(* connection event.                                                      *)
EndRoundNoEvent ==
  /\ ppc = "poll" /\ idx > Len(pollList)
  /\ IF nrErrors = nrPolls /\ nrPolls > 0
       THEN /\ lock = "free"
            /\ handleOpen' = FALSE
            /\ connected' = FALSE
       ELSE UNCHANGED <<handleOpen, connected>>
  /\ ppc' = "top"
  /\ UNCHANGED <<orphaned, alive, idx, nrErrors, nrPolls, pollList, active,
                 lock, cpc, writes, opc, destroyed, connEvent>>

(* After the round: when every executed poll failed, close the handle and   *)
(* start reconnecting with a fresh connection event.                       *)
EndRound ==
  /\ ppc = "poll" /\ idx > Len(pollList)
  /\ IF nrErrors = nrPolls /\ nrPolls > 0
       THEN /\ lock = "free"
            /\ handleOpen' = FALSE
            /\ connected' = FALSE
            /\ connEvent' = "active"
       ELSE UNCHANGED <<handleOpen, connected, connEvent>>
  /\ ppc' = "top"
  /\ UNCHANGED <<orphaned, alive, idx, nrErrors, nrPolls, pollList, active,
                 lock, cpc, writes, opc, destroyed>>

(* tryConnect: a due connection event connects under the lock; on success  *)
(* the event is deleted and every poll is activated.                       *)
TryConnect(ok) ==
  /\ ppc = "top" /\ alive /\ ~connected
  /\ connEvent = "active"
  /\ lock = "free"
  /\ IF ok
       THEN /\ handleOpen' = TRUE
            /\ connected' = TRUE
            /\ connEvent' = "none"
            /\ active' = [p \in Polls |-> p \in ToSet(pollList) \/ active[p]]
       ELSE UNCHANGED <<handleOpen, connected, connEvent, pollList, active>>
  /\ UNCHANGED <<orphaned, alive, ppc, idx, nrErrors, nrPolls, pollList, lock,
                 cpc, writes, opc, destroyed>>

-----------------------------------------------------------------------------
(* addNewPoll, called by a block as it opens: it searches m_lstPollList   *)
(* for a poll with its interval and, finding one, only adds itself to it *)
(* (addPollBlock); else it creates a poll and push_backs it.  Neither    *)
(* step takes m_oModbusLock.                                              *)

AddPollFind(c) ==
  /\ cpc[c] = "init" /\ ~destroyed
  /\ cpc' = [cpc EXCEPT ![c] = IF ClientInterval[c] \in ToSet(pollList)
                                 THEN "idle" ELSE "pushing"]
  /\ UNCHANGED <<orphaned, alive, pollerVars, connected, handleOpen, connEvent,
                 pollList, active, lock, writes, opc, destroyed>>

(* The push_back completes.  Whether a new CModbusPoll starts activated is *)
(* decided by its constructor, outside this file: either.                 *)
AddPollPush(c, act) ==
  /\ cpc[c] = "pushing"
  /\ pollList' = Append(pollList, ClientInterval[c])
  /\ active' = [active EXCEPT ![ClientInterval[c]] = act]
  /\ cpc' = [cpc EXCEPT ![c] = "idle"]
  /\ UNCHANGED <<orphaned, alive, pollerVars, connected, handleOpen, connEvent,
                 lock, writes, opc, destroyed>>

-----------------------------------------------------------------------------
(* writeDataRange: under the lock, write only while connected.             *)

WriteLock(c) ==
  /\ cpc[c] = "idle" /\ writes[c] < MaxWrites /\ ~destroyed
  /\ lock = "free"
  /\ writes' = [writes EXCEPT ![c] = @ + 1]
  /\ IF connected
       THEN /\ lock' = c
            /\ cpc' = [cpc EXCEPT ![c] = "writing"]
       ELSE UNCHANGED <<lock, cpc>>
  /\ UNCHANGED <<orphaned, alive, pollerVars, connected, handleOpen, connEvent,
                 pollList, active, opc, destroyed>>

WriteDone(c) ==
  /\ cpc[c] = "writing"
  /\ lock' = "free"
  /\ cpc' = [cpc EXCEPT ![c] = "idle"]
  /\ UNCHANGED <<orphaned, alive, pollerVars, connected, handleOpen, connEvent,
                 pollList, active, writes, opc, destroyed>>

-----------------------------------------------------------------------------
(* The owning block.                                                        *)

(* connect(): create and activate a connection event, start the thread.    *)
(* m_pModbusConnEvent is overwritten: an event still there from a connect  *)
(* that never succeeded is no longer referred to.                         *)
Connect ==
  /\ opc \in {"new", "closed"}
  /\ ppc \in {"idle", "exited"}
  /\ connEvent' = "active"
  /\ orphaned' = (orphaned \/ connEvent = "active")
  /\ alive' = TRUE /\ ppc' = "top"
  /\ opc' = "open"
  /\ UNCHANGED <<idx, nrErrors, nrPolls, connected, handleOpen, pollList,
                 active, lock, cpc, writes, destroyed>>

(* disconnect(), first step: end() asks the thread to stop ...              *)
EndThread ==
  /\ opc \in {"open", "destroying"}
  /\ alive' = FALSE
  /\ opc' = IF opc = "open" THEN "joining" ELSE "joiningToDelete"
  /\ UNCHANGED <<orphaned, pollerVars, connected, handleOpen, connEvent,
                 pollList, active, lock, cpc, writes, destroyed>>

(* Mutant of Joined: end() does not wait for the thread before the close.   *)
JoinedNoWait ==
  /\ opc \in {"joining", "joiningToDelete"}
  /\ IF connected
       THEN /\ handleOpen' = FALSE
            /\ opc' = IF opc = "joining" THEN "closing" ELSE "closingToDelete"
       ELSE /\ opc' = IF opc = "joining" THEN "closed" ELSE "deleting"
            /\ UNCHANGED handleOpen
  /\ UNCHANGED <<orphaned, alive, pollerVars, connected, connEvent, pollList,
                 active, lock, cpc, writes, destroyed>>

(* ... and joins it; then, without taking the lock, closes a connected     *)
(* handle and clears m_bConnected.                                         *)
Joined ==
  /\ opc \in {"joining", "joiningToDelete"}
  /\ ppc = "exited"
  /\ IF connected
       THEN /\ handleOpen' = FALSE
            /\ opc' = IF opc = "joining" THEN "closing" ELSE "closingToDelete"
       ELSE /\ opc' = IF opc = "joining" THEN "closed" ELSE "deleting"
            /\ UNCHANGED handleOpen
  /\ UNCHANGED <<orphaned, alive, pollerVars, connected, connEvent, pollList,
                 active, lock, cpc, writes, destroyed>>

ClearConnected ==
  /\ opc \in {"closing", "closingToDelete"}
  /\ connected' = FALSE
  /\ opc' = IF opc = "closing" THEN "closed" ELSE "deleting"
  /\ UNCHANGED <<orphaned, alive, pollerVars, handleOpen, connEvent, pollList,
                 active, lock, cpc, writes, destroyed>>

(* ~CModbusClientConnection: disconnect() only when connected, then delete *)
(* the polls and the connection event.                                     *)
Delete ==
  \/ /\ opc \in {"new", "open", "closed"}
     /\ IF connected
          THEN /\ opc' = "destroying"
               /\ UNCHANGED destroyed
          ELSE /\ opc' = "deleted"
               /\ destroyed' = TRUE
     /\ UNCHANGED <<orphaned, alive, pollerVars, connected, handleOpen,
                    connEvent, pollList, active, lock, cpc, writes>>
  \/ /\ opc = "deleting"
     /\ opc' = "deleted" /\ destroyed' = TRUE
     /\ UNCHANGED <<orphaned, alive, pollerVars, connected, handleOpen,
                    connEvent, pollList, active, lock, cpc, writes>>

(* The outcome of CModbusConnectionEvent::executeEvent (flow-control       *)
(* preparation, then modbus_connect) and of a poll's executeEvent: success *)
(* or a negative return.                                                   *)
ConnectOutcomes == BOOLEAN

PollOutcomes == BOOLEAN

-----------------------------------------------------------------------------
Init ==
  /\ alive = FALSE
  /\ ppc = "idle"
  /\ idx = 1 /\ nrErrors = 0 /\ nrPolls = 0
  /\ connected = FALSE
  /\ handleOpen = FALSE
  /\ connEvent = "none"
  /\ orphaned = FALSE
  /\ pollList = PollList
  /\ active = [p \in Polls |-> FALSE]
  /\ lock = "free"
  /\ cpc = [c \in Clients |-> "init"]
  /\ writes = [c \in Clients |-> 0]
  /\ opc = "new"
  /\ destroyed = FALSE

PollerStep ==
  \/ ThreadExit \/ StartRound \/ SkipPoll \/ PollBegin
  \/ \E ok \in PollOutcomes : PollEnd(ok)
  \/ \E ok \in ConnectOutcomes : TryConnect(ok)
  \/ EndRound

OwnerStep ==
  Connect \/ EndThread \/ Joined \/ ClearConnected \/ Delete

Next ==
  \/ PollerStep
  \/ \E c \in Clients :
       \/ AddPollFind(c)
       \/ \E act \in BOOLEAN : AddPollPush(c, act)
       \/ WriteLock(c) \/ WriteDone(c)
  \/ OwnerStep

(* The connection thread is scheduled (it sleeps 1 ms per loop); a client  *)
(* inside writeDataRange finishes it.  The server is assumed to accept a  *)
(* connection attempt eventually if attempts keep coming.  The owner is   *)
(* not obliged to act.                                                     *)
Fairness ==
  /\ WF_vars(ThreadExit) /\ WF_vars(StartRound) /\ WF_vars(SkipPoll)
  /\ WF_vars(PollBegin) /\ WF_vars(\E ok \in PollOutcomes : PollEnd(ok))
  /\ WF_vars(EndRound)
  /\ SF_vars(TryConnect(TRUE))
  /\ \A c \in Clients : WF_vars(WriteDone(c))
  /\ WF_vars(Joined) /\ WF_vars(ClearConnected)

Spec == Init /\ [][Next]_vars /\ Fairness

-----------------------------------------------------------------------------
TypeOK ==
  /\ alive \in BOOLEAN /\ connected \in BOOLEAN /\ handleOpen \in BOOLEAN
  /\ ppc \in {"idle", "top", "poll", "polling", "exited"}
  /\ idx \in 1..(Len(pollList) + 1)
  /\ nrErrors \in 0..nrPolls /\ nrPolls \in 0..Len(pollList)
  /\ connEvent \in {"none", "active"} /\ orphaned \in BOOLEAN
  /\ active \in [Polls -> BOOLEAN]
  /\ lock \in {"free", "poller"} \cup Clients
  /\ pollList \in Seq(Polls) /\ IsInjective(pollList)
  /\ cpc \in [Clients -> {"init", "pushing", "idle", "writing"}]
  /\ writes \in [Clients -> 0..MaxWrites]
  /\ opc \in {"new", "open", "joining", "closing", "closed", "destroying",
              "joiningToDelete", "closingToDelete", "deleting", "deleted"}
  /\ destroyed \in BOOLEAN

(* The connection thread only executes a poll on a connected handle:       *)
(* disconnect() ends and joins the thread before it closes the handle, and *)
(* the reconnect path closes it only between polls.                        *)
PollerIoOnOpenHandle == ppc = "polling" => handleOpen

(* A connection that drops while its thread runs is re-established, unless *)
(* the thread is ended: every all-failed round leaves a connection event   *)
(* for tryConnect to retry.                                                 *)
Reconnects == (alive /\ ~connected) ~> (connected \/ ~alive)

(* disconnect() returns: once end() has asked the thread to stop, the     *)
(* join completes and the handle is closed, whether the thread was         *)
(* connecting, in the middle of a poll round or waiting for the lock a     *)
(* writing client holds.                                                   *)
DisconnectReturns == (opc = "joining") ~> (opc = "closed")

(* writeDataRange only writes on a connected handle (spec section 5: the   *)
(* shared connection handle is guarded by one mutual-exclusion region).    *)
ClientIoOnOpenHandle == \A c \in Clients : cpc[c] = "writing" => handleOpen

(* m_lstPollList is never read by the connection thread while a block's   *)
(* addNewPoll is inside push_back on it: std::vector is not thread-safe,  *)
(* and a reallocation frees the storage tryPolling reads                  *)
(* m_lstPollList[index] from.                                             *)
PollListRaceFree == (\E c \in Clients : cpc[c] = "pushing") => ppc # "poll"

(* Every connection event the connection allocates stays reachable        *)
(* through m_pModbusConnEvent until it is deleted (by tryConnect on       *)
(* success or by the destructor): disconnecting while the server is       *)
(* unreachable and connecting again leaks none.                           *)
NoLeakedConnEvent == ~orphaned

(* The connection thread never runs on a deleted connection object.        *)
NoUseAfterDelete == destroyed => ppc \in {"idle", "exited"}
=============================================================================
