-------------------------- MODULE DeviceLifecycle ---------------------------
(***************************************************************************)
(* What the embedding API promises its host (spec section 4.4): the       *)
(* process holds at most one live device; a device is started only once   *)
(* the architecture is initialised and while no device lives, and any     *)
(* other start is rejected without changing anything; a stop ends the     *)
(* live device.                                                            *)
(*                                                                         *)
(* This is the abstract specification ForteInstance is checked against.   *)
(***************************************************************************)
EXTENDS Naturals

VARIABLES
  ready,    (* the architecture is initialised                            *)
  devices   (* number of live devices in the process                       *)

Initialise   == ready' = TRUE  /\ UNCHANGED devices
Deinitialise == ready' = FALSE /\ UNCHANGED devices

(* An accepted start: the architecture is ready and no device lives.       *)
Start ==
  /\ ready
  /\ devices = 0
  /\ devices' = 1
  /\ UNCHANGED ready

(* A stop ends the live device.                                             *)
Stop ==
  /\ devices = 1
  /\ devices' = 0
  /\ UNCHANGED ready

Init == ready = FALSE /\ devices = 0

Next == Initialise \/ Deinitialise \/ Start \/ Stop

Spec == Init /\ [][Next]_<<ready, devices>>
=============================================================================
