---------------------------- MODULE ForteInstance ---------------------------
(***************************************************************************)
(* The embedding API of the runtime (src/arch/zephyr/forte_Init.cpp): a  *)
(* host initialises the architecture, starts a device into a             *)
(* TForteInstance variable it owns, joins it and stops it.               *)
(*                                                                         *)
(* A TForteInstance is a pointer to the RMT_DEV object.  The host's        *)
(* variables are Handles; device objects live at Addresses, and `new`      *)
(* may hand out the address of a device deleted earlier.  Each API call    *)
(* is one step: the calls are made from the host's thread.                 *)
(***************************************************************************)
EXTENDS Naturals, FiniteSets

CONSTANTS
  Handles,    (* the host's TForteInstance variables                       *)
  Addresses,  (* heap addresses an RMT_DEV can be allocated at            *)
  Ports,      (* port arguments of forteStartInstance                      *)
  Null        (* the null TForteInstance                                   *)

ASSUME /\ Null \notin Addresses
       /\ Ports \subseteq Nat

(* Return codes of forteStartInstance.                                      *)
Results == {"FORTE_OK", "FORTE_WRONG_PARAMETERS",
            "FORTE_ARCHITECTURE_NOT_READY", "FORTE_DEVICE_ALREADY_STARTED",
            "FORTE_WRONG_ENDIANESS", "none"}

VARIABLES
  archInit,   (* CForteArchitecture::isInitialized()                        *)
  handle,     (* [Handles -> Addresses \cup {Null}]: *paResultInstance      *)
  dev,        (* [Addresses -> {"free", "running"}]: the object at an address *)
  listen,     (* [Addresses -> Nat]: port of the device's "localhost:<port>" *)
              (* manager address (0 while the address is free)             *)
  result      (* [Handles -> Results]: the last start's return code         *)

vars == <<archInit, handle, dev, listen, result>>

-----------------------------------------------------------------------------
(* forteGlobalInitialize / forteGlobalDeinitialize.                          *)
forteGlobalInitialize ==
  /\ archInit' = TRUE
  /\ UNCHANGED <<handle, dev, listen, result>>

forteGlobalDeinitialize ==
  /\ archInit' = FALSE
  /\ UNCHANGED <<handle, dev, listen, result>>

(* checkEndianess: the endianness configured at build time matches the     *)
(* platform in every build this model describes.                           *)
checkEndianess == TRUE

(* forte_default_port replaces port 0.                                      *)
EffectivePort(port) == IF port = 0 THEN 61499 ELSE port

(* Mutant of createDev: the device is not stored into *paInstance.         *)
createDevNoStore(h, port) ==
  \E a \in Addresses :
    /\ dev[a] = "free"
    /\ dev' = [dev EXCEPT ![a] = "running"]
    /\ listen' = [listen EXCEPT ![a] = port]
    /\ UNCHANGED handle

(* createDev(address, h): a new RMT_DEV at a free address, given the       *)
(* manager address, initialised and started, stored into the host's       *)
(* variable.                                                               *)
createDev(h, port) ==
  \E a \in Addresses :
    /\ dev[a] = "free"
    /\ dev' = [dev EXCEPT ![a] = "running"]
    /\ listen' = [listen EXCEPT ![a] = port]
    /\ handle' = [handle EXCEPT ![h] = a]

(* Mutant of forteStartInstance: the port bound is off by one.             *)
forteStartInstancePortBound(h, port) ==
  LET fail(code) == /\ result' = [result EXCEPT ![h] = code]
                    /\ UNCHANGED <<handle, dev, listen>>
  IN /\ CASE port > 65536       -> fail("FORTE_WRONG_PARAMETERS")
          [] ~archInit          -> fail("FORTE_ARCHITECTURE_NOT_READY")
          [] handle[h] # Null   -> fail("FORTE_DEVICE_ALREADY_STARTED")
          [] OTHER              -> /\ createDev(h, EffectivePort(port))
                                   /\ result' = [result EXCEPT ![h] = "FORTE_OK"]
     /\ UNCHANGED archInit

(* Mutant of forteStartInstance: no check that the architecture is ready.  *)
forteStartInstanceNoArchCheck(h, port) ==
  LET fail(code) == /\ result' = [result EXCEPT ![h] = code]
                    /\ UNCHANGED <<handle, dev, listen>>
  IN /\ CASE port > 65535       -> fail("FORTE_WRONG_PARAMETERS")
          [] handle[h] # Null   -> fail("FORTE_DEVICE_ALREADY_STARTED")
          [] OTHER              -> /\ createDev(h, EffectivePort(port))
                                   /\ result' = [result EXCEPT ![h] = "FORTE_OK"]
     /\ UNCHANGED archInit

(* forteStartInstance(port, &handle) and forteStartInstanceGeneric: the     *)
(* checks in their order, then createDev.  The argument vector built from   *)
(* the port always has a "localhost:<port>" address, so the parse check     *)
(* passes.                                                                 *)
forteStartInstance(h, port) ==
  LET fail(code) == /\ result' = [result EXCEPT ![h] = code]
                    /\ UNCHANGED <<handle, dev, listen>>
  IN /\ CASE port > 65535       -> fail("FORTE_WRONG_PARAMETERS")
          [] ~archInit          -> fail("FORTE_ARCHITECTURE_NOT_READY")
          [] handle[h] # Null   -> fail("FORTE_DEVICE_ALREADY_STARTED")
          [] ~checkEndianess    -> fail("FORTE_WRONG_ENDIANESS")
          [] OTHER              -> /\ createDev(h, EffectivePort(port))
                                   /\ result' = [result EXCEPT ![h] = "FORTE_OK"]
     /\ UNCHANGED archInit

(* forteStopInstance(sig, handle): kill the device, join its management    *)
(* resource and delete it.  The handle is passed by value: the host's     *)
(* variable keeps the dangling pointer.                                    *)
forteStopInstance(h) ==
  /\ archInit
  /\ handle[h] # Null
  /\ dev' = [dev EXCEPT ![handle[h]] = "free"]
  /\ listen' = [listen EXCEPT ![handle[h]] = 0]
  /\ UNCHANGED <<archInit, handle, result>>

(* forteJoinInstance(handle): wait for the management resource to end.  On  *)
(* a running device the host's only thread blocks for good; the call       *)
(* returns once the device has been stopped.                               *)
forteJoinInstance(h) ==
  /\ handle[h] # Null
  /\ dev[handle[h]] = "free"
  /\ UNCHANGED vars

(* The host clears its variable after a stop: not an API call, but what   *)
(* the host must do before it may start again through that variable.     *)
ClearHandle(h) ==
  /\ handle[h] # Null
  /\ dev[handle[h]] = "free"
  /\ handle' = [handle EXCEPT ![h] = Null]
  /\ UNCHANGED <<archInit, dev, listen, result>>

-----------------------------------------------------------------------------
Init ==
  /\ archInit = FALSE
  /\ handle = [h \in Handles |-> Null]
  /\ dev = [a \in Addresses |-> "free"]
  /\ listen = [a \in Addresses |-> 0]
  /\ result = [h \in Handles |-> "none"]

Next ==
  \/ forteGlobalInitialize
  \/ forteGlobalDeinitialize
  \/ \E h \in Handles :
       \/ \E port \in Ports : forteStartInstance(h, port)
       \/ forteStopInstance(h)
       \/ forteJoinInstance(h)
       \/ ClearHandle(h)

Spec == Init /\ [][Next]_vars

-----------------------------------------------------------------------------
TypeOK ==
  /\ archInit \in BOOLEAN
  /\ handle \in [Handles -> Addresses \cup {Null}]
  /\ dev \in [Addresses -> {"free", "running"}]
  /\ listen \in [Addresses -> 0..65535]
  /\ result \in [Handles -> Results]

Running == {a \in Addresses : dev[a] = "running"}

(* At most one device is live in the process (spec 4.4: starting a second  *)
(* device while one is active is rejected); forteStartInstanceGeneric      *)
(* enforces it only through the variable the host passes in.               *)
SingleLiveDevice == Cardinality(Running) <= 1

(* A running device is never lost: some host variable still points to it,  *)
(* so it can still be stopped (the already-started check refuses to       *)
(* overwrite a handle).                                                    *)
NoLostDevice == \A a \in Running : \E h \in Handles : handle[h] = a

(* The abstract lifecycle of spec 4.4: the number of running device        *)
(* objects is the number of live devices, the architecture's flag is its  *)
(* readiness.                                                              *)
Lifecycle == INSTANCE DeviceLifecycle
               WITH ready <- archInit, devices <- Cardinality(Running)

(* The API implements the device lifecycle of spec 4.4 for a host that      *)
(* follows it: forteStartInstance creates a device only when the           *)
(* architecture is initialised and none lives, every rejected call and    *)
(* every join leaves the lifecycle unchanged, and forteStopInstance ends   *)
(* the one live device.                                                    *)
DeviceLifecycleRefined == Lifecycle!Spec
=============================================================================
