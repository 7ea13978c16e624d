# TLA+ models of 4diac FORTE (this repository's `src/`)

This directory holds TLA+ models of the concurrent and stateful parts of the
code under `src/`. TLC checks them. Each module is translated from the source
lines that `PROJECT.json` → `map` names for each definition. A definition
marked `spec_modelled` models code that is not in `src/`, such as the timer
registry or `CIfSpecBuilder::build`. Those definitions follow `spec.md`.

To reproduce a run, go to this directory and type
`tlc -workers 2 -config <cfg> <MC module>`. The runs are listed in
`PROJECT.json` → `runs`.

## 1. Inventory of the system

`spec.md` describes a core with the parts below. Only some of them have
source in `src/`:

- **SpecBuilder.** Source: `src/core/utils/ifSpecBuilder.h`.
  - State: event-name lists, data-name lists and type-name lists for inputs
    and outputs; the with-binding lists; the adapter list; one `m_bIsGood`
    flag in each of the event, data and with sub-builders.
  - Operations: `addEvent`, `addEventRange`, `addData`, `addDataRange`,
    `bind` (for one data port, a list of them, or a range), `bindRange`,
    `addAdapter` and `build`.
  - Hard behaviours: port references are narrowed to the 8-bit `TDataIOID`,
    and the largest value is the invalid sentinel that also terminates the
    compiled with-table. Poisoning happens on the first invalid operand. A
    list bind that fails still leaves its first bindings applied.
  - Properties: `build` fails closed, and the with-table reads back what was
    bound (spec §8).
- **Block execution state machine and Timer Service** (spec §4.2, §4.3). There
  is no source for these in `src/`. They are used by
  `src/stdfblib/events/E_TimeOut.cpp`.
  - E_TimeOut's state: `mActive`, and one intrusive timer-list entry.
  - E_TimeOut's operations: `executeEvent` with START, STOP or the external
    timer event, and `changeFBExecutionState`.
  - Interactions: the timer thread fires due entries. A fired entry is
    queued on the executor captured at registration, and the block reacts
    to it later on that executor.
  - Properties: START is always answered, and no entry outlives its block.
    That an entry never fires twice is the registry's own guarantee (spec
    §4.3); the model takes it as given.
- **Modbus client connection.** Source: `src/com/modbus/modbusclientconnection.cpp`.
  - Three actors share one libmodbus handle under `m_oModbusLock`:
    - the connection's own thread (`run`, `tryPolling`, `tryConnect`);
    - client blocks on other threads, which register their poll interval
      (`addNewPoll`) as they open and then write (`writeDataRange`);
    - the owning block (`connect`, `disconnect`, the destructor).
  - Hard behaviours: reconnecting after a round in which every poll failed,
    deactivating polls, ending and joining the thread, and deleting while
    the thread runs.
  - Properties: I/O happens only on an open handle, a dropped connection is
    re-established, `disconnect` always returns, nothing runs on a
    deleted object, the poll list is never changed while the connection
    thread reads it, and no connection event is leaked.
- **emBrick Master.** Source: `src/modules/embrick/types/Master.cpp`.
  - INIT starts or ends the process-wide `BusHandler` singleton thread. Only
    one Master is permitted.
  - Masters in different resources run in parallel (spec §5).
  - INITO from the bus adapter is forwarded: QO is copied from the adapter.
  - Properties: the bus is started once, and it never runs without a
    Master that claims it.
- **Embedding API.** Source: `src/arch/zephyr/forte_Init.cpp`; the rcX copy is
  `src/arch/rcX/forte_instance.cpp`.
  - State: the architecture's initialised flag, the host's `TForteInstance`
    variables, and the device objects on the heap.
  - Operations: start, stop, join, and global initialise and deinitialise.
  - Properties: the API implements the abstract device lifecycle of spec
    §4.4 (module `DeviceLifecycle`), and no running device is lost. Two host
    variables break the single-live-device rule.
- **Not modelled:**
  - `modbusioblock.h`: declarations only.
  - `io_controller_multi.h`: a pure virtual interface, with an unresolved
    merge conflict.
  - `OUT_ANY_CONSOLE.h`: a console-output block declaration.
  - The datatype tests under `src/tests`: their implementation is not in
    `src/`.
  - The dispatcher, event-chain scheduler and resource/device lifecycle of
    spec §4.2–4.4, beyond what `ETimeOut` needs: there is no source for them.

`PROJECT.json` → `hazards` lists every hazard at its source line. Each one
names the properties that catch it, or has a note saying why none does yet.

## 2. Modules

The modules come in order of importance. The most important behaviour is the
cross-thread timer re-delivery protocol, so it comes first.

| Module | Models | State ↔ code | Actions ↔ code |
|---|---|---|---|
| `ETimeOut` | E_TimeOut + timer service + block state machine | `mActive`; `registered` = copies of `mTimeListEntry` in the registry; `pending` = fired events queued on the executor; `fbState` | `ExecuteStart`/`ExecuteStop`/`DeliverTimeOut` = the three branches of `executeEvent`; `StopCommand`/`KillCommand` = `changeFBExecutionState` including the trailing cancel; `Fire` = timer thread; `DropTimeOut` = executor discarding an event for an inactive block |
| `IfSpecBuilder` | the builder | counts of the name/type lists, the `m_bIsGood` flags, the with lists per event, the adapter list, the references the client holds | one action per builder call; `Build` compiles the with-table in the layout of `scm_anEOWith`/`scm_anEOWithIndexes` (see `Master.cpp` lines 34–40) |
| `ModbusClientConnection` | the Modbus connection | `alive` (`isAlive`), `ppc` (where the thread is), `connected` (`m_bConnected`), `handleOpen` (the libmodbus handle), `connEvent`, `orphaned` (an event no pointer refers to any more), `active` per poll, `pollList` (`m_lstPollList`), `lock` (`m_oModbusLock`), client and owner program counters | the thread's loop split at the lock boundaries (`StartRound`, `SkipPoll`, `PollBegin`, `PollEnd`, `EndRound`, `TryConnect`, `ThreadExit`); `addNewPoll` as `AddPollFind` (the search) → `AddPollPush` (the `push_back`); `WriteLock`/`WriteDone`; the owner's `Connect`, `disconnect` as `EndThread` → `Joined` → `ClearConnected`, and `Delete` |
| `EmBrickMaster` | Master + `BusHandler` singleton | `busAlive`, each Master's `pc`, `QO` and `cfgPending` (adapter INIT not yet answered) | `InitStart` (the isAlive check), `StartBus` (start, waitForInit, adapter INIT), `BusInitO` (the adapter's INITO forwarded), `InitStop`, `Delete` |
| `ForteInstance` | embedding API | `archInit`, `handle` per host variable, `dev` and `listen` per heap address | `forteStartInstance` (all its checks in order, then `createDev`), `forteStopInstance`, `forteJoinInstance`, `forteGlobalInitialize`/`Deinitialize`; `ClearHandle` is the host resetting its variable |
| `DeviceLifecycle` | the abstract device lifecycle of spec §4.4 | `ready`, `devices` (number of live devices) | `Initialise`, `Deinitialise`, `Start` (only when ready and none lives), `Stop` |

`ForteInstance` is shown to implement `DeviceLifecycle` by refinement:
`Lifecycle == INSTANCE DeviceLifecycle WITH ready <- archInit, devices <-
Cardinality(Running)`, and the run checks `Lifecycle!Spec` as a PROPERTY.
Rejected starts, joins, clearing a handle, and a stop after
deinitialisation are stutter steps of the abstract lifecycle.

Each `MC_<Module>.tla` extends its module and defines the constants. The
`.cfg` files substitute them with `<-`.

Abstractions:
- Names, type names and payloads are dropped. A port is its index.
- I/O outcomes (a poll, a connection attempt) are nondeterministic choices.
- Poll timing is abstracted to rounds in which every active poll is due.
- History variables (`startEvents`, `awaiting`, `served`, `restarted`,
  `calls`, `callsValid`, `requested`) exist only for the properties.
- Every mutant operator (`… Mutant of X …`) is a plausible bug in the code
  that X maps to.

### Further work

Each item below needs code that is not in `src/`, or a property no source
statement settles. That is why none is modelled yet.

1. A timer-service refinement for `ETimeOut`. The obvious abstract spec (a
   one-shot timer, armed by START, disarmed by STOP, expiring once) is not
   implemented by the code: the stale delivery of `etimeout_kill` refutes it.
   A refinement worth checking needs a finer registry, whose code is not in
   `src/`.
2. The event-chain executor: a bounded external-event queue with its full
   case; cross-resource FIFO (spec §4.3, §5); and a resource
   start/stop/kill/join lifecycle composed with `ETimeOut`, to split the
   management thread from the executor (the hazard at `E_TimeOut.cpp:51`).
3. Modbus: `readData` against the poll cache. The cache is written by
   `CModbusPoll::executeEvent`, which is not in `src/`.
4. The builder's name lookup (`operator[]` through `findString`), and
   `setStatic*` static tables shared by reference. `findString` and
   `setStaticList` are defined in the builder's `.cpp`, which is not in
   `src/`.

## 3. Runs

| Run | Expect | What it shows |
|---|---|---|
| `etimeout` | pass | With the timer thread racing STOP, Stop and Kill, every START is eventually answered by a TimeOut or cancelled (`StartAnswered`). A stale delivery counts as an answer here, so the stale event is checked by `etimeout_kill`, not by this run. |
| `etimeout_kill` | violation | Start, START, the timer fires, STOP, START, then the stale event is delivered and clears `mActive` while the new entry is registered. After that, Kill leaves the entry in the registry (`NoTimerAfterKill`). The same stale delivery sends a TimeOut after STOP. |
| `ifspec` | pass | Over every call sequence of up to 6 calls, `build` succeeds exactly when every operand named a declared port, every range size was positive and all lists fit (`BuildFailsClosed`). The with-table that a successful build compiles reads back, for each event, exactly the data ports the client passed to `bind`, `bind(list)` and `bindRange` for it, in call order (`BuildBindsRequested`). The history variable `requested` records those operands as the ports the references were obtained for, so a lost, extra, misplaced or wrapped binding shows up against what the client asked. |
| `modbus` | pass | Polls execute only on an open handle (`PollerIoOnOpenHandle`), because disconnect joins the thread first. A dropped connection is re-established while the thread lives (`Reconnects`). `disconnect` always returns: the thread leaves its loop from mid-round, from connecting, or from waiting for a client's lock (`DisconnectReturns`). The poller property says nothing about a client's write racing `disconnect`; that race is `modbus_clientio`. |
| `modbus_clientio` | violation | `disconnect` closes the handle while a client holds the lock inside `writeDataRange`. |
| `modbus_delete` | violation | Connect, then delete before the connection is made: the destructor skips `disconnect`, and the thread keeps running on the freed object. |
| `modbus_pushrace` | violation | A block starts `addNewPoll` for a new interval; the owner connects; the thread connects and starts a round, reading `m_lstPollList` while the block's `push_back` is still in progress (`PollListRaceFree`). |
| `modbus_leak` | violation | Connect, then disconnect before the server answered (the thread exits unconnected and the event stays in `m_pModbusConnEvent`), then connect again: `connect` overwrites the pointer and the first event is never deleted (`NoLeakedConnEvent`). |
| `forte_instance` | pass | With one host variable, the API implements the device lifecycle of spec §4.4 (`DeviceLifecycleRefined`), and no running device is lost (`NoLostDevice`). Ports outside 0..65535 are rejected. One host variable cannot show the double start through two handles; `forte_instance_twohandles` does. |
| `forte_instance_twohandles` | violation | Two host variables start two live devices. |
| `embrick_master` | pass | With two Masters and the bus adapter answering either way, the bus thread never runs without a Master that claims it (`NoOrphanBus`). This holds even when the two Masters race to start the bus; the race itself is `embrick_master_race`. |
| `embrick_master_race` | violation | Both Masters pass the isAlive check, then both start the bus. |

`PROJECT.json` → `findings` says what each violation means for the code.
Four problems found while modelling have no run of their own:
- A second `forteStopInstance` through the same, now dangling, handle
  deletes the device again (`forte_Init.cpp:109`). This is host misuse of a
  by-value handle.
- A builder poisoned by a zero-size range still appends the names that
  later `addEvent` calls give it (`ifSpecBuilder.h:262`), against the
  no-op rule of spec §4.1. A block cannot observe it: `build` still fails
  (`BuildFailsClosed`).
- A poll that failed once stays deactivated as long as another poll
  succeeds. Nothing in the spec settles whether this is intended.
- A second Master, rejected by INIT(QI=TRUE), ends the bus the first one
  started with its INIT(QI=FALSE) (`Master.cpp:86`). Like
  `embrick_master_race`, it needs a second Master, which the code already
  reports as not permitted.

### Bounds, and why they are enough

- **ETimeOut:** `MaxStartEvents = 5`. Reaching the bug takes two STARTs, and
  five allow several re-arms over stale queued events. STOP and management
  commands are unbounded.
- **IfSpecBuilder:**
  - Scope: one direction, and a 2-bit `TDataIOID` (sentinel 3).
  - Capacity: a capacity of 2; range sizes {0, 2}; 6 calls; bind lists of up
    to 2; 1 adapter.
  - Why this is enough:
    - This is the smallest width in which a declared index (3) collides with
      the sentinel and the next one (4) wraps onto port 0.
    - It covers both over-capacity and invalid-size failures.
    - Bind lists with an invalid element in the middle are included.
- **Modbus:**
  - Two polls, so one can fail while the other succeeds.
  - Two client blocks, each registering a poll of its own interval and
    writing up to twice. With the owner, that gives three threads besides
    the connection thread, and a block may open before or after the owner
    connects.
  - The owner may connect and disconnect repeatedly.
- **ForteInstance:**
  - Three heap addresses, so a freed address may or may not be reused.
  - Ports {0, 4840, 65535, 65536}, at the edges of the checks.
  - One host variable for the refinement, two for the violation.
- **EmBrickMaster:** two Masters, which is the least that shows the race.

### Fairness

Liveness is checked only in `ModbusClientConnection` (`Reconnects`,
`DisconnectReturns`) and `ETimeOut` (`StartAnswered`).
- **Weak fairness on the connection thread's steps.** `run` loops with a
  1 ms sleep and is never blocked except on the lock.
- **Weak fairness on `WriteDone` and on the owner's post-join steps.** These
  finish a call that is already in progress.
- **Strong fairness on a successful `TryConnect`.** This is the assumption
  that a server which is retried forever eventually accepts.
- **No fairness on the owner.** It is not obliged to connect, disconnect or
  delete.

`ETimeOut` assumes weak fairness of the timer thread's `Fire`, and of the
executor draining its queue (`DeliverTimeOut`/`DropTimeOut`). The adapter and
the manager are not obliged to send anything.

Deadlock checking is off only where the system really stops:
- Kill is terminal.
- `build` is the last call on a builder.
- A deleted connection or Master receives nothing more.

## 4. Not modelled, and why

- **Data values:**
  - poll caches and their unlocked `readData`;
  - the `PARAMS` and `STATUS` data of the Master (only `QO` is kept);
  - string names.
- **Code not in `src/`:**
  - the bodies of the builder's `.cpp` (range adds, `bindRange`, `build`
    storage);
  - `CTimerHandler`;
  - `CEventChainExecutor`;
  - `BusHandler`;
  - `RMT_DEV`.

  Where the models need these, they follow the spec and are marked
  `spec_modelled`.
- **`src/arch/rcX/forte_instance.cpp` does not compile as given:**
  `forteStartInstance` formats the undeclared `paPort` (line 56). A file
  that does not build has no behaviour to check, so it is not modelled.
  Otherwise its logic is the Zephyr file's without `forteJoinInstance`.
- **A per-block Stop or Kill racing the block's executor**
  (`E_TimeOut.cpp:51`). `ETimeOut` runs each handler and each command as
  one step. Splitting them needs the base class's `receiveInputEvent` and
  the resource lifecycle, which are not in `src/`.
