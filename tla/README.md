# Formal models of Forch

Forch orchestrates a network of Faucet-controlled switches. It learns which device is at which
access port, authenticates devices by RADIUS (MAC authentication bypass), reads static
behaviours and placements from files, may sequester a device in a VLAN of its own for testing,
and writes the Faucet configuration that puts each port into the VLAN its device is entitled to.
It follows the events of Faucet and watches processes, VRRP and the control plane network to
show the state of the whole system.

This directory holds TLA+ models of that program, the TLC configurations that check them, and
proofs for TLAPS. The models are translated from the code in `forch/`; the protocol buffers,
the documentation and the tests in `testing/` were read for the intended behaviour.

## 1. The system

### 1.1 Components

| component | code | state it keeps | operations |
|---|---|---|---|
| Port state manager | `port_state_manager.py` | one state machine per learned device; static and dynamic behaviours; auto-sequester flags; sequester timers; the device at each port | device placement, device behaviour (dynamic or static), static placement, clearing of both, test result, sequester timeout, scheduled sequestering |
| Authenticator | `authenticator.py`, `simple_auth_state_machine.py` | one session per device: state, retries, timeout | device placement, heartbeat, RADIUS result |
| RADIUS query | `radius_query.py`, `radius_socket.py` | next packet identifier, device and request authenticator per identifier | send a request; receive, validate and match a response |
| RADIUS packets | `radius.py`, `radius_attributes.py`, `radius_datatypes.py` | none | pack, sign, take apart, join, validate |
| Faucetizer | `faucetizer.py` | dynamic and static placements, behaviours, segment-to-VLAN map, structural configuration, testing VLANs in use, configuration written last | placement, behaviour, reloads, flush (instant or periodic) |
| Forchestrator | `forchestrator.py` | the components above, static files, authentication flags, configuration errors, active state | initialisation, event loop, reload of the static files, restoration of states, summaries |
| Faucet event client | `faucet_event_client.py` | event buffer, event horizon, debounce timers | connect, receive, debounce, deliver in order |
| Faucet state collector | `faucet_state_collector.py` | switches, ports, learned hosts, LAG, stack topology | one handler per Faucet event, restoration, HTTP getters, cleanup |
| Device report client | `device_report_client.py` | testing sessions, their threads | learn, assign, port down, progress, result, disconnect |
| Endpoint handler | `endpoint_handler.py` | tap ports, tunnels | allocate, free and reclaim a tap port; create and clean up a tunnel |
| File watcher | `file_change_watcher.py` | hash and content of each file | register, callback on a change |
| Heartbeat scheduler | `heartbeat_scheduler.py` | callbacks and timer | periodic callbacks |
| CPN collector, ping manager | `cpn_state_collector.py`, `ping_manager.py` | node states, consecutive pings | periodic pings, summary |
| Local state collector | `local_state_collector.py` | processes, VRRP state | periodic check, handler of active state, summaries |
| HTTP, varz, metrics, topology, command line | the rest of `forch/` | none of their own | requests, export of metrics |

### 1.2 How they interact

```
 Faucet events ─> event client ─> main_loop ─> FaucetStateCollector ──placement──┐
 Faucet metrics ─────────────────────┘ restore   │ learn, port down              v
                                                 v            Forchestrator._process_device_placement
 testing service <─> DeviceReportClient <─> EndpointHandler       │ placement        │ placement
                         │ result      ^ assigned VLAN            v                  v
                         v             └───────────┐         Authenticator <─> RadiusQuery <─> server
 static files ─> FileChangeWatcher ─> PortStateManager <── result ┘
                                         │ placement, behaviour
                                         v
                                     Faucetizer ─> Faucet configuration, reporter (assigned VLAN)

 ping, VRRP, processes ─> CPN and local collectors ─> active state ─> cleanup of FaucetStateCollector
                                    └─> get_system_state <── dataplane summary
```

Calls are synchronous, and each of them runs in the thread of its origin: the event loop, the
RADIUS receiving thread, the file watcher's observer, one thread per testing session,
`threading.Timer`s, the heartbeats, the periodic checks, and HTTP requests. Each component
protects its dictionaries by a lock of its own, not always and not everywhere.

### 1.3 What is hard

* **Interleavings.** The port state manager takes its lock only for parts of its work, and none
  for its timers; the faucetizer flushes with its lock or without; the
  receiving thread looks at sessions outside the lock; a RADIUS result changes learned hosts
  without the lock of the collector; the heartbeat and the main loop share the waiting topology
  without a lock; two threads take the collector's two locks in opposite orders; the thread of an
  old testing session ends with a `disconnect` that may hit the session that replaced it.
* **Timers.** Sequester timers outlive their session, scheduled sequesterings meet
  deauthentications, a debounce timer fires as the port comes up.
* **The network.** RADIUS datagrams are lost, late or duplicated, over 256 identifiers; Faucet
  events are missed or repeated around a reconnection.
* **Long protocols.** Static behaviours, dynamic ones, testing and placements overlap in any
  order; a device moves, two devices share a port, a device is seen at two ports.
* **Scarce resources.** Testing VLANs, tap ports, packet identifiers.
* **Partial failure.** A reload raises half way, the callback of the watcher with it; a restoration
  fails; a periodic check raises before it sets its next timer.
* **Start-up.** Static files are applied before the first flush and before they are watched.

The full list, line by line, is `hazards` in `PROJECT.json`.

### 1.4 What makes each component correct

* Port state manager: a device has access only on a standing authorisation, in the way its state
  says; the tests cannot be bypassed; sequestering ends; every session can be disconnected; no
  thread breaks an assertion or brings back what another thread has revoked.
* Authenticator and RADIUS: nobody gets access except by an accept for that very device and
  that session; every request ends; the receiving thread lives; a good response is never taken
  for a forged one, nor the other way round.
* Faucetizer: a sequestered device is alone in its VLAN, keeps it, and the testing service
  knows it, whatever changes during a flush; no device waits while a VLAN is idle; the ports follow
  the placements.
* Event client: events are applied once, in order; after a loss the state is taken over anew.
* State collector: its tables agree, no deadlock; summary and paths are those of Faucet once
  everything is handled; a topology is neither lost, nor put off, nor replaced by an older one.
* Device reports: a device has one session, a result belongs to it; tap ports are conserved.
* Static files: what is applied is what the file says; authentication is disabled just as long as
  there is a reason; no change is missed.
* System state: what is shown as healthy is healthy, and what is healthy is shown in the end.

## 2. The modules

| module | what it is |
|---|---|
| `PortStateManager` | the manager, every handler one step up to the end of its locked part; the steps of timers and results after it |
| `PortStateRaces` | the same handlers for one device, split at their accesses to shared state, with the lock |
| `Authenticator` | sessions, packet identifiers, receiving thread; network and server as environment |
| `RadiusPacket` | the bytes of requests and responses: signing, taking apart, joining, validating |
| `Faucetizer` | placements, behaviours and VLANs, and the steps of the flushes that turn them into port VLANs |
| `ConfigFiles` | the static files, their loading and watching, the flags that disable authentication |
| `FaucetEvents` | connection, event order, debouncing and restoration |
| `EventReplica` | the abstract specification that `FaucetEvents` implements |
| `LearnedHosts` | tables of learned hosts under two locks, RADIUS results, requests, host paths |
| `Dataplane` | LAG, stack, switches, coalesced topologies, restoration, summary, egress paths |
| `TestingService` | testing sessions, their threads, tap ports and tunnels |
| `SystemState` | pings, VRRP, processes, active state, and the state of the system |
| `MC*` | the constants TLC needs for each of them |
| `PortStateManagerProofs`, `AuthenticatorProofs`, `FaucetizerProofs`, `FaucetEventsProofs`, `TestingServiceProofs`, `SystemStateProofs`, `FaucetStateProofs`, `ConfigFilesProofs` | theorems and proofs (section 5) |

A definition whose comment starts with "Mutant:" is a plausible bug in the definition after it.
Such definitions are in no specification; they serve to show that a property can fail. The
modules interact through their inputs: the placements that `LearnedHosts` causes are inputs of
`PortStateManager` and `Authenticator`, the VLANs that `Faucetizer` tells are inputs of
`TestingService`, whose results are inputs of `PortStateManager`. What one module takes for
granted of another is named where it does (`PlacementAgrees` in `Faucetizer`).

### 2.1 PortStateManager

`device[m]` collects what the dictionaries of the manager hold for the MAC address `m`: state
machine, static and dynamic behaviour, auto-sequester flag, timers, and `applied`, the behaviour
the device state manager (the faucetizer) was told last. `placementToMac` is `_placement_to_mac`;
`dynamicPlacement` is what the faucetizer was told of learned devices. `NextState` is the
transition table, `Transition` runs `process_event` with the callback of the state entered.
There is one action per entry point (`HandleLearnedDevice`, `HandleDisconnectedDevice`,
`HandleDeviceBehavior`, `HandleStaticDeviceBehavior`, ...).

Test results and sequester timers change `_sequester_timer` without the lock, so they take
several steps. A thread that delivers a result (`tester`) makes the transition under the lock, then
looks for a timer, cancels the one that is there by then, and deletes the entry
(`HandleTestingResult`, `ResultLooksForTimer`, `ResultCancelsTimer`, `ResultDeletesTimer`). A timer
runs out, looks for its entry, deletes the one that is there by then, and fails the device
(`SequesterTimerFires`, `TimeoutLooksForTimer`, `TimeoutDropsTimer`, `HandleSequesteringTimeout`).
`timer` is the entry, `orphan`, `found` and `failing` say whether there are timers without an entry,
that have found one, or that are about to fail the device; of these only "none" or "some" is kept,
so a step leaves open whether it was the last. `lost` is history: the entry of this
sequestering was taken by a result that came before it.

Abstractions: ACLs, roles, metrics gauges and the `disconnect` sent to the reporter are left out.
`sequester_config` is taken to be there. `test_result_device_states` may redirect a result to
any state but `sequestered`. A scheduled sequestering is a valid time in the future; when it fires
is left open. What threads do to each other inside the locked parts is the subject of
`PortStateRaces`, which has no timers.

### 2.2 PortStateRaces

For one device at one port, five threads (`event`, `auth`, `file`, `test`, `sched`) run the
handlers in the steps between two accesses to shared dictionaries. `lock` holds the owner of
`_lock`. A thread that finds a state machine gone continues with the object it holds (`stale`)
or raises `KeyError`, as the code does; what it raises is recorded in `failed` and the lock
is released by its `with` block.

### 2.3 Authenticator

A session is `[state, retries]`; its timeout has always possibly passed, so `HandleSmTimer` may
come at any time. Requests are kept in a sequence: the index of a request is its request
authenticator, which the code draws at random. A response, once sent, remains receivable:
it may come never (loss), late, or twice. The receiving thread takes four steps
(`ReceiveRadiusMessage` with `ValidatePacket`, `FindMac`, `CheckSession`,
`CompleteRadiusResult`), since placements and heartbeats run between them; only the last of them
holds `_sessions_lock`. An exception that leaves `receive_radius_messages` is `pc = "dead"`: the
response cannot be parsed (`UNREADABLE`, as with an attribute of an unknown type), fails the
validation, has a text or a segment that is not UTF-8 (`UNDECODABLE`), the session is gone, or the
callback of the result raises (for the devices of `MayRaise`). Identifiers are used again after
`IdSpace` requests. The heartbeat takes sessions one by one. Sending does not fail in the model.
`RequestTimeout` is written as the code has it: its branch never runs because `retries` is only
counted inside it (section 4.2), so the run does not take it beyond its guard.

### 2.4 RadiusPacket

A packet is a sequence of bytes after the header. A request goes through `EncodeMabMessage` and
`Build`, which puts the digest at the byte position that `IndexOf` finds. A response goes through
`ExtractAttribute`, one turn of the loop of `extract_attributes` (`pos`, `index` and `last` are
its local variables, `toConcat` is `attributes_to_concat`), `MergeConcatAttributes`, and
`ValidateReceived`, which packs the attributes again and compares the digests of what it packed
with the ones received. A digest is taken for the bytes it is made of: digests do not collide.
The server may send parts of an EAP-Message that are empty, not full or apart from each other,
and the network may alter any one data byte.

The definitions that `Authenticator` has too are named for the packet here (`PacketInit`, `PacketSpec`,
`ServerResponse`, ...), so that one module of proofs can be about both. The lengths that `__len__` and
`indexof` add up are a recursive function (`Lengths`), which the proofs can unfold.

Abstractions: identifiers and authenticators of the header are in `Authenticator`; of the 25
attribute types those remain that requests have or the program reads, and EAP-Message, the only
one whose value spans several attributes; `Class` stands for the types that `ATTRIBUTE_TYPES` does not
have. `MaxDataLength` (253) and `DigestLength` (16) are 2.

### 2.5 Faucetizer

`testingVlan` is `_testing_device_vlans`, `config` the VLAN of each port in
`_behavioral_faucet_config` (`None` before the first flush), `told` what the reporter was told by
`process_port_assign` since the device has been tested. Every entry point changes its input and,
unless `interval` is set, begins a flush. `flush[w]` is the local state of the flush of worker `w`:
`Begin` takes the available VLANs and the placements, `Place` gives the next device a VLAN, `Update`
looks its behaviour up again and tells the reporter, `FinalizeHostPortsConfig` replaces the
testing VLANs and `Store` the configuration. Other threads come between these steps.

There are two workers: `caller` is a thread that hands over a placement or a behaviour of a device,
and `own` the one that watches the files or, with an interval, runs the periodic task. What
`process_device_placement`, `process_device_behavior` and `reload_structural_config` change and
flush is under `lock`. `ReloadSegmentsToVlans`, `ClearStaticPlacement`, `PeriodicFlush` and
`InitialFlush` take no lock, so they change what a flush of the other worker reads, or flush at the
same time. `Raise` is an exception in a flush: it ends the initialisation or the watching thread,
the periodic task goes on.

Four variables are there for the properties or the bound: `torn` (two flushes have overlapped),
`changed` (the testing VLANs that a reload has given to a segment or taken from one), `unaware` (devices
that were not sequestered any more when their new VLAN was to be told) and `calls` (bounded by
`MaxCalls`, counted from one beginning of a flush to the next).

Abstractions: one VLAN per port only; ACLs, tail ACL, include files, Gauge configuration and the
VLAN of the assigned segment are left out, and so are the device types of behaviours, on which it
depends whether a segment without a VLAN raises `UnboundLocalError` (a choice in `Update`). The copy of
the two placement maps and that of a behaviour are one step each, and the `RuntimeError` of a map
that changes while it is copied or iterated over is left out. All threads that take the lock are one
worker, since the lock admits one of them at a time, and the flushes of the file watcher that follow
each other are another. Nobody is given the sequester segment as an ordinary
behaviour (`SequesterSegment \notin Segment`), so that being sequestered is always the dynamic behaviour that
`_set_port_sequestered` hands over. A dynamic placement comes with the guard that the port
state manager guarantees (`PlacementAgrees`: no two devices on one port). A device with both a
static and another device's dynamic placement at its port competes for it: the order of a map
decides, which is a nondeterministic choice. The VLAN for unauthenticated devices is configured, and
no segment or testing VLAN. Before initialisation only statically placed devices have behaviours,
which is what the static files contain.

### 2.6 ConfigFiles

`file` is what is on disk (readable with some entries, missing, or malformed), `stored` the content
the watcher holds, `loaded` the content a callback has read last. `phase` and `task` say how far
the start or a reload has come: a reload is a sequence of calls (`Begin`, one call per device,
`EndOfTask`), between which RADIUS results arrive and files change. `ignoreStatic`, `ignoreAuth`
and `errors` are `_should_ignore_static_behavior`, `_should_ignore_auth_result` and
`_forch_config_errors`. An exception in a callback ends the observer (`phase = "ended"`), as
watchdog's thread does. History variables, for properties only: `loaded`, `raced` (files that
changed between their reading and their registration).

### 2.7 FaucetEvents and EventReplica

Faucet is external: `history` are its states, by the id of the event that reports each. It may
close the connection, drop events, restart (ids begin anew), and a scrape of its metrics may
fail. `loop` is the place in `main_loop` and `_faucet_events_connect`; `buffer`, `lastEventId`,
`previous`, `tracked` and `timer` are the fields of the client; `view` is what the collector
was told. A debounce timer is a thread that fires (`Expire`), leaves `_port_debounce`
(`Untrack`) and appends its event (`AppendDown`) in three steps, since the main loop may come
in between; `overtaken` records ports for which it did.

`EventReplica` says what all this is for: a replica, while synchronised, follows the states of
Faucet one by one, and after a loss takes over the present one. `FaucetEvents!Replica` maps
`position` to `lastEventId` and the replica to what the collector knows of everything but ports
(ports are debounced: they are the subject of `QuietPortsAreRight`).

### 2.8 LearnedHosts

`learned` and `switchMacs` are the two tables, `tables` the switches that have one, `lock` and
`summaryLock` the collector's `lock` and `_lock`. The main loop learns, expires and restores; a step
under `lock` is split only where the RADIUS thread, which takes no lock, can come in between
(`ReadResult`, `StoreResult`). Requests hold `_lock` by the decorator `_pre_check`, the restoration
takes `_lock` and then `lock`, `cleanup` the other way round. An expiry for a switch without a table
raises `KeyError`, which ends the main loop (`event.at = "ended"`); an entry that only one table has
is just logged. `HostPath` is the loop of `_get_host_path`, whose turns are the values of the
recursive function `HostWalk`.

### 2.9 Dataplane

Faucet is external and puts an event into `queue` whenever something changes there; the main
loop handles the events one by one (`ProcessEvent`), or restores everything from the metrics.
A topology is stored (`stackData`) and applied by `heartbeat_update_stack_state` in two steps
after the one that decides (`Tick`, `HeartbeatReads`, `HeartbeatApplies`). Ages are counted in
seconds up to `AgeCap`, beyond which they make no difference. `DataplaneState`,
`SwitchState` and `EgressPath` are what the getters compute from the state; the turns of the loop
that follows the hops are the values of the recursive function `EgressWalk`.
Abstractions: packet rates, VLAN summaries, ports and ACLs are not part of the summary.

### 2.10 TestingService

A session is the record of one thread and its stream; threads take a message, handle it, configure
the endpoint and end in steps of their own, the methods under `_lock` are one step each.
`disconnect` is called by port events, by the sequester timeout of the port state manager and at
the end of every thread. Tap ports are numbers from `BasePort` on; freed ports are given first.
The tunnel server of the endpoints is `vxlan`. An exception in a handler of the main loop ends it.

### 2.11 SystemState

One round of the pings (`PingHosts`) and of the local checks (`LocalCheck`) is one step.
`pings` is the history the hysteresis is compared with; `consecutive` and `lastPing` are what the code
keeps. `hosts` stands for the learned hosts that a change of the active state may clear.
`SystemStateShown` is `get_system_state`: the controller's state, or the combined summary.

## 3. The runs

Each row is one entry of `runs` in `PROJECT.json`; states and seconds are those of two workers.

| run | bounds | states, time | what it shows |
|---|---|---|---|
| `PortStateManager` | 2 devices, 2 ports; one of the devices with a static and a dynamic segment, and 1 thread of test results; auto-sequestering and timeout on | 331,000, 110 s | access is authorised and agrees with the state after any order of placements, behaviours, results and timers and of their unlocked steps; tests cannot be bypassed; sequestering ends; every session can be disconnected, no two devices are placed on one port |
| `Races` | all five threads | 514,000, 12 s | when all handlers have ended the device is in a state that its behaviours and access agree with; the lock is always released; the assertion holds until the scheduled sequestering |
| `RadiusSessions` | 2 devices that may leave, 1 segment, 3 requests, 2 identifiers, every kind of answer, a callback that may raise | 284,000, 102 s | access belongs to a waiting session and to an accept for that device or its identifier; a late or duplicated answer alone does not end the receiving thread; every answered request ends |
| `RadiusPacket` | 4 AVPs of 6 types, one of them unknown, values of 2 bytes, chunks of 2 | 874,000, 17 s | a well-formed response with known types is accepted, what is accepted is what was signed, requests are signed in the right place |
| `Faucetizer` | 2 devices, 2 ports, 1 segment with or without one of the 2 testing VLANs, 2 workers, 1 call during a flush; with and without an interval; until two flushes overlap | 354,000, 102 s | isolation, stability and reporting of testing VLANs whatever changes during a flush; no idle VLAN while a device waits for the periodic task |
| `ConfigFiles` | 2 devices, 2 placement and 3 behaviour contents, 2 edits | 641,000, 130 s | what is applied is what the file says, authentication is disabled for a reason only, changes are loaded |
| `FaucetEvents` | 1 port, 1 other cell, 2 timers, 3 events, 2 faults | 1,553,000, 60 s | the refinement of `EventReplica`, the order of events, quiet ports are right |
| `LearnedHosts` | 2 hosts, 2 switches with an access port each, 1 link, 1 RADIUS result | 91,000, 121 s | the tables agree, host paths are walks, only the lock order can block a request or a restoration |
| `Dataplane` | 2 switches, 2 links, 2 egress ports, 2 changes, 2 restorations | 454,000, 45 s | the settled summary and paths are right, topologies neither revert nor wait for ever |
| `TestingService` | 2 devices, 1 port, 2 threads, 1 message each | 1,121,000, 50 s | tap ports are conserved and kept, one open session per device |
| `SystemState` | 2 controllers, 2 nodes, 1 process, hysteresis 1 and 2 | 187,000, 60 s | healthy is true, and reported in the end; hosts follow VRRP; hysteresis |
| `EnoughPings` (violation) | as `SystemState`, hysteresis 2 and 2 | a counterexample of 3 states | the documented counts of pings are not enough (section 4.1) |

Some modules have one invariant, mostly `Inv`, that a run checks. Its parts are:

* `PortStateRaces`: types, `SettledAccess`, `LockReleased`, `AssertionHolds`;
* `RadiusPacket` (`PacketInv`): types, `RequestIsSigned`, `AcceptedIsIntact`;
* `ConfigFiles`: types, `StaticBehaviorsMatchFile`, `PlacementsMatchFile`;
* `FaucetEvents`: types, `QuietPortsAreRight`;
* `LearnedHosts`: types, `TablesAgree`, `NoResultWithoutHost`;
* `Dataplane`: types, `SummaryIsRight`;
* `TestingService`: types, `TapPortsConserved`, `TapPortsBounded`;
* `SystemState`: types, `NodeStateIsRight`, `ActiveStateFollowsVrrp`.

**Why the bounds are enough.** The port state manager handles each device on its own except at
a shared port, so one device covers its protocol and two devices at two ports the sharing and
moving: of the two devices of the run one has the whole protocol, the other the placements. A static
and a dynamic segment are needed for "which of two behaviours wins", one thread of results for a
race with the timers, which are threads, too. In the races each thread runs its handler any number
of times; one device suffices because the shared dictionaries are indexed by device. Three requests
are an old, a current and another device's; with two identifiers the third uses that of the first
again, so that an answer may be late for its identifier. Four AVPs are two parts of an EAP-Message
with something between or around them, and an authenticator; two chunks of two bytes have a full, a
partial and an empty last part. Two devices with two testing VLANs, one of which a segment may have,
cover plenty and shortage, and reloads that take a VLAN away. One call from one beginning of a flush
to the next may come between any two of its steps. `CONSTRAINT NoOverlap` stops where two flushes
overlap, of which no property says anything; with an interval they never do, so the behaviours of
`IdleVlanIsDrawn` are complete. Three contents and two edits of a file cover added, removed,
replaced and unchanged devices, and an edit during the reload of another. Three events and two
faults are a loss, a repetition and a restart between two connections. Two switches and two links
are the smallest stack with a choice of paths. A hysteresis of 1 and 2 has both thresholds on either
side of a change. The constants that bound an exploration are marked "bound" where they are declared
(`MaxRequests`, `MayLeave`, `SegmentMaps`, `MaxChanges`, `MaxFaults`, ...).

**Fairness.** `PortStateManager!FairSpec`: a `threading.Timer` that is not cancelled fires,
and its thread goes on, for the devices that have behaviours. `Authenticator!AnsweringSpec`: the
heartbeat runs for ever (the scheduler catches what its callbacks raise), the receiving thread
continues its work, a server answers every request and the network delivers in the end; strong
fairness of each response says that other responses cannot keep the receiving thread from it for
ever. It is used for `RequestsAnswered` alone: without the network's part nothing is promised
(section 4.2). `Faucetizer!PeriodicSpec`: the initial flush and the periodic task happen, and their
flushes go on. `ConfigFiles!FairSpec`: the main thread and the observer go on.
`LearnedHosts!FairSpec`: every thread runs, and a lock that is free again and again is given to one
that waits (strong fairness), which CPython's locks give in practice. `SystemState!FairSpec`: the
timers of the two periodic loops fire as long as they are set.

**Deadlock** is checked except in `FaucetEvents`, `Dataplane` and `TestingService`, where the
bounded environment comes to rest, in `LearnedHosts`, where the code can deadlock (section 4.2:
`RequestsAreServed` and `RestorationEnds` say when at most), and in `Faucetizer`, where a failed
first flush ends the program and an overlap the exploration.

## 4. What the checks show of the code

### 4.1 Findings

One run is a counterexample. `EnoughPings` states what the configuration documents: after
`minimum_ping_success_count` successful pings in a row a node is healthy ("minimum count of consecutive
successful pings to determine healthy state", `proto/forch_configuration.proto:276`), and after
`minimum_ping_failure_count` failed ones it is down (279). In the code the first ping of a kind after one of the
other sets the count to 0 (`cpn_state_collector.py:161`), so it takes one ping more. `NodeStateIsRight`, which
the run `SystemState` checks, states the counts of the code.

### 4.2 Behaviour that the code does not exclude

Each of the following properties is defined in its module, at its end or marked in its comment
as not promised. TLC refutes it when it is put into the named configuration.

| property | configuration | what the code does |
|---|---|---|
| `PortStateManager!UnauthorizedHasNoAccess` | `PortStateManager` | an authorisation lost while the device is unplugged is still applied by the faucetizer at the next plug-in (`port_state_manager.py:328`) |
| `PortStateManager!SequesteredIsAlwaysTimed` | `PortStateManager` | a terminal result cancels, without the lock, the timer it finds after its transition, which may be that of a sequestering that has begun since: nothing ends it then (`port_state_manager.py:339`) |
| `PortStateRaces!AssertionAlwaysHolds` | `Races` | the scheduled sequestering takes no lock and can trip the assertion of `_set_port_operational` (`port_state_manager.py:375`) |
| `PortStateRaces!ClearedStaysCleared` | `Races`, threads `event` and `file`, `AutoSequester = FALSE` | learning a device stores a behaviour again that was cleared meanwhile (`port_state_manager.py:272`) |
| `Authenticator!RequestTimesOut` | `RadiusSessions`, `TimerSpec`, `AnswerCode = {}` | a request that is not answered is neither repeated nor given up: retries are counted only where they are already non-zero (`simple_auth_state_machine.py:123`) |
| `Authenticator!AccessIsFresh` | `RadiusSessions` | an accept that comes late is taken for the answer to a later request of the device, even of a later session (`simple_auth_state_machine.py:90`) |
| `Authenticator!InvalidIsDropped` | `RadiusSessions` | a late answer whose identifier was used again fails validation and ends the receiving thread (`radius_query.py:53`) |
| `RadiusPacket!EveryTypeIsAccepted` | `RadiusPacket` | an intact response with one attribute of a type that `ATTRIBUTE_TYPES` does not have, as `Class`, is refused and ends the receiving thread (`radius.py:319`) |
| `Faucetizer!WaitsForUsedVlans` | `Faucetizer`, `Spec` | a flush cannot reuse the testing VLAN it frees; with instant faucetizing a device waits while a VLAN is idle (`faucetizer.py:212`) |
| `Faucetizer!VlanFollowsPlacement` | `Faucetizer`, `Spec` | removing a static placement does not flush (`faucetizer.py:450`) |
| `Faucetizer!InitialFlushSucceeds` | `Faucetizer` | with an interval, static placement and behaviour of one device make the first flush raise (`faucetizer.py:377`) |
| `Faucetizer!PeriodicFlushSucceeds`, `InstantFlushSucceeds` | `Faucetizer`, without the constraint, `MaxCalls = 2` | a behaviour that is removed while an unlocked flush uses it raises `KeyError` (`faucetizer.py:282`): the flush is not made, and without an interval the watching thread ends |
| `Faucetizer!DistinctThroughOverlaps` | `Faucetizer`, without the constraint, `MaxCalls = 2` | a flush after a reload, which takes no lock, overlaps another one, and both draw the same VLAN for different devices (`faucetizer.py:446`, 249) |
| `Faucetizer!AloneThroughReloads` | `Faucetizer` | a reload that gives a testing VLAN in use to a segment, or takes it from one whose port is still in it, is only logged (`faucetizer.py:440`): two ports are in the VLAN of a sequestered device |
| `Faucetizer!ReporterHearsAll` | `Faucetizer` | a device whose behaviour changes between the drawing of its VLAN and the call of the reporter is not reported (`faucetizer.py:366`); once it is sequestered again its port has the VLAN already |
| `ConfigFiles!WatcherSurvives` | `ConfigFiles` | a reload of the placement file raises as soon as there is something to clear (`faucetizer.py:454`, `forchestrator.py:311`), which ends the watching thread |
| `ConfigFiles!DisabledWhilePlacementsBroken`, `PlacementErrorIsCleared`, `RejectedHasNoBehavior` | `ConfigFiles` | a readable behaviour file enables authentication although the placement file is broken; its error is never removed; results ignored meanwhile are ignored for good (`forchestrator.py:364`) |
| `ConfigFiles!ScheduleIsWithdrawn` | `ConfigFiles` | the schedule of a device that left the file is not cancelled (`port_state_manager.py:431`) |
| `ConfigFiles!NothingMissedAtStart` | `ConfigFiles` | an edit between the first reading and the registration is not loaded (`forchestrator.py:336`) |
| `FaucetEvents!NoEventWaits` | `FaucetEvents` | the receive blocks while a debounced event waits in the buffer (`faucet_event_client.py:98`) |
| `FaucetEvents!QuietPortsUp` | `FaucetEvents` | a timer that has fired but waits for the buffer lock appends its down event after the port came up (`faucet_event_client.py:168`) |
| `LearnedHosts!NoDeadlock` | `LearnedHosts` | `cleanup` takes `lock` and then `_lock`, requests and the restoration the other way round (`faucet_state_collector.py:534`) |
| `LearnedHosts!ResultAsserted`, `ResultsAgree` | `LearnedHosts`; the second with `MaxResults = 2`, `Access = {"ACCEPT", "REJECT"}` | a RADIUS result stored without the lock while its host is learned fails the assertion at `faucet_state_collector.py:1160`, or is replaced by the older one |
| `LearnedHosts!ExpiryIsHandled` | `LearnedHosts` | an expiry for a switch on which nothing was learned since the start raises `KeyError` in the main loop (`faucet_state_collector.py:1189`) |
| `Dataplane!TopologyIsApplied` | `Dataplane` | a topology that arrives between the reading and the clearing by the heartbeat is lost (`faucet_state_collector.py:155`) |
| `Dataplane!GraphIsRestored`, `BothEndsCount` | `Dataplane` | a restored graph, and the state of a link, go by its first listed end only |
| `Dataplane!ReloadsAreCounted` | `Dataplane` | a restoration adds to the count of configuration changes instead of replacing it |
| `TestingService!OnlyOwnSessionEnds` | `TestingService` | the thread of an old session cancels the session that was started since (`device_report_client.py:110`) |
| `TestingService!NoTapPortWithoutSession`, `TunnelIsOwn` | `TestingService` | a tap port is allocated for a session that was ended in between; its late tunnel may be another device's (`endpoint_handler.py:79`) |
| `TestingService!SessionVlansAreCurrent`, `MainLoopRuns` | `TestingService` | VLANs that change do not reach an open session; an exception in a handler ends the main loop |
| `SystemState!LoopsGoOn` | `SystemState` | an exception in a periodic check is its last: the timer is set at its end (`local_state_collector.py:372`) |
| `SystemState!CleanupsAreChanges`, `StandbyHasNoHosts` | `SystemState` | a VRRP fault that lasts is cleaned up again at every check; hosts learned on standby stay |

Seen while modelling, without a property:

* `timedelta.seconds` drops the days of a schedule (`port_state_manager.py:244`); the timer of an
  ended session may fail a newer one (404).
* A port is shown as `static_operational` while the access applied is still the dynamic one.
* The first event id of a Faucet that has none, 0, fails `assert self._last_event_id`; a failed
  first restoration ends the main loop; the `restored` flag may be FALSE after a later resynchronisation;
  `PORTS_STATUS` events have no handler.
* A repaired segments file or tail ACL does not enable authentication until a restart; without a
  segments file all authentication is disabled and the error only logged.
* An EAP-Message that is empty, or whose parts are not consecutive, is not restored by packing,
  so that an intact response is rejected (`radius.py:257`); servers do not send such responses.
* The overview and the state of a switch differ for a switch that only the configuration knows.
* Packet rates divide by the nominal interval of the heartbeat, not the time passed
  (`faucet_state_collector.py:184`).

## 5. The proofs

All theorems are of the form `Spec => []P` or `Spec => [][A]_vars`, for all values of the
constants that satisfy the assumptions of the module.

**PortStateManagerProofs.** `TypeCorrect`, `ServedDevicesAreAuthorized`, `AccessCorrect`,
`SequesteringIsTimed`, `SessionsArePlaced`, `PlacementsAgree`. The three facts about a device
(authorised while served, access agrees with state, sequestered is timed) are conjoined in
`DeviceInv`, since handlers are functions on the record of one device: one lemma per callback shows
that it establishes `DeviceInv`, one per handler that it preserves it, `NextInv` that so does each
action. That a sequestered device's access carries its segment needs that it is authorised, so the
conjuncts are not inductive one by one. `SequesteringIsTimed` says that a sequestered device has a
running timer or one that will fail it, or that a result has taken its timer (`lost`): the steps of
results and timers without the lock change nothing but timers (`TimerStep`), and none of them loses
the last timer of a sequestered device but `CancelTimer` and `DeleteTimer`, which record it
(`TimerStepTimed`). `SessionsArePlaced` needs in addition that only learning at a port creates a
state machine (`StateMachineCreated`).

The action properties are `AccessFollowsBehaviors` (`AccessFollowsAuthorization`) and
`TestsAreRespected` (`SequesteringIsRespected`). Each is a relation between the record of a device
before a step and after it, proved for every event of the state machine (`TransitionEffect`, with
`CallbackGrants` for the callbacks), then for every handler, then for every step
(`StepRespects`). They need `DeviceInv`, for what a device is allowed before the step.

`HandlersAgree` is about the same component at the grain of `PortStateRaces`, which the module
instantiates as `Races` with variables of its own: `Races!Spec => []Races!Inv`, for any choice of
the five threads, under the assumption of `PortStateRaces` on its constants. `RacesInvariant` says
where the lock is (`LocksOK`) and, up to the scheduled sequestering, what is true while the handler
that has it is inside (`HolderOK`): the machine agrees with the access until it enters a state,
then it is in the state the callback is for unless the device has left, and whoever disconnected
it waits for the lock (`Leaving`). That is why a stale machine and a callback for a device that is
gone do no harm: nobody learns the device again before the handler has ended.

**AuthenticatorProofs.** `TypeCorrect` and `AccessNeedsSession` hold for every number of
identifiers, requests and devices. They rest on `Consistent`: types, answers belong to requests
(`Answered`), an identifier in use has a device (`Recorded`), what the receiving thread holds is
an answered request (`Held`). `AccessIsGranted` and `ReceiverIsNotKilled` hold for any number of
requests, however often identifiers are used again. Their invariant `Matched` says what the tables of
`RadiusQuery` hold then: for the identifier of each request, device and authenticator of the last request
that used it (`LastUse`), and that the receiving thread, once it has found a device, has one that
the identifier of its response was given (`HeldMatches`). So a response passes the validation just if
its identifier was not used again until then, and what it grants goes to the device it was for, or
to one that the identifier was given later; and the thread ends only in the cases that
`ReceiverSurvives` lists.

About `RadiusPacket`: `CodecIsSafe` (`PacketInv`) and `CodecAccepts` (`IntactIsAccepted`), for any bytes
but 0 and 255, which the digests have, AVPs of any length up to 253, and any number of them.
`CodecIsSafe` rests on `CodecInv`: what is left of a packet is a sequence of AVPs (`PartlyRead`), so the
loop of `extract_attributes` ends exactly at its end; the variables of the loop are reset after it
(`LoopEnded`). A list of attributes is packed as the AVPs it is split into (`PackIsWire`), the data of
these are the value (`ChunksAreTheValue`), and AVPs are known by their bytes (`WireIsInjective`): so
what validates has the values that were signed. `BuildIs` says that the bytes `IndexOf` counts
(`LengthsLaw`) lead to the data of the Message-Authenticator.

`CodecAccepts` is the converse, and needs what the loop knows of a response that is well formed
(`CodecComplete`): what it has read are other attributes, the parts of an EAP-Message with the
position of the first, and others (`Joined`; `JoinOther` and `JoinPart` preserve it). Hence the
joined value is put back where its parts were (`InsertBetween`), is split into the same parts again
(`PartsAreRestored`: all but the last are full), and, if all types are known, the packet has the
bytes that were signed, with the digest and with zeros instead (`JoinedIsValid`, `SameBytes`).

**FaucetizerProofs.** `TypeCorrect`; `IntervalFlushesDoNotOverlap`, that with an interval no two flushes overlap,
since only one thread flushes then; and, until two flushes overlap, `TestingVlansAreDistinct`,
`SequesteredDevicesAreAlone`, `ReporterKnowsVlans`, `DrawnVlansAreFree` and `TestingVlansAreKept`, for any
calls between the steps of a flush, any reloads and any number of devices, ports and VLANs. What
they exempt is in their statements: the VLANs of `changed`, and the devices of `unaware` or that
have wavered. The invariant is `IInv`: `Shape` (types, who flushes, what is reported), which holds
always, and `Safe` as long as nothing is torn. `Safe` relates the three
generations of VLANs that there are during a flush: those in use (`HeldOK`, `ConfigOK`, `HeardOK`), those drawn
so far (`DrawnOK`, `KeptOK`, `ToldOK`, `MovedOK`), and those that can be drawn (`AvailableOK`). `PortsOK` says
of both configurations that a port in a reserved testing VLAN, one that no reload has touched and no segment
has, is there for the one device tested in it; hence nobody is in a VLAN that is drawn, and the
port of a device that draws one moves, so that the reporter is told. `CallShape` and `StepShape`
reduce all calls to one shape, which leaves reserved VLANs reserved or exempts them and
lets a flush in progress notice the devices it releases (`InputChanged`); so each part of `Safe` needs
one argument about calls (`CallSafe`) and one per step of a flush (`BeginSafe`, `PlaceSafe`, `UpdateSafe`,
`FinalizeSafe`, `StoreSafe`).

**FaucetEventsProofs.** `TypeCorrect`; `CollectorIsInOrder`, that a synchronised collector knows
what Faucet reported up to the event accepted last; `ReplicaIsImplemented`, the refinement of
`EventReplica`; `PortsAreRight`, the debouncing. `Following` says that what is in the channel and
in the buffer are reports of Faucet with their ids (`ChannelReports`, `BufferReports`), also across
a restart that numbers anew; with it, an event that is accepted is the next one
(`AcceptedIsNext`). `ReplicaStep` sorts the steps of the client into the six things that can happen
to a replica, and `RefinedStep` maps each to a step of `EventReplica` or a stutter. The ports need,
while nothing is lost, the numbers in channel and buffer without a gap (`ChannelInOrder`,
`BufferInOrder`), and `PortsFollow`: a port that is down has a timer or is led to be down by the last
of its debounced events in the buffer (`LeadsTo`); one that is up has no timer left and is led to
be up, unless it was overtaken. Publishing, receiving, handling, expiring and appending
preserve it.

**TestingServiceProofs.** `TapPortsAreConserved` (`Inv`), `SessionsAreReached` and
`OpenSessionsKeepTheirPort`. The invariant `SessionInvariant` conjoins the conservation of tap
ports (`TapsOK`) with the properties of sessions and what their threads may hold (`SessionsOK`). That
there are never more tap ports than devices is a pigeonhole argument on the ports in use
(`FewerPorts`); it rests on a released port being used before a new one is opened.

**SystemStateProofs.** `CollectorsFollow` (`Inv`), `HealthIsTrue` and `VrrpForgetsHosts`. The code
keeps counts of pings and no history; the model keeps the last pings as well, for the properties.
`Counted` relates the two: the count is that of the pings like the last one before it, exact below
the larger threshold. From this `PingsAreRight` derives the hysteresis for all thresholds, and
`HealthIsTrue` what "healthy" means for each node.

**FaucetStateProofs.** About `Dataplane`: `SummariesAreRight` (`Inv`), `TopologiesComeInOrder`
(`TopologyNeverReverts`) and `TopologiesAreInTime` (`ChangesAreNotPostponed`), for any switches,
stack links, LACP states and coalescing time. The summary is promised when everything is handled,
which no step preserves, so `DataplaneInvariant` says what is true on the way there. What the
collector knows of a link, port or switch together with the last event about it in the queue is
what Faucet says (`Follows`; `StacksFollow`, `LagFollows`, `SwitchesFollow`); a restoration empties
the queue and takes everything from Faucet. The topologies that are applied, taken by the heartbeat,
stored, in the queue and in Faucet come in this order of their stamps (`InOrder`), hence nothing
old is applied. The first topology that waits has waited no longer than the time of the update
(`Timely`), which a further topology does not renew. A link that carries a path is shown as active
whatever its state; that this raises no false hopes needs `HopsAreUp`: Faucet's hops are over links
that are up. `FollowsAppended`, `FollowsTaken`, `OrderedAppended` and `OrderedTaken` are the lemmas
about queues. The proofs use that `None` is no value that Faucet reports (`ConfigAssumption`,
`NoneAssumption`).

`PathsLeadToTheRoot` (`PathIsRight`) is about the egress path, for any stack: each turn of the loop
appends the hop of the last switch, so the path is a walk over stack links through no switch twice;
and it is found just if the stack has links and the hops lead to the root (`Led`), since a walk that
does not end would visit more switches than there are.

About `LearnedHosts`, which the module instantiates as `Hosts` with the same switches and ports:
`TablesAlwaysAgree` (`Hosts!Spec => []Hosts!Inv`). `HostsInvariant` adds which
thread is where with which lock (`LocksOK`): one that is inside a section holds its lock, so that
the host between `ReadResult` and `StoreResult` is still there (`HostIsThere`), although the RADIUS
thread goes on, and every entry by host has a table of its switch (`HaveTables`), so that the cleanup
never raises. `AddKeepsTables` and `RemoveKeepsTables` are about the two operations on the tables,
for any stack. `PathsAreWalks` (`Hosts!PathIsWalk`): the path shown between two hosts is a walk over
stack links through no switch twice, whatever was learned when.

**ConfigFilesProofs.** `FilesAreApplied` (`Inv`) and `AuthIsDisabledForAReason`. A reload is many
steps, in which the properties do not hold, so `FilesInvariant` says how far it has come: a
device that the reload has nothing left to do with is as the new content says, one that it has
still to clear and set is as the old one says (`StaticsFollow`, `PlacesFollow`); what is left to do
is about the two contents (`TaskOK`); a reload starts from the content that was loaded last
(`FilesFollow`); flags and errors belong to it (`FlagsFollow`).

One of the proofs said something about the model. The transition of a device that is learned was
a `CASE` with overlapping guards, whose value TLA+ leaves open while TLC takes the first:
`AddStateMachine` now tests them in the order of the code.

**Induction.** Paths, lengths and flattened sequences are computed by recursive functions. The induction
theorems of the library take an operator, which the provers cannot instantiate; `NaturalsByInduction`,
`IntervalByInduction` and `SequencesByInduction` say the same of sets, and are proved from the
least element of a set of numbers (`WFMin`, `NatLessThanWellFounded`).

**Only model-checked.** Liveness (`SequesteringEnds`, `RequestsAnswered`, `IdleVlanIsDrawn`,
`ChangesAreLoaded`, `RequestsAreServed`, `RestorationEnds`, `HealthIsReported`), which is beyond the
prover. Every other property of the runs is a theorem.

## 6. Not modelled

* Access control lists, include files, the Gauge configuration and the hash of the Faucet
  configuration (`forchestrator.py:575`): they are rewritten as text and checked by Faucet.
* Packet rates and VLAN summaries of the collector; the formatting of switches, ports and hosts.
* Metrics and varz, HTTP routing and the proxy, logging, start-up: input and output without a
  protocol of their own. The locks that a request takes are in `LearnedHosts`.
* `/proc`, statistics and connections of the local collector, the numbers in the summary of pings.
* The failure of the RADIUS socket, headers of RADIUS packets that cannot be parsed,
  `UserPassword.encrypt`, `do_mab_request` and `process_auth_result`, which nothing calls.
* Times as such: a timer may fire at any time after it was set, except the coalescing of
  `Dataplane`, which counts seconds.
* Generated message classes, apart from the messages whose types the modules use.

## 7. Plan

Done: the modules above with their runs, and proofs of all their safety properties. Next:

1. A composition of port state manager, authenticator and faucetizer that implements an abstract
   access control: a port is in a segment's VLAN only for a device authorised for it.
2. A clock for scheduled sequestering, across restarts.
