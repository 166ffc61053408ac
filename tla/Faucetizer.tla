------------------------------ MODULE Faucetizer ------------------------------
(***************************************************************************)
(* The device state manager of forch/faucetizer.py: it holds the placement *)
(* and the behaviour of every device, draws a testing VLAN for each        *)
(* sequestered one, writes the VLAN of every access port into the          *)
(* configuration of Faucet, and tells the device reporter the VLANs drawn. *)
(*                                                                         *)
(* Instantly (faucetize_interval_sec = 0) every call but the removal of a  *)
(* static placement ends in a flush, which computes the whole              *)
(* configuration anew; otherwise only the periodic task and the end of the *)
(* initialisation flush.  Placements, behaviours and the structural        *)
(* configuration are changed, and flushed, under the faucetizer's lock;    *)
(* the segments-to-vlans map and the removal of static placements do not   *)
(* take it, nor do the flush after a reload of that map, the periodic and  *)
(* the first one.  So a flush is a sequence of steps here, between which   *)
(* other threads change what it reads, and two flushes may overlap.        *)
(***************************************************************************)
EXTENDS Naturals

CONSTANTS
    Mac,                 \* the devices
    Port,                \* the switch ports
    Segment,             \* the segments a device can be operational in
    SequesterSegment,    \* sequester_config.sequester_segment
    TestingVlan,         \* vlan_start..vlan_end of the sequester_config
    UnauthenticatedVlan, \* unauthenticated_vlan
    SegmentMaps,         \* bound: the contents of the segments-to-vlans file
    StructuralPorts,     \* bound: the contents of the structural configuration
    StaticPlacements,    \* bound: the devices and ports of the static placement file
    DynamicMac,          \* bound: the devices that are learned
    MaxCalls,            \* bound: the calls from the beginning of a flush to the next
    None                 \* no such key, or no value

OperationalVlans(map) == {map[s] : s \in Segment} \ {None}

Vlan == {UnauthenticatedVlan} \cup TestingVlan
            \cup (UNION {OperationalVlans(map) : map \in SegmentMaps})

\* Who flushes: a thread that calls with a placement or a behaviour of a device, or the
\* thread of the faucetizer's own calls, which is the one that watches the files or, with an
\* interval, runs the periodic task (the main thread at first).
Worker == {"caller", "own"}

ASSUME ConfigAssumption ==
    /\ SequesterSegment \notin Segment
    /\ \A map \in SegmentMaps : DOMAIN map = Segment
    /\ SegmentMaps # {}
    /\ StructuralPorts \subseteq SUBSET Port
    /\ StructuralPorts # {}
    /\ StaticPlacements \subseteq Mac \X Port
    /\ DynamicMac \subseteq Mac
    /\ MaxCalls \in Nat \ {0}

ASSUME VlanAssumption ==
    /\ UnauthenticatedVlan \notin TestingVlan
    /\ \A map \in SegmentMaps : UnauthenticatedVlan \notin OperationalVlans(map)

ASSUME NoneAssumption ==
    None \notin Worker \cup Mac \cup Port \cup Segment \cup {SequesterSegment, UnauthenticatedVlan} \cup TestingVlan

VARIABLES
    interval,         \* faucetize_interval_sec is set
    dynamicPlacement, \* _dynamic_devices: the port a device is placed at, or None
    staticPlacement,  \* _static_devices, likewise
    behavior,         \* _device_behaviors: the segment of a device, or None
    segmentsToVlans,  \* the VLAN of a segment, or None
    structural,       \* the access ports of _structural_faucet_config
    testingVlan,      \* _testing_device_vlans
    config,           \* _behavioral_faucet_config: the VLAN of each port; None
                      \* until the first flush
    told,             \* the VLAN the reporter was told for a device, or None;
                      \* forgotten when the device is not tested any more
    lock,             \* _lock: the worker that holds it while it flushes, or None
    flush,            \* how far the flush of each worker is, and its local state
    torn,             \* history: two flushes have overlapped
    changed,          \* history: the testing VLANs that a reload has given to a segment or
                      \* taken from one
    calls,            \* bound: the calls since a flush began
    unaware           \* history: the devices tested in a VLAN that the reporter was not told,
                      \* because they were not sequestered any more by then

inputs == <<interval, dynamicPlacement, staticPlacement, behavior, segmentsToVlans, structural>>
outputs == <<testingVlan, config, told>>
history == <<torn, changed, unaware>>
vars == <<inputs, outputs, lock, flush, calls, history>>

\* The local state of a flush: the device it is about to report, and whether its port gets
\* another VLAN than it had; the ports of the devices it has not dealt with; the VLANs that
\* can be drawn, and those drawn; the VLANs of the ports; and, for the properties, the
\* tested devices that were not sequestered at some time since it began.
Flushing == [pc : {"idle", "raised", "ended", "begin", "place", "update", "store"},
             mac : Mac \cup {None}, moved : BOOLEAN,
             placement : [Mac -> Port \cup {None}], later : SUBSET Mac,
             available : SUBSET TestingVlan, drawn : [Mac -> TestingVlan \cup {None}],
             vlans : [Port -> Vlan], wavered : SUBSET Mac]

\* No flush is in progress, because there is nothing to do, because the last one raised an
\* exception, or because that has ended the thread; or it is about to begin.
Rest(pc) == [pc |-> pc, mac |-> None, moved |-> FALSE, placement |-> [m \in Mac |-> None],
             later |-> {}, available |-> {}, drawn |-> [m \in Mac |-> None],
             vlans |-> [p \in Port |-> UnauthenticatedVlan], wavered |-> {}]

InProgress(w) == flush[w].pc \in {"place", "update", "store"}

\* Instantly, the structural configuration has been flushed before any device is
\* known; with an interval the first flush is the one that ends the initialisation.
Init ==
    /\ interval \in BOOLEAN
    /\ dynamicPlacement = [m \in Mac |-> None]
    /\ staticPlacement = [m \in Mac |-> None]
    /\ behavior = [m \in Mac |-> None]
    /\ segmentsToVlans \in SegmentMaps
    /\ structural \in StructuralPorts
    /\ testingVlan = [m \in Mac |-> None]
    /\ config = IF interval THEN None ELSE [p \in Port |-> UnauthenticatedVlan]
    /\ told = [m \in Mac |-> None]
    /\ lock = None
    /\ calls = 0
    /\ flush = [w \in Worker |-> Rest("idle")]
    /\ torn = FALSE
    /\ changed = {}
    /\ unaware = {}

-----------------------------------------------------------------------------
(* The flush: _faucetize and what it calls. *)

\* A static placement overwrites the dynamic one.
Placement(m) == IF staticPlacement[m] # None THEN staticPlacement[m]
                                             ELSE dynamicPlacement[m]

Sequestered == {m \in Mac : Placement(m) \in structural /\ behavior[m] = SequesterSegment}

\* Mutant: the VLANs of the segments are not taken off.
AvailableTestingVlansOperational == TestingVlan \ {testingVlan[m] : m \in Mac}

\* Mutant: the VLANs of the segments add up over the reloads.
AvailableTestingVlansAdded ==
    TestingVlan \ ((UNION {OperationalVlans(map) : map \in SegmentMaps}) \cup {testingVlan[m] : m \in Mac})

\* A VLAN is available if no device was tested in it at the last flush, though the
\* device be gone since.
AvailableTestingVlans ==
    TestingVlan \ (OperationalVlans(segmentsToVlans) \cup {testingVlan[m] : m \in Mac})

\* What a flush goes by: the available VLANs, and the devices that are placed on a port
\* there is; all ports start in the VLAN for unauthenticated devices (_initialize_host_ports).
Begin(w) ==
    /\ flush[w].pc = "begin"
    /\ flush' = [flush EXCEPT ![w] =
           [Rest("place") EXCEPT
               !.available = AvailableTestingVlans,
               !.placement = [m \in Mac |-> IF Placement(m) \in structural THEN Placement(m) ELSE None],
               !.later = {m \in Mac : dynamicPlacement[m] = None /\ staticPlacement[m] \in structural},
               !.wavered = {m \in Mac \ Sequestered : testingVlan[m] # None}]]
    /\ calls' = 0
    /\ torn' = (torn \/ \E v \in Worker \ {w} : InProgress(v))
    /\ UNCHANGED <<inputs, outputs, lock, changed, unaware>>

\* Mutant: every flush draws the VLANs anew.
VlanIdAnew(m, available) ==
    CASE behavior[m] = None             -> {None}
      [] behavior[m] = SequesterSegment -> IF available = {} THEN {None} ELSE available
      [] OTHER                          -> {segmentsToVlans[behavior[m]]}

\* _calculate_vlan_id: a sequestered device keeps its VLAN, or pops one that is available;
\* a device without a behaviour is skipped.
VlanId(m, available) ==
    CASE behavior[m] = None             -> {None}
      [] behavior[m] = SequesterSegment -> IF testingVlan[m] # None THEN {testingVlan[m]}
                                           ELSE IF available = {} THEN {None} ELSE available
      [] OTHER                          -> {segmentsToVlans[behavior[m]]}

\* An exception leaves the flush.  It ends the thread that watches the files, or the
\* initialisation; the periodic task goes on.
Raise(w) ==
    /\ flush' = [flush EXCEPT ![w] =
           Rest(CASE w = "caller"                  -> "idle"
                  [] w = "own" /\ interval /\ config # None -> "raised"
                  [] OTHER                         -> "ended")]
    /\ lock' = IF lock = w THEN None ELSE lock

\* Mutant: the reporter is told of devices that were unauthenticated before only.
MovedIsNewcomer(p, vlan) == config[p] = UnauthenticatedVlan

\* The VLAN of a port is not the one it has been given last.
Moved(p, vlan) == config[p] # vlan

\* The next device of the loop of _update_ports_config, in any order but those that only
\* have a static placement last, gets a VLAN for its port, or none and is skipped.  The old
\* VLAN of the port is looked up in a configuration that must be there.
Place(w, m) ==
    LET f == flush[w]
        p == f.placement[m]
        tested == behavior[m] = SequesterSegment
    IN
    /\ f.pc = "place" /\ p # None
    /\ m \in f.later => \A n \in Mac \ f.later : f.placement[n] = None
    /\ \E vlan \in VlanId(m, f.available) :
          IF vlan = None
          THEN flush' = [flush EXCEPT ![w] = [f EXCEPT !.placement = [f.placement EXCEPT ![m] = None]]]
               /\ UNCHANGED lock
          ELSE IF config = None THEN Raise(w)
          ELSE /\ flush' = [flush EXCEPT ![w] =
                      [f EXCEPT !.pc = "update", !.mac = m, !.moved = Moved(p, vlan),
                                !.vlans = [f.vlans EXCEPT ![p] = vlan],
                                !.drawn = [f.drawn EXCEPT ![m] = IF tested THEN vlan ELSE None],
                                !.available = IF tested THEN f.available \ {vlan} ELSE f.available]]
               /\ UNCHANGED lock
    /\ UNCHANGED <<inputs, outputs, calls, history>>

\* _update_device_dva_state, and the call of the reporter: by now the behaviour may be
\* another, gone (KeyError), or a dynamic one whose segment has no VLAN (UnboundLocalError).
Update(w) ==
    LET f == flush[w]
        m == f.mac
        p == f.placement[m]
        tell == f.moved /\ behavior[m] = SequesterSegment
    IN
    /\ f.pc = "update"
    /\ \/ /\ behavior[m] # None
          /\ flush' = [flush EXCEPT ![w] =
                 [f EXCEPT !.pc = "place", !.mac = None, !.moved = FALSE,
                           !.placement = [f.placement EXCEPT ![m] = None]]]
          /\ told' = IF tell THEN [told EXCEPT ![m] = f.vlans[p]] ELSE told
          /\ unaware' = CASE tell /\ f.drawn[m] # None                -> unaware \ {m}
                          [] tell \/ (f.moved /\ f.drawn[m] # None) -> unaware \cup {m}
                          [] OTHER                                  -> unaware
          /\ UNCHANGED lock
       \/ /\ behavior[m] = None \/ (behavior[m] \in Segment /\ segmentsToVlans[behavior[m]] = None)
          /\ Raise(w)
          /\ UNCHANGED <<told, unaware>>
    /\ UNCHANGED <<inputs, testingVlan, config, calls, torn, changed>>

\* The devices tested from now on; the testing port is tagged with their VLANs, and no
\* flush before the next one draws these for another device.
FinalizeHostPortsConfig(w) ==
    /\ flush[w].pc = "place" /\ \A m \in Mac : flush[w].placement[m] = None
    /\ testingVlan' = flush[w].drawn
    /\ flush' = [flush EXCEPT ![w] = [Rest("store") EXCEPT !.vlans = flush[w].vlans]]
    /\ told' = [m \in Mac |-> IF flush[w].drawn[m] = None THEN None ELSE told[m]]
    /\ unaware' = {m \in unaware : flush[w].drawn[m] # None}
    /\ UNCHANGED <<inputs, config, lock, calls, torn, changed>>

Store(w) ==
    /\ flush[w].pc = "store"
    /\ config' = flush[w].vlans
    /\ flush' = [flush EXCEPT ![w] = Rest("idle")]
    /\ lock' = IF lock = w THEN None ELSE lock
    /\ UNCHANGED <<inputs, testingVlan, told, calls, history>>

FlushStep(w) ==
    \/ Begin(w)
    \/ \E m \in Mac : Place(w, m)
    \/ Update(w)
    \/ FinalizeHostPortsConfig(w)
    \/ Store(w)

-----------------------------------------------------------------------------
(* The calls. *)

Initialized == config # None
Running == Initialized \/ flush["own"].pc # "ended"

\* With an interval the calls do not flush, and come from other threads than the flushes.
Free(w) ==
    /\ Running /\ (interval \/ flush[w].pc = "idle")
    /\ calls < MaxCalls

\* The flushes in progress after the inputs have changed, and that of w if it is to begin.
Flushes(w) ==
    /\ flush' = [v \in Worker |->
                 IF v = w /\ ~interval THEN Rest("begin")
                 ELSE IF InProgress(v)
                 THEN [flush[v] EXCEPT !.wavered = @ \cup {m \in Mac \ Sequestered' : testingVlan[m] # None}]
                 ELSE flush[v]]
    /\ calls' = calls + 1

FlushUnderLock(w) ==
    /\ Flushes(w)
    /\ lock' = IF interval THEN None ELSE w

\* A device is placed, or, dynamically only, removed.  The port state manager has
\* removed the device it dynamically placed at p before (PlacementAgrees there).
ProcessDevicePlacement(m, p, static) ==
    /\ lock = None
    /\ IF static
       THEN /\ <<m, p>> \in StaticPlacements
            /\ Free("own")
            /\ staticPlacement' = [staticPlacement EXCEPT ![m] = p]
            /\ UNCHANGED dynamicPlacement
       ELSE /\ m \in DynamicMac /\ Initialized
            /\ p = None \/ \A n \in Mac \ {m} : dynamicPlacement[n] # p
            /\ Free("caller")
            /\ dynamicPlacement' = [dynamicPlacement EXCEPT ![m] = p]
            /\ UNCHANGED staticPlacement
    /\ UNCHANGED <<interval, behavior, segmentsToVlans, structural, outputs, history>>
    /\ FlushUnderLock(IF static THEN "own" ELSE "caller")

\* Only a statically placed device has a behaviour before the initialisation ends.
ProcessDeviceBehavior(m, segment) ==
    /\ lock = None
    /\ Initialized \/ staticPlacement[m] # None
    /\ behavior' = [behavior EXCEPT ![m] = segment]
    /\ UNCHANGED <<interval, dynamicPlacement, staticPlacement, segmentsToVlans, structural, outputs, history>>
    /\ \E w \in Worker : Free(w) /\ FlushUnderLock(w)

\* clear_static_placement: without the lock, and nothing is flushed.
ClearStaticPlacement(m) ==
    /\ Free("own")
    /\ staticPlacement[m] # None
    /\ staticPlacement' = [staticPlacement EXCEPT ![m] = None]
    /\ UNCHANGED <<interval, dynamicPlacement, behavior, segmentsToVlans, structural, outputs, lock, history>>
    /\ Flushes(None)

\* Without the lock, and so is the flush that follows.
ReloadSegmentsToVlans(map) ==
    LET used == OperationalVlans(segmentsToVlans)
        usedNow == OperationalVlans(map)
    IN  /\ Free("own")
        /\ segmentsToVlans' = map
        /\ changed' = changed \cup (TestingVlan \cap ((used \ usedNow) \cup (usedNow \ used)))
        /\ UNCHANGED <<interval, dynamicPlacement, staticPlacement, behavior, structural, outputs, lock, torn, unaware>>
        /\ Flushes("own")

\* The structural configuration is taken over, and everything computed from it.
\* Its file is watched unless there is an interval,
ReloadStructuralConfig(ports) ==
    /\ ~interval /\ lock = None
    /\ Free("own")
    /\ structural' = ports
    /\ UNCHANGED <<interval, dynamicPlacement, staticPlacement, behavior, segmentsToVlans, outputs, history>>
    /\ FlushUnderLock("own")

\* and read, under the lock, before each flush of the periodic task if there is one.
PeriodicFlush(ports) ==
    /\ interval /\ Initialized
    /\ flush["own"].pc \in {"idle", "raised"}
    /\ structural' = ports
    /\ flush' = [flush EXCEPT !["own"] = Rest("begin")]
    /\ UNCHANGED <<interval, dynamicPlacement, staticPlacement, behavior, segmentsToVlans, outputs, lock, calls, history>>

\* The flush at the end of _initialize_orchestration.
InitialFlush ==
    /\ interval /\ ~Initialized /\ flush["own"].pc = "idle"
    /\ flush' = [flush EXCEPT !["own"] = Rest("begin")]
    /\ UNCHANGED <<inputs, outputs, lock, calls, history>>

Next ==
    \/ \E m \in Mac, p \in Port \cup {None}, static \in BOOLEAN :
           ProcessDevicePlacement(m, p, static)
    \/ \E m \in Mac, segment \in Segment \cup {SequesterSegment, None} :
           ProcessDeviceBehavior(m, segment)
    \/ \E m \in Mac : ClearStaticPlacement(m)
    \/ \E map \in SegmentMaps : ReloadSegmentsToVlans(map)
    \/ \E ports \in StructuralPorts : ReloadStructuralConfig(ports)
    \/ \E ports \in StructuralPorts : PeriodicFlush(ports)
    \/ InitialFlush
    \/ \E w \in Worker : FlushStep(w)

Spec == Init /\ [][Next]_vars

\* The scheduler runs the periodic task again and again, and every flush ends.
PeriodicSpec ==
    /\ Spec
    /\ WF_vars(\/ InitialFlush
               \/ \E ports \in StructuralPorts : PeriodicFlush(ports)
               \/ FlushStep("own"))

-----------------------------------------------------------------------------
(* Properties. *)

TypeOK ==
    /\ interval \in BOOLEAN
    /\ dynamicPlacement \in [Mac -> Port \cup {None}]
    /\ staticPlacement \in [Mac -> Port \cup {None}]
    /\ behavior \in [Mac -> Segment \cup {SequesterSegment, None}]
    /\ segmentsToVlans \in SegmentMaps
    /\ structural \in StructuralPorts
    /\ testingVlan \in [Mac -> TestingVlan \cup {None}]
    /\ config # None => config \in [Port -> Vlan]
    /\ told \in [Mac -> Vlan \cup {None}]
    /\ lock \in Worker \cup {None}
    /\ calls \in 0..MaxCalls
    /\ flush \in [Worker -> Flushing]
    /\ torn \in BOOLEAN
    /\ changed \subseteq TestingVlan
    /\ unaware \subseteq Mac

\* With an interval no two flushes overlap.
IntervalFlushesAreSerial == interval => ~torn

\* No two devices are tested in the same VLAN, whatever other threads change during a
\* flush, unless two flushes have overlapped.
TestingVlansDistinct ==
    ~torn => \A m, n \in Mac :
        m # n /\ testingVlan[m] # None => testingVlan[m] # testingVlan[n]

\* No other port is in the VLAN that a device is tested in, also when the testing
\* VLANs and the VLANs of the segments overlap: a sequestered device reaches
\* nothing but the testing service.
SequesteredIsAlone ==
    config # None /\ ~torn => \A m \in Mac : testingVlan[m] \notin changed \cup {None} =>
        \A p, q \in Port : config[p] = testingVlan[m] /\ config[q] = testingVlan[m] => p = q

\* The reporter knows the testing VLAN that each device is in, although it is only
\* told when the VLAN of the port changes.
ReporterIsUpToDate ==
    ~torn => \A m \in Mac :
        testingVlan[m] \notin changed \cup {None} => told[m] = testingVlan[m] \/ m \in unaware

\* A VLAN is not handed from one device to another in one flush, and none is handed
\* out that a segment uses.
DrawnIsFree ==
    [][~torn => \A m \in Mac : testingVlan'[m] \notin {testingVlan[m], None} =>
           /\ testingVlan'[m] \notin OperationalVlans(segmentsToVlans') \ changed
           /\ \A n \in Mac : testingVlan[n] # testingVlan'[m]]_vars

\* A device keeps its testing VLAN while it is sequestered, through moves to other
\* ports and reloads: the session of the testing service goes by that VLAN.
TestingVlanIsKept ==
    [][~torn => \A m \in Mac : testingVlan[m] # None =>
           testingVlan'[m] = testingVlan[m] \/ \E w \in Worker : m \in flush[w].wavered]_vars

\* A testing VLAN that no segment and no device uses, while some device waits for
\* one, is drawn in the end, or nobody waits any more.
Waiting == {m \in Sequestered : testingVlan[m] = None}
Idle(v) == v \notin OperationalVlans(segmentsToVlans) /\ \A m \in Mac : testingVlan[m] # v

IdleVlanIsDrawn ==
    \A m \in Mac, v \in TestingVlan :
        interval /\ m \in Waiting /\ Idle(v) ~>
            m \notin Waiting \/ ~Idle(v) \/ flush["own"].pc \in {"raised", "ended"}
-----------------------------------------------------------------------------
(* Not guaranteed by the code. *)

Quiet == ~interval /\ \A w \in Worker : flush[w].pc \in {"idle", "ended"}

\* With instant faucetizing a device waits for a testing VLAN only while all are in use
\* ("No available testing VLANs. Used %d VLANs").
WaitsForUsedVlans == Quiet /\ Waiting # {} => \A v \in TestingVlan : ~Idle(v)

\* With instant faucetizing a port has left the VLAN for unauthenticated devices
\* only for a device that is placed there.
VlanFollowsPlacement ==
    Quiet => \A p \in Port : config[p] # UnauthenticatedVlan => \E m \in Mac : Placement(m) = p

\* The configuration is written, whatever the static files have and whoever calls meanwhile.
InitialFlushSucceeds == interval => flush["own"].pc # "ended"
PeriodicFlushSucceeds == flush["own"].pc # "raised"
InstantFlushSucceeds == ~interval => flush["own"].pc # "ended"

\* The properties above without what they leave out: overlapping flushes, the reloads that
\* give a testing VLAN to a segment or take it back, a behaviour that changes during a flush.
DistinctThroughOverlaps ==
    \A m, n \in Mac : m # n /\ testingVlan[m] # None => testingVlan[m] # testingVlan[n]

AloneThroughReloads ==
    config # None /\ ~torn => \A m \in Mac : testingVlan[m] # None =>
        \A p, q \in Port : config[p] = testingVlan[m] /\ config[q] = testingVlan[m] => p = q

ReporterHearsAll == ~torn => \A m \in Mac :
    testingVlan[m] \notin changed \cup {None} => told[m] = testingVlan[m]

=============================================================================
