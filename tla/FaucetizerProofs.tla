--------------------------- MODULE FaucetizerProofs ---------------------------
(***************************************************************************)
(* What is proved of Faucetizer for every set of devices, ports, segments  *)
(* and VLANs, and any number of calls between the steps of a flush.  A     *)
(* call changes what a flush reads and may have another one begin          *)
(* (InputChanged); the invariants are proved once for that, and not once   *)
(* for every call, and then for each step of a flush.                      *)
(***************************************************************************)
EXTENDS Faucetizer, TLAPS

InputsOK ==
    /\ interval \in BOOLEAN
    /\ dynamicPlacement \in [Mac -> Port \cup {None}]
    /\ staticPlacement \in [Mac -> Port \cup {None}]
    /\ behavior \in [Mac -> Segment \cup {SequesterSegment, None}]
    /\ segmentsToVlans \in SegmentMaps
    /\ structural \in StructuralPorts

OutputsOK ==
    /\ testingVlan \in [Mac -> TestingVlan \cup {None}]
    /\ config # None => config \in [Port -> Vlan]
    /\ told \in [Mac -> Vlan \cup {None}]

\* The bookkeeping of the threads, and what is only there for the properties.
RestOK ==
    /\ lock \in Worker \cup {None}
    /\ torn \in BOOLEAN
    /\ changed \subseteq TestingVlan
    /\ calls \in 0..MaxCalls
    /\ unaware \subseteq Mac

FlushesOK == flush \in [Worker -> Flushing]

LEMMA TypeParts == TypeOK <=> InputsOK /\ OutputsOK /\ RestOK /\ FlushesOK
BY DEF TypeOK, InputsOK, OutputsOK, RestOK, FlushesOK

-----------------------------------------------------------------------------
(* Calls. *)

\* With an interval there is one thread that flushes.
IntervalSerial == interval => flush["caller"].pc = "idle" /\ ~torn

\* The testing VLANs that no segment has, and that no reload has given to one or taken
\* from one.
Reserved == TestingVlan \ (changed \cup OperationalVlans(segmentsToVlans))

\* The tested devices that are not sequestered.
Released == {m \in Mac \ Sequestered : testingVlan[m] # None}

\* What a call does: a flush in progress notices the devices it releases.
InputChanged ==
    /\ UNCHANGED <<interval, outputs, torn, unaware>>
    /\ changed \subseteq changed'
    /\ \A v \in TestingVlan \ changed' : v \in Reserved <=> v \in Reserved'
    /\ \A w \in Worker :
          \/ /\ ~InProgress(w) /\ flush'[w].pc \notin {"place", "update", "store"}
             /\ interval /\ w = "caller" => flush'[w] = flush[w]
          \/ InProgress(w) /\ flush'[w] = [flush[w] EXCEPT !.wavered = @ \cup Released']

LEMMA RestIsFlushing ==
    ASSUME NEW pc \in {"idle", "raised", "ended", "begin", "place", "update", "store"}
    PROVE  /\ Rest(pc) \in Flushing
           /\ Rest(pc).pc = pc
BY DEF Rest, Flushing, Vlan

LEMMA FlushesShape ==
    ASSUME NEW w \in Worker \cup {None}, w # None => Free(w), Flushes(w),
           UNCHANGED testingVlan, FlushesOK
    PROVE  /\ FlushesOK'
           /\ \A v \in Worker :
                 \/ /\ ~InProgress(v) /\ flush'[v].pc \notin {"place", "update", "store"}
                    /\ interval /\ v = "caller" => flush'[v] = flush[v]
                 \/ InProgress(v) /\ flush'[v] = [flush[v] EXCEPT !.wavered = @ \cup Released']
           /\ calls' = calls + 1
<1> DEFINE g(v) == IF v = w /\ ~interval THEN Rest("begin")
                   ELSE IF InProgress(v)
                   THEN [flush[v] EXCEPT !.wavered = @ \cup Released']
                   ELSE flush[v]
<1>1. flush' = [v \in Worker |-> g(v)] /\ calls' = calls + 1
  BY DEF Flushes, Released
<1>2. ASSUME NEW v \in Worker PROVE g(v) \in Flushing
  <2>1. flush[v] \in Flushing
    BY DEF FlushesOK
  <2>2. Released' \subseteq Mac
    BY DEF Released
  <2>3. [flush[v] EXCEPT !.wavered = @ \cup Released'] \in Flushing
    BY <2>1, <2>2 DEF Flushing
  <2> QED BY <2>1, <2>3, RestIsFlushing
<1> HIDE DEF g
<1>3. FlushesOK'
  BY <1>1, <1>2 DEF FlushesOK
<1>4. \A v \in Worker : flush'[v] = g(v)
  BY <1>1
<1>5. ASSUME NEW v \in Worker, v = w, ~interval
      PROVE  ~InProgress(v) /\ flush'[v].pc = "begin"
  <2>1. flush[w].pc = "idle"
    BY <1>5, NoneAssumption DEF Free
  <2>2. flush'[v] = Rest("begin")
    BY <1>4, <1>5 DEF g
  <2> QED BY <1>5, <2>1, <2>2, RestIsFlushing DEF InProgress
<1>6. ASSUME NEW v \in Worker, v # w \/ interval
      PROVE  IF InProgress(v) THEN flush'[v] = [flush[v] EXCEPT !.wavered = @ \cup Released']
                              ELSE flush'[v] = flush[v] /\ flush[v].pc \notin {"place", "update", "store"}
  BY <1>4, <1>6 DEF g, InProgress
<1> QED BY <1>1, <1>3, <1>5, <1>6

\* A call whose flush, if any, is that of w, and that leaves the segments alone.
LEMMA CallShape ==
    ASSUME TypeOK, NEW w \in Worker \cup {None}, w # None => Free(w), Flushes(w),
           calls < MaxCalls, InputsOK',
           lock' \in Worker \cup {None},
           UNCHANGED <<interval, segmentsToVlans, outputs, history>>
    PROVE  TypeOK' /\ InputChanged
<1> USE TypeParts DEF outputs, history
<1>1. OutputsOK'
  BY DEF OutputsOK
<1>2. RestOK'
  BY FlushesShape, ConfigAssumption DEF RestOK
<1>3. FlushesOK'
  BY FlushesShape
<1>4. TypeOK'
  BY <1>1, <1>2, <1>3 DEF TypeOK, InputsOK, OutputsOK, RestOK, FlushesOK
<1>5. Reserved' = Reserved
  BY DEF Reserved
<1>6. \A v \in Worker :
          \/ /\ ~InProgress(v) /\ flush'[v].pc \notin {"place", "update", "store"}
             /\ interval /\ v = "caller" => flush'[v] = flush[v]
          \/ InProgress(v) /\ flush'[v] = [flush[v] EXCEPT !.wavered = @ \cup Released']
  BY FlushesShape
<1> QED BY <1>4, <1>5, <1>6 DEF InputChanged

LEMMA NoneIsNoWorker == None \notin Worker
BY NoneAssumption

LEMMA PlacementCall ==
    ASSUME TypeOK, NEW m \in Mac, NEW p \in Port \cup {None}, NEW static \in BOOLEAN,
           ProcessDevicePlacement(m, p, static)
    PROVE  TypeOK' /\ InputChanged
<1> DEFINE w == IF static THEN "own" ELSE "caller"
<1>1. InputsOK'
  BY DEF TypeOK, ProcessDevicePlacement, InputsOK
<1>2. w \in Worker /\ Free(w) /\ calls < MaxCalls /\ Flushes(w)
  BY DEF ProcessDevicePlacement, FlushUnderLock, Free, Worker
<1>3. lock' \in Worker \cup {None}
  BY <1>2 DEF ProcessDevicePlacement, FlushUnderLock
<1>4. UNCHANGED <<interval, segmentsToVlans, outputs, history>>
  BY DEF ProcessDevicePlacement
<1> QED BY <1>1, <1>2, <1>3, <1>4, CallShape

LEMMA BehaviorCall ==
    ASSUME TypeOK, NEW m \in Mac, NEW segment \in Segment \cup {SequesterSegment, None},
           ProcessDeviceBehavior(m, segment)
    PROVE  TypeOK' /\ InputChanged
<1>1. InputsOK'
  BY DEF TypeOK, ProcessDeviceBehavior, InputsOK
<1>2. PICK w \in Worker : Free(w) /\ FlushUnderLock(w)
  BY DEF ProcessDeviceBehavior
<1>3. calls < MaxCalls /\ Flushes(w) /\ lock' \in Worker \cup {None}
  BY <1>2 DEF Free, FlushUnderLock
<1>4. UNCHANGED <<interval, segmentsToVlans, outputs, history>>
  BY DEF ProcessDeviceBehavior
<1> QED BY <1>1, <1>2, <1>3, <1>4, CallShape

LEMMA ClearCall ==
    ASSUME TypeOK, NEW m \in Mac, ClearStaticPlacement(m)
    PROVE  TypeOK' /\ InputChanged
<1>1. InputsOK'
  BY DEF TypeOK, ClearStaticPlacement, InputsOK
<1>2. calls < MaxCalls /\ Flushes(None) /\ lock' \in Worker \cup {None}
  BY DEF ClearStaticPlacement, Free, TypeOK
<1>3. UNCHANGED <<interval, segmentsToVlans, outputs, history>>
  BY DEF ClearStaticPlacement
<1> QED BY <1>1, <1>2, <1>3, CallShape

LEMMA StructuralCall ==
    ASSUME TypeOK, NEW ports \in StructuralPorts, ReloadStructuralConfig(ports)
    PROVE  TypeOK' /\ InputChanged
<1>1. InputsOK'
  BY DEF TypeOK, ReloadStructuralConfig, InputsOK
<1>2. Free("own") /\ calls < MaxCalls /\ Flushes("own") /\ lock' \in Worker \cup {None}
  BY DEF ReloadStructuralConfig, FlushUnderLock, Free, Worker
<1>3. UNCHANGED <<interval, segmentsToVlans, outputs, history>>
  BY DEF ReloadStructuralConfig
<1> QED BY <1>1, <1>2, <1>3, CallShape DEF Worker

\* A reload: what it gives to a segment, or takes from one, is not reserved any more.
LEMMA SegmentsCall ==
    ASSUME TypeOK, NEW map \in SegmentMaps, ReloadSegmentsToVlans(map)
    PROVE  TypeOK' /\ InputChanged
<1> USE TypeParts DEF outputs
<1> DEFINE used == OperationalVlans(segmentsToVlans)
           usedNow == OperationalVlans(map)
<1>1. /\ segmentsToVlans' = map
      /\ changed' = changed \cup (TestingVlan \cap ((used \ usedNow) \cup (usedNow \ used)))
      /\ UNCHANGED <<interval, dynamicPlacement, staticPlacement, behavior, structural, outputs, lock, torn, unaware>>
      /\ Free("own") /\ Flushes("own") /\ calls < MaxCalls
  BY DEF ReloadSegmentsToVlans, Free
<1>2. InputsOK'
  BY <1>1 DEF InputsOK
<1>3. OutputsOK'
  BY <1>1 DEF OutputsOK
<1>4. /\ FlushesOK' /\ calls' = calls + 1
      /\ \A v \in Worker :
          \/ /\ ~InProgress(v) /\ flush'[v].pc \notin {"place", "update", "store"}
             /\ interval /\ v = "caller" => flush'[v] = flush[v]
          \/ InProgress(v) /\ flush'[v] = [flush[v] EXCEPT !.wavered = @ \cup Released']
  BY <1>1, FlushesShape DEF Worker
<1>5. RestOK'
  BY <1>1, <1>4, ConfigAssumption DEF RestOK
<1>6. TypeOK'
  BY <1>2, <1>3, <1>4, <1>5 DEF TypeOK, InputsOK, OutputsOK, RestOK, FlushesOK
<1>7. \A v \in TestingVlan \ changed' : v \in Reserved <=> v \in Reserved'
  <2> DEFINE usedThen == OperationalVlans(segmentsToVlans')
  <2>1. usedThen = usedNow
    BY <1>1
  <2> HIDE DEF used, usedNow, usedThen
  <2> QED BY <1>1, <2>1 DEF Reserved, used, usedThen
<1> QED BY <1>1, <1>4, <1>6, <1>7 DEF InputChanged

\* The own calls with an interval: the flush that begins.
LEMMA IntervalCall ==
    ASSUME TypeOK, NEW ports \in StructuralPorts, PeriodicFlush(ports) \/ InitialFlush,
           IntervalSerial
    PROVE  TypeOK' /\ InputChanged
<1> USE TypeParts DEF outputs, history, inputs
<1>1. /\ flush["own"].pc \in {"idle", "raised"}
      /\ flush' = [flush EXCEPT !["own"] = Rest("begin")]
      /\ UNCHANGED <<interval, segmentsToVlans, outputs, lock, calls, history>>
      /\ interval
  BY DEF PeriodicFlush, InitialFlush
<1>2. InputsOK'
  BY DEF PeriodicFlush, InitialFlush, InputsOK
<1>3. OutputsOK' /\ RestOK'
  BY <1>1 DEF OutputsOK, RestOK
<1>4. FlushesOK'
  BY <1>1, RestIsFlushing DEF FlushesOK
<1>5. TypeOK'
  BY <1>2, <1>3, <1>4 DEF TypeOK, InputsOK, OutputsOK, RestOK, FlushesOK
<1>6. Reserved' = Reserved
  BY <1>1 DEF Reserved
<1>7. flush'["own"].pc = "begin" /\ flush'["caller"] = flush["caller"]
  BY <1>1, RestIsFlushing DEF FlushesOK, Worker
<1>8. ~InProgress("own") /\ ~InProgress("caller")
  BY <1>1 DEF InProgress, IntervalSerial
<1> QED BY <1>1, <1>5, <1>6, <1>7, <1>8 DEF InputChanged, Worker, InProgress

\* A step is a call or one of a flush.
LEMMA StepShape ==
    ASSUME TypeOK, IntervalSerial, Next
    PROVE  (TypeOK' /\ InputChanged) \/ \E w \in Worker : FlushStep(w)
BY PlacementCall, BehaviorCall, ClearCall, StructuralCall, SegmentsCall, IntervalCall, ConfigAssumption DEF Next
-----------------------------------------------------------------------------
(* Types, through the steps of a flush. *)

\* The device that is being reported is one, on a port.
Reporting == \A w \in Worker : flush[w].pc = "update" =>
    flush[w].mac \in Mac /\ flush[w].placement[flush[w].mac] \in Port

Shape == TypeOK /\ IntervalSerial /\ Reporting

\* What is left of a flush after an exception.
LEMMA RaiseEffect ==
    ASSUME TypeOK, NEW w \in Worker, Raise(w)
    PROVE  /\ FlushesOK' /\ lock' \in Worker \cup {None}
           /\ flush'[w].pc \in {"idle", "raised", "ended"}
           /\ w = "caller" => flush'[w].pc = "idle"
           /\ \A v \in Worker \ {w} : flush'[v] = flush[v]
<1> USE TypeParts
<1>1. PICK pc \in {"idle", "raised", "ended"} :
          /\ flush' = [flush EXCEPT ![w] = Rest(pc)]
          /\ w = "caller" => pc = "idle"
  BY DEF Raise
<1>2. Rest(pc) \in Flushing /\ Rest(pc).pc = pc
  BY RestIsFlushing
<1>3. lock' \in Worker \cup {None}
  BY DEF Raise, RestOK
<1> QED BY <1>1, <1>2, <1>3 DEF FlushesOK

LEMMA BeginEffect ==
    ASSUME TypeOK, NEW w \in Worker, Begin(w)
    PROVE  /\ FlushesOK' /\ flush[w].pc = "begin" /\ flush'[w].pc = "place"
           /\ flush'[w].available = AvailableTestingVlans
           /\ flush'[w].placement =
                 [m \in Mac |-> IF Placement(m) \in structural THEN Placement(m) ELSE None]
           /\ flush'[w].wavered = Released
           /\ flush'[w].drawn = [m \in Mac |-> None]
           /\ flush'[w].vlans = [p \in Port |-> UnauthenticatedVlan]
           /\ \A v \in Worker \ {w} : flush'[v] = flush[v]
<1> USE TypeParts
<1> DEFINE placed == [m \in Mac |-> IF Placement(m) \in structural THEN Placement(m) ELSE None]
           later == {m \in Mac : dynamicPlacement[m] = None /\ staticPlacement[m] \in structural}
           g == [Rest("place") EXCEPT !.available = AvailableTestingVlans, !.placement = placed,
                                      !.later = later, !.wavered = Released]
<1>1. flush' = [flush EXCEPT ![w] = g] /\ flush[w].pc = "begin"
  BY DEF Begin, Released
<1>2. structural \subseteq Port
  BY ConfigAssumption DEF InputsOK
<1>3. placed \in [Mac -> Port \cup {None}] /\ later \subseteq Mac
  BY <1>2
<1>4. AvailableTestingVlans \subseteq TestingVlan /\ Released \subseteq Mac
  BY DEF AvailableTestingVlans, Released
<1> HIDE DEF placed, later
<1>5. Rest("place") \in Flushing
  BY RestIsFlushing
<1>6. g \in Flushing
  BY <1>3, <1>4, <1>5 DEF Flushing
<1>7. /\ g.pc = "place" /\ g.available = AvailableTestingVlans /\ g.placement = placed
      /\ g.wavered = Released /\ g.drawn = [m \in Mac |-> None]
      /\ g.vlans = [p \in Port |-> UnauthenticatedVlan]
  BY DEF Rest
<1> HIDE DEF g
<1>8. flush'[w] = g /\ \A v \in Worker \ {w} : flush'[v] = flush[v]
  BY <1>1 DEF FlushesOK
<1>9. FlushesOK'
  BY <1>1, <1>6 DEF FlushesOK
<1> QED BY <1>1, <1>7, <1>8, <1>9 DEF placed

\* What the next device of a flush can get.
LEMMA VlanIdIsVlan ==
    ASSUME TypeOK, NEW m \in Mac, NEW available \in SUBSET TestingVlan,
           NEW vlan \in VlanId(m, available), vlan # None
    PROVE  /\ vlan \in Vlan
           /\ behavior[m] = SequesterSegment =>
                 vlan \in TestingVlan /\ vlan \in (IF testingVlan[m] # None THEN {testingVlan[m]} ELSE available)
           /\ behavior[m] # SequesterSegment => vlan \in OperationalVlans(segmentsToVlans)
<1> USE TypeParts
<1>1. CASE behavior[m] = SequesterSegment
  <2>1. vlan \in (IF testingVlan[m] # None THEN {testingVlan[m]} ELSE available)
    BY <1>1, NoneAssumption DEF VlanId
  <2>2. vlan \in TestingVlan
    BY <2>1 DEF OutputsOK
  <2> QED BY <1>1, <2>1, <2>2 DEF Vlan
<1>2. CASE behavior[m] # SequesterSegment
  <2>1. behavior[m] # None /\ vlan = segmentsToVlans[behavior[m]]
    BY <1>2 DEF VlanId
  <2>2. behavior[m] \in Segment
    BY <1>2, <2>1 DEF InputsOK
  <2>3. vlan \in OperationalVlans(segmentsToVlans)
    BY <2>1, <2>2 DEF OperationalVlans
  <2>4. segmentsToVlans \in SegmentMaps
    BY DEF InputsOK
  <2> QED BY <1>2, <2>3, <2>4 DEF Vlan
<1> QED BY <1>1, <1>2

\* A device is skipped.
SkipEffect(w, m) ==
    /\ None \in VlanId(m, flush[w].available)
    /\ flush'[w].pc = "place"
    /\ flush'[w].placement = [flush[w].placement EXCEPT ![m] = None]
    /\ flush'[w].available = flush[w].available
    /\ flush'[w].drawn = flush[w].drawn
    /\ flush'[w].vlans = flush[w].vlans
    /\ flush'[w].wavered = flush[w].wavered

\* Or gets a VLAN.
PlaceEffect(w, m, vlan) ==
    /\ vlan \in VlanId(m, flush[w].available) /\ vlan # None /\ config # None
    /\ flush'[w].pc = "update" /\ flush'[w].mac = m
    /\ flush'[w].moved = (config[flush[w].placement[m]] # vlan)
    /\ flush'[w].placement = flush[w].placement
    /\ flush'[w].vlans = [flush[w].vlans EXCEPT ![flush[w].placement[m]] = vlan]
    /\ flush'[w].drawn = [flush[w].drawn EXCEPT ![m] =
                             IF behavior[m] = SequesterSegment THEN vlan ELSE None]
    /\ flush'[w].available = IF behavior[m] = SequesterSegment
                             THEN flush[w].available \ {vlan} ELSE flush[w].available
    /\ flush'[w].wavered = flush[w].wavered

\* Or the flush ends.
RaiseOnly(w) ==
    /\ flush'[w].pc \in {"idle", "raised", "ended"}
    /\ w = "caller" => flush'[w].pc = "idle"

LEMMA PlaceShape ==
    ASSUME TypeOK, NEW w \in Worker, NEW m \in Mac, Place(w, m)
    PROVE  /\ FlushesOK' /\ lock' \in Worker \cup {None}
           /\ flush[w].pc = "place" /\ flush[w].placement[m] \in Port
           /\ \A v \in Worker \ {w} : flush'[v] = flush[v]
           /\ \/ SkipEffect(w, m)
              \/ RaiseOnly(w)
              \/ \E vlan : PlaceEffect(w, m, vlan)
<1> USE TypeParts
<1> DEFINE f == flush[w]
           p == f.placement[m]
           tested == behavior[m] = SequesterSegment
<1>0. flush[w] \in Flushing /\ flush \in [Worker -> Flushing]
  BY DEF FlushesOK
<1>1. f.pc = "place" /\ p \in Port
  <2>1. f.placement[m] \in Port \cup {None}
    BY <1>0 DEF Flushing
  <2> QED BY <2>1 DEF Place
<1>2. PICK vlan \in VlanId(m, f.available) :
          IF vlan = None
          THEN flush' = [flush EXCEPT ![w] = [f EXCEPT !.placement = [f.placement EXCEPT ![m] = None]]]
               /\ UNCHANGED lock
          ELSE IF config = None THEN Raise(w)
          ELSE /\ flush' = [flush EXCEPT ![w] =
                      [f EXCEPT !.pc = "update", !.mac = m, !.moved = Moved(p, vlan),
                                !.vlans = [f.vlans EXCEPT ![p] = vlan],
                                !.drawn = [f.drawn EXCEPT ![m] = IF tested THEN vlan ELSE None],
                                !.available = IF tested THEN f.available \ {vlan} ELSE f.available]]
               /\ UNCHANGED lock
  BY DEF Place
<1>3. CASE vlan = None
  <2> DEFINE g == [f EXCEPT !.placement = [f.placement EXCEPT ![m] = None]]
  <2>1. flush' = [flush EXCEPT ![w] = g] /\ lock' = lock
    BY <1>2, <1>3
  <2>2. g \in Flushing
    BY <1>0 DEF Flushing
  <2>3. /\ g.pc = "place" /\ g.placement = [f.placement EXCEPT ![m] = None]
        /\ g.available = f.available /\ g.drawn = f.drawn /\ g.vlans = f.vlans
        /\ g.wavered = f.wavered
    BY <1>0, <1>1 DEF Flushing
  <2> HIDE DEF g
  <2>4. flush'[w] = g /\ \A v \in Worker \ {w} : flush'[v] = flush[v]
    BY <2>1, <1>0
  <2>5. FlushesOK'
    BY <2>1, <2>2, <1>0 DEF FlushesOK
  <2>6. SkipEffect(w, m)
    BY <1>2, <1>3, <2>3, <2>4 DEF SkipEffect
  <2>7. lock' \in Worker \cup {None}
    BY <2>1 DEF RestOK
  <2> QED BY <1>1, <2>4, <2>5, <2>6, <2>7
<1>4. CASE vlan # None /\ config = None
  BY <1>1, <1>2, <1>4, RaiseEffect DEF RaiseOnly
<1>5. CASE vlan # None /\ config # None
  <2> DEFINE vlans == [f.vlans EXCEPT ![p] = vlan]
             drawn == [f.drawn EXCEPT ![m] = IF tested THEN vlan ELSE None]
             available == IF tested THEN f.available \ {vlan} ELSE f.available
             moved == config[p] # vlan
             g == [f EXCEPT !.pc = "update", !.mac = m, !.moved = moved, !.vlans = vlans,
                            !.drawn = drawn, !.available = available]
  <2>0. f.available \in SUBSET TestingVlan
    BY <1>0 DEF Flushing
  <2>1. vlan \in Vlan /\ (tested => vlan \in TestingVlan)
    BY <1>2, <1>5, <2>0, VlanIdIsVlan
  <2>2. flush' = [flush EXCEPT ![w] = g] /\ lock' = lock
    BY <1>2, <1>5 DEF Moved
  <2>3. /\ vlans \in [Port -> Vlan] /\ drawn \in [Mac -> TestingVlan \cup {None}]
        /\ available \subseteq TestingVlan /\ moved \in BOOLEAN
    BY <1>0, <2>1 DEF Flushing
  <2> HIDE DEF vlans, drawn, available, moved
  <2>4. g \in Flushing
    BY <1>0, <2>3 DEF Flushing
  <2>5. /\ g.pc = "update" /\ g.mac = m /\ g.moved = moved /\ g.placement = f.placement
        /\ g.vlans = vlans /\ g.drawn = drawn /\ g.available = available
        /\ g.wavered = f.wavered
    BY <1>0 DEF Flushing
  <2> HIDE DEF g
  <2>6. flush'[w] = g /\ \A v \in Worker \ {w} : flush'[v] = flush[v]
    BY <2>2, <1>0
  <2>7. FlushesOK'
    BY <2>2, <2>4, <1>0 DEF FlushesOK
  <2>8. PlaceEffect(w, m, vlan)
    BY <1>2, <1>5, <2>5, <2>6 DEF PlaceEffect, vlans, drawn, available, moved
  <2>9. lock' \in Worker \cup {None}
    BY <2>2 DEF RestOK
  <2> QED BY <1>1, <2>6, <2>7, <2>8, <2>9
<1> QED BY <1>3, <1>4, <1>5
\* The device that got a VLAN is reported.
UpdateEffect(w) ==
    LET f == flush[w]
        m == f.mac
        tell == f.moved /\ behavior[m] = SequesterSegment
    IN
    /\ flush'[w].pc = "place"
    /\ flush'[w].placement = [f.placement EXCEPT ![m] = None]
    /\ flush'[w].available = f.available
    /\ flush'[w].drawn = f.drawn
    /\ flush'[w].vlans = f.vlans
    /\ flush'[w].wavered = f.wavered
    /\ told' = IF tell THEN [told EXCEPT ![m] = f.vlans[f.placement[m]]] ELSE told
    /\ unaware' = CASE tell /\ f.drawn[m] # None                -> unaware \ {m}
                    [] tell \/ (f.moved /\ f.drawn[m] # None) -> unaware \cup {m}
                    [] OTHER                                  -> unaware

LEMMA UpdateShape ==
    ASSUME TypeOK, Reporting, NEW w \in Worker, Update(w)
    PROVE  /\ FlushesOK' /\ lock' \in Worker \cup {None}
           /\ told' \in [Mac -> Vlan \cup {None}] /\ unaware' \subseteq Mac
           /\ flush[w].pc = "update"
           /\ \A v \in Worker \ {w} : flush'[v] = flush[v]
           /\ UpdateEffect(w) \/ (RaiseOnly(w) /\ UNCHANGED <<told, unaware>>)
<1> USE TypeParts
<1> DEFINE f == flush[w]
           m == f.mac
           p == f.placement[m]
           tell == f.moved /\ behavior[m] = SequesterSegment
<1>0. flush[w] \in Flushing /\ flush \in [Worker -> Flushing]
  BY DEF FlushesOK
<1>1. f.pc = "update" /\ m \in Mac /\ p \in Port
  BY DEF Update, Reporting
<1>2. CASE Raise(w) /\ UNCHANGED <<told, unaware>>
  <2>1. told' \in [Mac -> Vlan \cup {None}] /\ unaware' \subseteq Mac
    BY <1>2 DEF OutputsOK, RestOK
  <2> QED BY <1>1, <1>2, <2>1, RaiseEffect DEF RaiseOnly
<1>3. CASE /\ flush' = [flush EXCEPT ![w] =
                 [f EXCEPT !.pc = "place", !.mac = None, !.moved = FALSE,
                           !.placement = [f.placement EXCEPT ![m] = None]]]
           /\ told' = IF tell THEN [told EXCEPT ![m] = f.vlans[p]] ELSE told
           /\ unaware' = CASE tell /\ f.drawn[m] # None                -> unaware \ {m}
                           [] tell \/ (f.moved /\ f.drawn[m] # None) -> unaware \cup {m}
                           [] OTHER                                  -> unaware
           /\ UNCHANGED lock
  <2> DEFINE g == [f EXCEPT !.pc = "place", !.mac = None, !.moved = FALSE,
                            !.placement = [f.placement EXCEPT ![m] = None]]
  <2>1. flush' = [flush EXCEPT ![w] = g]
    BY <1>3
  <2>2. g \in Flushing
    BY <1>0 DEF Flushing
  <2>3. /\ g.pc = "place" /\ g.placement = [f.placement EXCEPT ![m] = None]
        /\ g.available = f.available /\ g.drawn = f.drawn /\ g.vlans = f.vlans
        /\ g.wavered = f.wavered
    BY <1>0 DEF Flushing
  <2> HIDE DEF g
  <2>4. flush'[w] = g /\ \A v \in Worker \ {w} : flush'[v] = flush[v]
    BY <2>1, <1>0
  <2>5. FlushesOK'
    BY <2>1, <2>2, <1>0 DEF FlushesOK
  <2>6. UpdateEffect(w)
    BY <1>3, <2>3, <2>4 DEF UpdateEffect
  <2>7. f.vlans[p] \in Vlan
    BY <1>0, <1>1 DEF Flushing
  <2>8. told' \in [Mac -> Vlan \cup {None}]
    BY <1>3, <2>7 DEF OutputsOK
  <2>9. unaware' \subseteq Mac
    <3>1. unaware' \in {unaware \ {m}, unaware \cup {m}, unaware}
      BY <1>3
    <3> QED BY <3>1, <1>1 DEF RestOK
  <2>10. lock' \in Worker \cup {None}
    BY <1>3 DEF RestOK
  <2>11. flush[w].pc = "update" /\ \A v \in Worker \ {w} : flush'[v] = flush[v]
    BY <1>1, <2>4
  <2> QED BY <2>5, <2>6, <2>8, <2>9, <2>10, <2>11
<1> QED BY <1>2, <1>3 DEF Update

LEMMA FinalizeShape ==
    ASSUME TypeOK, NEW w \in Worker, FinalizeHostPortsConfig(w)
    PROVE  /\ TypeOK' /\ flush[w].pc = "place"
           /\ flush'[w].pc = "store" /\ flush'[w].vlans = flush[w].vlans
           /\ \A v \in Worker \ {w} : flush'[v] = flush[v]
<1> USE TypeParts DEF inputs
<1> DEFINE g == [Rest("store") EXCEPT !.vlans = flush[w].vlans]
<1>0. flush[w] \in Flushing /\ flush \in [Worker -> Flushing]
  BY DEF FlushesOK
<1>1. /\ flush[w].pc = "place"
      /\ flush' = [flush EXCEPT ![w] = g]
      /\ testingVlan' = flush[w].drawn
      /\ told' = [m \in Mac |-> IF flush[w].drawn[m] = None THEN None ELSE told[m]]
      /\ unaware' = {m \in unaware : flush[w].drawn[m] # None}
      /\ UNCHANGED <<inputs, config, lock, calls, torn, changed>>
  BY DEF FinalizeHostPortsConfig
<1>2. g \in Flushing /\ g.pc = "store" /\ g.vlans = flush[w].vlans
  <2>1. Rest("store") \in Flushing /\ Rest("store").pc = "store"
    BY RestIsFlushing
  <2>2. flush[w].vlans \in [Port -> Vlan]
    BY <1>0 DEF Flushing
  <2> QED BY <2>1, <2>2 DEF Flushing
<1> HIDE DEF g
<1>3. FlushesOK' /\ flush'[w] = g /\ \A v \in Worker \ {w} : flush'[v] = flush[v]
  BY <1>0, <1>1, <1>2 DEF FlushesOK
<1>4. InputsOK'
  BY <1>1 DEF InputsOK
<1>5. OutputsOK'
  <2>1. testingVlan' \in [Mac -> TestingVlan \cup {None}]
    BY <1>0, <1>1 DEF Flushing
  <2>2. told' \in [Mac -> Vlan \cup {None}]
    BY <1>1 DEF OutputsOK
  <2> QED BY <1>1, <2>1, <2>2 DEF OutputsOK
<1>6. RestOK'
  BY <1>1 DEF RestOK
<1>7. TypeOK'
  BY <1>3, <1>4, <1>5, <1>6 DEF TypeOK, InputsOK, OutputsOK, RestOK, FlushesOK
<1> QED BY <1>1, <1>2, <1>3, <1>7

LEMMA StoreShape ==
    ASSUME TypeOK, NEW w \in Worker, Store(w)
    PROVE  /\ TypeOK' /\ flush[w].pc = "store" /\ flush'[w].pc = "idle"
           /\ \A v \in Worker \ {w} : flush'[v] = flush[v]
<1> USE TypeParts DEF inputs, history
<1>0. flush[w] \in Flushing /\ flush \in [Worker -> Flushing]
  BY DEF FlushesOK
<1>1. /\ flush[w].pc = "store" /\ config' = flush[w].vlans
      /\ flush' = [flush EXCEPT ![w] = Rest("idle")]
      /\ lock' = IF lock = w THEN None ELSE lock
      /\ UNCHANGED <<inputs, testingVlan, told, calls, history>>
  BY DEF Store
<1>2. FlushesOK' /\ flush'[w].pc = "idle" /\ \A v \in Worker \ {w} : flush'[v] = flush[v]
  BY <1>0, <1>1, RestIsFlushing DEF FlushesOK
<1>3. InputsOK'
  BY <1>1 DEF InputsOK
<1>4. OutputsOK'
  BY <1>0, <1>1 DEF OutputsOK, Flushing
<1>5. RestOK'
  BY <1>1 DEF RestOK
<1>6. TypeOK'
  BY <1>2, <1>3, <1>4, <1>5 DEF TypeOK, InputsOK, OutputsOK, RestOK, FlushesOK
<1> QED BY <1>1, <1>2, <1>6

LEMMA FlushTypeStep ==
    ASSUME TypeOK, Reporting, NEW w \in Worker, FlushStep(w)
    PROVE  TypeOK'
<1> USE TypeParts DEF inputs, outputs, history
<1>1. CASE Begin(w)
  <2>1. InputsOK' /\ OutputsOK' /\ RestOK'
    BY <1>1, ConfigAssumption DEF Begin, InputsOK, OutputsOK, RestOK
  <2> QED BY <1>1, <2>1, BeginEffect DEF TypeOK, InputsOK, OutputsOK, RestOK, FlushesOK
<1>2. ASSUME NEW m \in Mac, Place(w, m) PROVE TypeOK'
  <2>1. FlushesOK' /\ lock' \in Worker \cup {None}
    BY <1>2, PlaceShape
  <2>2. UNCHANGED <<inputs, outputs, calls, history>>
    BY <1>2 DEF Place
  <2>3. InputsOK' /\ OutputsOK' /\ RestOK'
    BY <2>1, <2>2 DEF InputsOK, OutputsOK, RestOK
  <2> QED BY <2>1, <2>3 DEF TypeOK, InputsOK, OutputsOK, RestOK, FlushesOK
<1>3. CASE Update(w)
  <2>1. /\ FlushesOK' /\ lock' \in Worker \cup {None}
        /\ told' \in [Mac -> Vlan \cup {None}] /\ unaware' \subseteq Mac
    BY <1>3, UpdateShape
  <2>2. UNCHANGED <<inputs, testingVlan, config, calls, torn, changed>>
    BY <1>3 DEF Update
  <2>3. InputsOK' /\ OutputsOK' /\ RestOK'
    BY <2>1, <2>2 DEF InputsOK, OutputsOK, RestOK
  <2> QED BY <2>1, <2>3 DEF TypeOK, InputsOK, OutputsOK, RestOK, FlushesOK
<1>4. CASE FinalizeHostPortsConfig(w)
  BY <1>4, FinalizeShape
<1>5. CASE Store(w)
  BY <1>5, StoreShape
<1> QED BY <1>1, <1>2, <1>3, <1>4, <1>5 DEF FlushStep
\* Only the own thread flushes with an interval, and a flush that reports a device has one.
LEMMA ShapeStep == Shape /\ [Next]_vars => Shape'
<1> SUFFICES ASSUME Shape, [Next]_vars PROVE Shape'
  OBVIOUS
<1> USE DEF Shape
<1>1. CASE UNCHANGED vars
  <2>1. TypeOK'
    BY <1>1 DEF TypeOK, vars, inputs, outputs, history
  <2>2. IntervalSerial' /\ Reporting'
    BY <1>1 DEF IntervalSerial, Reporting, vars, inputs, history
  <2> QED BY <2>1, <2>2
<1>2. CASE TypeOK' /\ InputChanged
  <2>1. IntervalSerial'
    BY <1>2 DEF IntervalSerial, InputChanged, InProgress, Worker
  <2>2. ASSUME NEW w \in Worker, flush'[w].pc = "update"
        PROVE  flush'[w].mac \in Mac /\ flush'[w].placement[flush'[w].mac] \in Port
    <3>1. InProgress(w) /\ flush'[w] = [flush[w] EXCEPT !.wavered = @ \cup Released']
      BY <1>2, <2>2, RestIsFlushing DEF InputChanged
    <3>2. flush[w] \in Flushing
      BY DEF TypeOK
    <3>3. /\ flush'[w].pc = flush[w].pc /\ flush'[w].mac = flush[w].mac
          /\ flush'[w].placement = flush[w].placement
      BY <3>1, <3>2 DEF Flushing
    <3> QED BY <2>2, <3>3 DEF Reporting
  <2> QED BY <1>2, <2>1, <2>2 DEF Reporting
<1>3. ASSUME NEW w \in Worker, FlushStep(w) PROVE Shape'
  <2>1. TypeOK'
    BY <1>3, FlushTypeStep
  <2> DEFINE Stepped ==
        /\ \A v \in Worker \ {w} : flush'[v] = flush[v]
        /\ flush'[w].pc = "update" =>
              flush'[w].mac \in Mac /\ flush'[w].placement[flush'[w].mac] \in Port
        /\ flush[w].pc # "idle"
  <2>2. Stepped
    <3>1. CASE Begin(w)
      BY <3>1, BeginEffect
    <3>2. ASSUME NEW m \in Mac, Place(w, m) PROVE Stepped
      BY <3>2, PlaceShape DEF SkipEffect, RaiseOnly, PlaceEffect
    <3>3. CASE Update(w)
      BY <3>3, UpdateShape DEF UpdateEffect, RaiseOnly
    <3>4. CASE FinalizeHostPortsConfig(w)
      BY <3>4, FinalizeShape
    <3>5. CASE Store(w)
      BY <3>5, StoreShape
    <3> QED BY <1>3, <3>1, <3>2, <3>3, <3>4, <3>5 DEF FlushStep
  <2>3. Reporting'
    BY <2>2 DEF Reporting
  <2>4. UNCHANGED interval /\ (torn' = torn \/ Begin(w))
    BY <1>3 DEF FlushStep, Begin, Place, Update, FinalizeHostPortsConfig, Store, inputs, history
  <2>5. interval => ~torn'
    <3>1. CASE torn' = torn
      BY <3>1 DEF IntervalSerial
    <3>2. CASE Begin(w) /\ interval
      <4>1. w = "own"
        BY <2>2, <3>2 DEF IntervalSerial, Worker
      <4> QED BY <3>2, <4>1 DEF Begin, IntervalSerial, InProgress, Worker
    <3> QED BY <2>4, <3>1, <3>2
  <2>6. IntervalSerial'
    BY <2>2, <2>4, <2>5 DEF IntervalSerial, Worker
  <2> QED BY <2>1, <2>3, <2>6
<1> QED BY <1>1, <1>2, <1>3, StepShape

LEMMA ShapeInit == Init => Shape
<1> SUFFICES ASSUME Init PROVE Shape
  OBVIOUS
<1>1. Rest("idle") \in Flushing /\ Rest("idle").pc = "idle"
  BY RestIsFlushing
<1>2. InputsOK /\ OutputsOK
  BY DEF Init, InputsOK, OutputsOK, Vlan
<1>7. RestOK
  <2>1. calls \in 0..MaxCalls
    BY ConfigAssumption DEF Init
  <2>2. torn \in BOOLEAN
    BY DEF Init
  <2> QED BY <2>1, <2>2 DEF Init, RestOK
<1>3. FlushesOK /\ \A w \in Worker : flush[w].pc = "idle"
  BY <1>1 DEF Init, FlushesOK
<1>4. TypeOK
  BY <1>2, <1>3, <1>7, TypeParts
<1>5. IntervalSerial /\ Reporting
  BY <1>3 DEF IntervalSerial, Reporting, Init, Worker
<1> QED BY <1>4, <1>5 DEF Shape

\* Every variable keeps its type.
THEOREM TypeCorrect == Spec => []TypeOK
<1>1. Shape => TypeOK
  BY DEF Shape
<1> QED BY <1>1, ShapeInit, ShapeStep, PTL DEF Spec

\* With an interval no two flushes overlap, since nobody but the periodic task, and before it
\* the initialisation, flushes: the properties below hold there without their exception.
THEOREM IntervalFlushesDoNotOverlap == Spec => []IntervalFlushesAreSerial
<1>1. Shape => IntervalFlushesAreSerial
  BY DEF Shape, IntervalSerial, IntervalFlushesAreSerial
<1> QED BY <1>1, ShapeInit, ShapeStep, PTL DEF Spec
-----------------------------------------------------------------------------
(* The invariant. *)

Drawing(w) == flush[w].pc \in {"place", "update"}

\* w is about to report m.
Reports(w, m) == flush[w].pc = "update" /\ flush[w].mac = m

OneFlush == \A v, w \in Worker : InProgress(v) /\ InProgress(w) => v = w

HeldOK ==
    /\ \A m \in Mac : testingVlan[m] \in Reserved \cup changed \cup {None}
    /\ \A m, n \in Mac : m # n /\ testingVlan[m] # None => testingVlan[m] # testingVlan[n]

\* A port is in a reserved VLAN for the device that is tested in it, which has one port.
PortsOK(vlans, held) ==
    /\ \A p \in Port : vlans[p] \in Reserved => \E m \in Mac : held[m] = vlans[p]
    /\ \A m \in Mac, p, q \in Port :
           held[m] \in Reserved /\ vlans[p] = held[m] /\ vlans[q] = held[m] => p = q

\* The configuration is older than the testing VLANs before the flush stores the new one.
ConfigOK ==
    config # None =>
        /\ (\A w \in Worker : flush[w].pc # "store") => PortsOK(config, testingVlan)
        /\ \A m \in Mac, p, q \in Port :
              testingVlan[m] \in Reserved /\ config[p] = testingVlan[m] /\ config[q] = testingVlan[m] => p = q

HeardOK == \A m \in Mac :
    testingVlan[m] \in Reserved => told[m] = testingVlan[m] \/ m \in unaware

AvailableOK(w) == \A v \in flush[w].available :
    /\ v \in Reserved \cup changed
    /\ \A m \in Mac : testingVlan[m] # v /\ flush[w].drawn[m] # v

\* What is drawn is the device's own, or nobody's.
DrawnOK(w) ==
    /\ \A m \in Mac : flush[w].drawn[m] \in Reserved \cup changed \cup {None}
    /\ \A m \in Mac : flush[w].drawn[m] # None /\ testingVlan[m] # None =>
           flush[w].drawn[m] = testingVlan[m]
    /\ \A m, n \in Mac : flush[w].drawn[m] # None /\ testingVlan[m] = None =>
           testingVlan[n] # flush[w].drawn[m]
    /\ \A m, n \in Mac : m # n /\ flush[w].drawn[m] # None => flush[w].drawn[m] # flush[w].drawn[n]
    /\ \A m \in Mac : flush[w].placement[m] # None => flush[w].drawn[m] = None \/ Reports(w, m)

\* A tested device that has not wavered keeps its VLAN once it has been dealt with.
KeptOK(w) == \A m \in Mac : testingVlan[m] # None /\ m \notin flush[w].wavered =>
    /\ m \in Sequestered
    /\ flush[w].placement[m] = None \/ Reports(w, m) => flush[w].drawn[m] = testingVlan[m]

\* The reporter is told of a drawn VLAN, or has been.
ToldOK(w) == \A m \in Mac : flush[w].drawn[m] \in Reserved /\ ~Reports(w, m) =>
    told[m] = flush[w].drawn[m] \/ m \in unaware

MovedOK(w) == flush[w].pc = "update" =>
    LET vlan == flush[w].vlans[flush[w].placement[flush[w].mac]] IN
    /\ config # None
    /\ flush[w].moved = (config[flush[w].placement[flush[w].mac]] # vlan)
    /\ flush[w].drawn[flush[w].mac] \in {None, vlan}

FlushOK(w) ==
    /\ Drawing(w) => /\ AvailableOK(w) /\ DrawnOK(w) /\ PortsOK(flush[w].vlans, flush[w].drawn)
                     /\ KeptOK(w) /\ ToldOK(w) /\ MovedOK(w)
    /\ flush[w].pc = "store" => PortsOK(flush[w].vlans, testingVlan)

Safe == OneFlush /\ HeldOK /\ ConfigOK /\ HeardOK /\ \A w \in Worker : FlushOK(w)

IInv == Shape /\ (~torn => Safe)

LEMMA NoneIsNoVlan == None \notin Reserved /\ UnauthenticatedVlan \notin TestingVlan /\ None # UnauthenticatedVlan
BY NoneAssumption, VlanAssumption DEF Reserved

LEMMA SafeInit == Init => Safe
<1> SUFFICES ASSUME Init PROVE Safe
  OBVIOUS
<1> USE NoneIsNoVlan
<1>1. \A w \in Worker : flush[w].pc = "idle"
  BY RestIsFlushing DEF Init
<1>2. OneFlush /\ \A w \in Worker : FlushOK(w)
  BY <1>1 DEF OneFlush, InProgress, FlushOK, Drawing
<1>3. HeldOK /\ HeardOK
  BY DEF Init, HeldOK, HeardOK
<1>4. ConfigOK
  BY DEF Init, ConfigOK, PortsOK, Reserved
<1> QED BY <1>2, <1>3, <1>4 DEF Safe

\* A call takes nothing from what the invariant says of the VLANs that stay reserved.
LEMMA CallSafe ==
    ASSUME Shape, Safe, InputChanged PROVE Safe'
<1> USE DEF outputs
<1>1. /\ Reserved' \subseteq Reserved
      /\ Reserved \cup changed \subseteq Reserved' \cup changed'
  <2>1. Reserved \subseteq TestingVlan /\ Reserved' \subseteq TestingVlan \ changed'
    BY DEF Reserved
  <2> QED BY <2>1 DEF InputChanged
<1>2. UNCHANGED <<testingVlan, config, told, unaware>>
  BY DEF InputChanged
<1>3. ASSUME NEW w \in Worker, flush'[w].pc \in {"place", "update", "store"}
      PROVE  /\ InProgress(w) /\ flush'[w].pc = flush[w].pc /\ flush'[w].mac = flush[w].mac
             /\ flush'[w].moved = flush[w].moved /\ flush'[w].placement = flush[w].placement
             /\ flush'[w].available = flush[w].available /\ flush'[w].drawn = flush[w].drawn
             /\ flush'[w].vlans = flush[w].vlans
             /\ flush'[w].wavered = flush[w].wavered \cup Released'
  <2>1. flush[w] \in Flushing
    BY DEF Shape, TypeOK
  <2>2. InProgress(w) /\ flush'[w] = [flush[w] EXCEPT !.wavered = @ \cup Released']
    BY <1>3, RestIsFlushing DEF InputChanged
  <2> QED BY <2>1, <2>2 DEF Flushing
<1>4. OneFlush'
  BY <1>3 DEF Safe, OneFlush, InProgress
<1>5. HeldOK'
  BY <1>1, <1>2 DEF Safe, HeldOK
<1>6. HeardOK'
  BY <1>1, <1>2 DEF Safe, HeardOK
<1>7. ASSUME NEW w \in Worker, flush[w].pc = "store" PROVE flush'[w].pc = "store"
  <2>1. InProgress(w) /\ flush[w] \in Flushing
    BY <1>7 DEF InProgress, Shape, TypeOK
  <2>2. flush'[w] = [flush[w] EXCEPT !.wavered = @ \cup Released']
    BY <2>1 DEF InputChanged
  <2> QED BY <1>7, <2>1, <2>2 DEF Flushing
<1>8. ConfigOK'
  BY <1>1, <1>2, <1>7 DEF Safe, ConfigOK, PortsOK
<1>9. ASSUME NEW w \in Worker PROVE FlushOK(w)'
  <2>1. CASE Drawing(w)'
    <3>1. flush'[w].pc \in {"place", "update", "store"} /\ Drawing(w)
      BY <2>1, <1>3 DEF Drawing
    <3>2. /\ AvailableOK(w) /\ DrawnOK(w) /\ PortsOK(flush[w].vlans, flush[w].drawn)
          /\ KeptOK(w) /\ ToldOK(w) /\ MovedOK(w)
      BY <3>1 DEF Safe, FlushOK
    <3>3. \A m : Reports(w, m)' <=> Reports(w, m)
      BY <1>3, <3>1 DEF Reports
    <3>4. AvailableOK(w)'
      BY <1>1, <1>2, <1>3, <3>1, <3>2 DEF AvailableOK
    <3>5. DrawnOK(w)'
      BY <1>1, <1>2, <1>3, <3>1, <3>2, <3>3 DEF DrawnOK
    <3>6. PortsOK(flush[w].vlans, flush[w].drawn)'
      BY <1>1, <1>3, <3>1, <3>2 DEF PortsOK
    <3>7. KeptOK(w)'
      BY <1>2, <1>3, <3>1, <3>2, <3>3 DEF KeptOK, Released
    <3>8. ToldOK(w)'
      BY <1>1, <1>2, <1>3, <3>1, <3>2, <3>3 DEF ToldOK
    <3>9. MovedOK(w)'
      BY <1>2, <1>3, <3>1, <3>2 DEF MovedOK
    <3> QED BY <2>1, <3>4, <3>5, <3>6, <3>7, <3>8, <3>9 DEF FlushOK, Drawing
  <2>2. CASE flush'[w].pc = "store"
    <3>1. flush[w].pc = "store" /\ flush'[w].vlans = flush[w].vlans
      BY <2>2, <1>3
    <3>2. PortsOK(flush[w].vlans, testingVlan)
      BY <3>1 DEF Safe, FlushOK
    <3>3. PortsOK(flush[w].vlans, testingVlan)'
      BY <1>1, <1>2, <3>1, <3>2 DEF PortsOK
    <3> QED BY <2>2, <3>3 DEF FlushOK, Drawing
  <2> QED BY <2>1, <2>2 DEF FlushOK
<1> QED BY <1>4, <1>5, <1>6, <1>8, <1>9 DEF Safe

\* A step of a flush that does not touch the segments; nobody else is flushing.
LEMMA OnlyFlush ==
    ASSUME OneFlush, NEW w \in Worker, InProgress(w),
           \A v \in Worker \ {w} : flush'[v] = flush[v]
    PROVE  /\ OneFlush'
           /\ \A v \in Worker \ {w} : FlushOK(v)' /\ flush[v].pc # "store" /\ flush'[v].pc # "store"
<1>1. ASSUME NEW v \in Worker \ {w} PROVE flush'[v].pc \notin {"place", "update", "store"}
  BY DEF OneFlush, InProgress
<1> QED BY <1>1 DEF OneFlush, InProgress, FlushOK, Drawing

LEMMA BeginSafe ==
    ASSUME Shape, Safe, NEW w \in Worker, Begin(w), ~torn' PROVE Safe'
<1> USE NoneIsNoVlan DEF outputs, inputs
<1>1. /\ UNCHANGED <<inputs, outputs, changed, unaware>>
      /\ Reserved' = Reserved /\ Sequestered' = Sequestered
  BY DEF Begin, Reserved, Sequestered, Placement
<1>2. \A v \in Worker \ {w} : ~InProgress(v) /\ flush'[v] = flush[v]
  BY BeginEffect DEF Begin, Shape
<1>3. OneFlush' /\ \A v \in Worker \ {w} : FlushOK(v)'
  BY <1>2 DEF OneFlush, InProgress, FlushOK, Drawing
<1>4. HeldOK' /\ HeardOK'
  BY <1>1 DEF Safe, HeldOK, HeardOK
<1>5. /\ flush[w].pc = "begin" /\ flush'[w].pc = "place"
      /\ flush'[w].available = AvailableTestingVlans
      /\ flush'[w].placement =
            [m \in Mac |-> IF Placement(m) \in structural THEN Placement(m) ELSE None]
      /\ flush'[w].wavered = Released
      /\ flush'[w].drawn = [m \in Mac |-> None]
      /\ flush'[w].vlans = [p \in Port |-> UnauthenticatedVlan]
  BY BeginEffect DEF Shape
<1>6. ConfigOK'
  <2>1. (\A v \in Worker : flush'[v].pc # "store") => \A v \in Worker : flush[v].pc # "store"
    BY <1>2, <1>5
  <2> QED BY <1>1, <2>1 DEF Safe, ConfigOK, PortsOK
<1>7. FlushOK(w)'
  <2>1. AvailableOK(w)'
    <3>1. ASSUME NEW v \in AvailableTestingVlans
          PROVE  /\ v \in Reserved \cup changed /\ v # None
                 /\ \A m \in Mac : testingVlan[m] # v
      BY NoneAssumption DEF AvailableTestingVlans, Reserved
    <3> QED BY <1>1, <1>5, <3>1 DEF AvailableOK
  <2>2. DrawnOK(w)' /\ ToldOK(w)'
    BY <1>1, <1>5 DEF DrawnOK, ToldOK
  <2>3. PortsOK(flush[w].vlans, flush[w].drawn)'
    BY <1>5 DEF PortsOK, Reserved
  <2>4. KeptOK(w)'
    <3>1. \A m \in Mac : m \in Sequestered => flush'[w].placement[m] # None
      BY <1>5, ConfigAssumption, NoneAssumption DEF Sequestered, Shape, TypeOK
    <3> QED BY <1>1, <1>5, <3>1 DEF KeptOK, Released, Reports
  <2>5. MovedOK(w)'
    BY <1>5 DEF MovedOK
  <2> QED BY <1>5, <2>1, <2>2, <2>3, <2>4, <2>5 DEF FlushOK
<1> QED BY <1>3, <1>4, <1>6, <1>7 DEF Safe

\* A flush that ends by an exception leaves nothing.
LEMMA RaiseSafe ==
    ASSUME Shape, Safe, NEW w \in Worker, RaiseOnly(w), Drawing(w),
           \A v \in Worker \ {w} : flush'[v] = flush[v],
           UNCHANGED <<inputs, outputs, history>>
    PROVE  Safe'
<1> USE DEF outputs, inputs, history
<1>1. InProgress(w)
  BY DEF InProgress, Drawing
<1>2. OneFlush' /\ \A v \in Worker \ {w} : FlushOK(v)'
  BY <1>1, OnlyFlush DEF Safe
<1>3. FlushOK(w)'
  BY DEF FlushOK, Drawing, RaiseOnly
<1>4. Reserved' = Reserved
  BY DEF Reserved
<1>5. HeldOK' /\ HeardOK'
  BY <1>4 DEF Safe, HeldOK, HeardOK
<1>6. \A v \in Worker : flush[v].pc # "store"
  BY <1>1, OnlyFlush DEF Safe, Drawing
<1>7. ConfigOK'
  BY <1>4, <1>6 DEF Safe, ConfigOK, PortsOK
<1> QED BY <1>2, <1>3, <1>5, <1>7 DEF Safe

LEMMA SkipSafe ==
    ASSUME Shape, Safe, NEW w \in Worker, NEW m \in Mac, SkipEffect(w, m),
           flush[w].pc = "place", flush[w].placement[m] # None,
           m \in Sequestered => testingVlan[m] = None,
           \A v \in Worker \ {w} : flush'[v] = flush[v],
           UNCHANGED <<inputs, outputs, history>>
    PROVE  Safe'
<1> USE DEF outputs, inputs, history
<1>1. InProgress(w) /\ Drawing(w)
  BY DEF InProgress, Drawing
<1>2. OneFlush' /\ \A v \in Worker \ {w} : FlushOK(v)'
  BY <1>1, OnlyFlush DEF Safe
<1>3. Reserved' = Reserved /\ Sequestered' = Sequestered
  BY DEF Reserved, Sequestered, Placement
<1>4. HeldOK' /\ HeardOK'
  BY <1>3 DEF Safe, HeldOK, HeardOK
<1>5. \A v \in Worker : flush[v].pc # "store"
  BY <1>1, OnlyFlush DEF Safe
<1>6. ConfigOK'
  BY <1>3, <1>5 DEF Safe, ConfigOK, PortsOK
<1>7. FlushOK(w)'
  <2>1. /\ AvailableOK(w) /\ DrawnOK(w) /\ PortsOK(flush[w].vlans, flush[w].drawn)
        /\ KeptOK(w) /\ ToldOK(w)
    BY <1>1 DEF Safe, FlushOK
  <2>2. flush[w].placement \in [Mac -> Port \cup {None}]
    BY DEF Shape, TypeOK, Flushing
  <2>3. \A n \in Mac : ~Reports(w, n) /\ ~Reports(w, n)'
    BY DEF Reports, SkipEffect
  <2>4. AvailableOK(w)'
    BY <1>3, <2>1 DEF AvailableOK, SkipEffect
  <2>5. DrawnOK(w)'
    BY <1>3, <2>1, <2>2, <2>3 DEF DrawnOK, SkipEffect
  <2>6. PortsOK(flush[w].vlans, flush[w].drawn)'
    BY <1>3, <2>1 DEF PortsOK, SkipEffect
  <2>7. KeptOK(w)'
    BY <1>3, <2>1, <2>2, <2>3 DEF KeptOK, SkipEffect
  <2>8. ToldOK(w)'
    BY <1>3, <2>1, <2>3 DEF ToldOK, SkipEffect
  <2>9. MovedOK(w)'
    BY DEF MovedOK, SkipEffect
  <2> QED BY <2>4, <2>5, <2>6, <2>7, <2>8, <2>9 DEF FlushOK, SkipEffect
<1> QED BY <1>2, <1>4, <1>6, <1>7 DEF Safe

LEMMA PlaceEffectSafe ==
    ASSUME Shape, Safe, NEW w \in Worker, NEW m \in Mac, NEW vlan, PlaceEffect(w, m, vlan),
           flush[w].pc = "place", flush[w].placement[m] \in Port,
           \A v \in Worker \ {w} : flush'[v] = flush[v],
           UNCHANGED <<inputs, outputs, history>>
    PROVE  Safe'
<1> USE NoneIsNoVlan DEF outputs, inputs, history
<1> DEFINE p == flush[w].placement[m]
           tested == behavior[m] = SequesterSegment
<1>1. InProgress(w) /\ Drawing(w)
  BY DEF InProgress, Drawing
<1>2. OneFlush' /\ \A v \in Worker \ {w} : FlushOK(v)'
  BY <1>1, OnlyFlush DEF Safe
<1>3. Reserved' = Reserved /\ Sequestered' = Sequestered
  BY DEF Reserved, Sequestered, Placement
<1>4. HeldOK' /\ HeardOK'
  BY <1>3 DEF Safe, HeldOK, HeardOK
<1>5. \A v \in Worker : flush[v].pc # "store"
  BY <1>1, OnlyFlush DEF Safe
<1>6. ConfigOK'
  BY <1>3, <1>5 DEF Safe, ConfigOK, PortsOK
<1>7. FlushOK(w)'
  <2>1. /\ AvailableOK(w) /\ DrawnOK(w) /\ PortsOK(flush[w].vlans, flush[w].drawn)
        /\ KeptOK(w) /\ ToldOK(w)
    BY <1>1 DEF Safe, FlushOK
  <2>2. /\ flush[w].placement \in [Mac -> Port \cup {None}] /\ flush[w].vlans \in [Port -> Vlan]
        /\ flush[w].drawn \in [Mac -> TestingVlan \cup {None}] /\ flush[w].available \subseteq TestingVlan
        /\ testingVlan \in [Mac -> TestingVlan \cup {None}]
    BY DEF Shape, TypeOK, Flushing
  <2>3. /\ \A n \in Mac : ~Reports(w, n) /\ (Reports(w, n)' <=> n = m)
        /\ flush'[w].pc = "update" /\ flush'[w].mac = m /\ flush'[w].placement = flush[w].placement
        /\ flush'[w].wavered = flush[w].wavered
    BY DEF Reports, PlaceEffect
  <2>4. /\ flush'[w].vlans = [flush[w].vlans EXCEPT ![p] = vlan]
        /\ flush'[w].drawn = [flush[w].drawn EXCEPT ![m] = IF tested THEN vlan ELSE None]
        /\ flush'[w].available = IF tested THEN flush[w].available \ {vlan} ELSE flush[w].available
        /\ vlan # None
    BY DEF PlaceEffect
  <2>5. tested => /\ vlan \in TestingVlan
                  /\ testingVlan[m] # None => vlan = testingVlan[m]
                  /\ testingVlan[m] = None => vlan \in flush[w].available
    BY <2>2, VlanIdIsVlan DEF PlaceEffect, Shape
  <2>6. ~tested => vlan \notin Reserved
    BY <2>2, <2>4, VlanIdIsVlan DEF PlaceEffect, Shape, Reserved
  <2>7. flush[w].drawn[m] = None
    BY <2>1, <2>3, NoneAssumption DEF DrawnOK
  <2>8. tested => /\ vlan \in Reserved \cup changed
                  /\ \A n \in Mac : flush[w].drawn[n] # vlan
    <3>1. CASE tested /\ testingVlan[m] # None
      BY <2>1, <2>5, <2>7, <3>1 DEF DrawnOK, HeldOK, Safe
    <3>2. CASE tested /\ testingVlan[m] = None
      BY <2>1, <2>5, <3>2 DEF AvailableOK
    <3> QED BY <3>1, <3>2
  <2> HIDE DEF p, tested
  <2>9. AvailableOK(w)'
    BY <1>3, <2>1, <2>2, <2>4, NoneAssumption DEF AvailableOK
  <2>10. DrawnOK(w)'
    <3>1. \A n \in Mac : flush'[w].drawn[n] \in Reserved' \cup changed' \cup {None}
      BY <1>3, <2>1, <2>2, <2>4, <2>8 DEF DrawnOK
    <3>2. \A n \in Mac : flush'[w].drawn[n] # None /\ testingVlan[n] # None =>
             flush'[w].drawn[n] = testingVlan[n]
      BY <2>1, <2>2, <2>4, <2>5 DEF DrawnOK
    <3>3. \A n, k \in Mac : flush'[w].drawn[n] # None /\ testingVlan[n] = None =>
             testingVlan[k] # flush'[w].drawn[n]
      BY <2>1, <2>2, <2>4, <2>5 DEF DrawnOK, AvailableOK
    <3>4. \A n, k \in Mac : n # k /\ flush'[w].drawn[n] # None => flush'[w].drawn[n] # flush'[w].drawn[k]
      BY <2>1, <2>2, <2>4, <2>8 DEF DrawnOK
    <3>5. \A n \in Mac : flush'[w].placement[n] # None => flush'[w].drawn[n] = None \/ Reports(w, n)'
      BY <2>1, <2>2, <2>3, <2>4 DEF DrawnOK
    <3> QED BY <3>1, <3>2, <3>3, <3>4, <3>5 DEF DrawnOK
  <2>11. PortsOK(flush[w].vlans, flush[w].drawn)'
    <3>1. ASSUME NEW q \in Port, flush'[w].vlans[q] \in Reserved
          PROVE  \E n \in Mac : flush'[w].drawn[n] = flush'[w].vlans[q]
      <4>1. CASE q = p
        BY <2>2, <2>4, <2>6, <3>1, <4>1
      <4>2. CASE q # p
        BY <2>1, <2>2, <2>4, <2>7, <3>1, <4>2 DEF PortsOK
      <4> QED BY <4>1, <4>2
    <3>2. ASSUME NEW n \in Mac, NEW q \in Port, NEW r \in Port,
                 flush'[w].drawn[n] \in Reserved, flush'[w].vlans[q] = flush'[w].drawn[n],
                 flush'[w].vlans[r] = flush'[w].drawn[n]
          PROVE  q = r
      <4>1. CASE n = m
        <5>1. tested /\ flush'[w].drawn[n] = vlan
          BY <2>2, <2>4, <3>2, <4>1
        <5>2. \A k \in Port : flush[w].vlans[k] # vlan
          BY <2>1, <2>8, <3>2, <5>1 DEF PortsOK
        <5> QED BY <2>2, <2>4, <3>2, <5>1, <5>2
      <4>2. CASE n # m
        <5>1. flush'[w].drawn[n] = flush[w].drawn[n]
          BY <2>2, <2>4, <4>2
        <5>2. flush[w].drawn[n] # vlan
          BY <2>6, <2>8, <3>2, <5>1
        <5> QED BY <2>1, <2>2, <2>4, <3>2, <5>1, <5>2 DEF PortsOK
      <4> QED BY <4>1, <4>2
    <3> QED BY <1>3, <3>1, <3>2 DEF PortsOK
  <2>12. KeptOK(w)'
    <3>1. ASSUME NEW n \in Mac, testingVlan[n] # None, n \notin flush[w].wavered
          PROVE  /\ n \in Sequestered
                 /\ flush'[w].placement[n] = None \/ n = m => flush'[w].drawn[n] = testingVlan[n]
      <4>1. n \in Sequestered
        BY <2>1, <3>1 DEF KeptOK
      <4>2. CASE n = m
        BY <2>2, <2>4, <2>5, <3>1, <4>1, <4>2 DEF Sequestered, tested
      <4>3. CASE n # m
        BY <2>1, <2>2, <2>3, <2>4, <3>1, <4>1, <4>3 DEF KeptOK
      <4> QED BY <4>1, <4>2, <4>3
    <3> QED BY <1>3, <2>3, <3>1 DEF KeptOK
  <2>13. ToldOK(w)'
    BY <1>3, <2>1, <2>2, <2>3, <2>4 DEF ToldOK
  <2>14. MovedOK(w)'
    BY <2>2, <2>3, <2>4 DEF MovedOK, PlaceEffect, p
  <2> QED BY <2>3, <2>9, <2>10, <2>11, <2>12, <2>13, <2>14 DEF FlushOK
<1> QED BY <1>2, <1>4, <1>6, <1>7 DEF Safe

LEMMA PlaceSafe ==
    ASSUME Shape, Safe, NEW w \in Worker, NEW m \in Mac, Place(w, m) PROVE Safe'
<1>1. /\ flush[w].pc = "place" /\ flush[w].placement[m] \in Port
      /\ \A v \in Worker \ {w} : flush'[v] = flush[v]
      /\ SkipEffect(w, m) \/ RaiseOnly(w) \/ \E vlan : PlaceEffect(w, m, vlan)
  BY PlaceShape DEF Shape
<1>2. UNCHANGED <<inputs, outputs, history>>
  BY DEF Place
<1>3. Drawing(w) /\ flush[w].placement[m] # None
  BY <1>1, NoneAssumption DEF Drawing
<1>4. CASE SkipEffect(w, m)
  <2>1. m \in Sequestered => testingVlan[m] = None
    <3> SUFFICES ASSUME m \in Sequestered, testingVlan[m] # None PROVE FALSE
      OBVIOUS
    <3>1. VlanId(m, flush[w].available) = {testingVlan[m]}
      BY NoneAssumption DEF VlanId, Sequestered
    <3> QED BY <1>4, <3>1 DEF SkipEffect
  <2> QED BY <1>1, <1>2, <1>3, <1>4, <2>1, SkipSafe
<1>5. CASE RaiseOnly(w)
  BY <1>1, <1>2, <1>3, <1>5, RaiseSafe
<1>6. CASE \E vlan : PlaceEffect(w, m, vlan)
  BY <1>1, <1>2, <1>6, PlaceEffectSafe
<1> QED BY <1>1, <1>4, <1>5, <1>6

LEMMA UpdateSafe ==
    ASSUME Shape, Safe, NEW w \in Worker, Update(w) PROVE Safe'
<1> USE NoneIsNoVlan DEF inputs
<1> DEFINE f == flush[w]
           m == f.mac
           vlan == f.vlans[f.placement[m]]
           tell == f.moved /\ behavior[m] = SequesterSegment
<1>1. /\ f.pc = "update"
      /\ \A v \in Worker \ {w} : flush'[v] = flush[v]
      /\ UpdateEffect(w) \/ (RaiseOnly(w) /\ UNCHANGED <<told, unaware>>)
  BY UpdateShape DEF Shape
<1>2. UNCHANGED <<inputs, testingVlan, config, calls, torn, changed>>
  BY DEF Update
<1>3. InProgress(w) /\ Drawing(w)
  BY <1>1 DEF InProgress, Drawing
<1>4. CASE RaiseOnly(w) /\ UNCHANGED <<told, unaware>>
  BY <1>1, <1>2, <1>3, <1>4, RaiseSafe DEF outputs, history
<1>5. CASE UpdateEffect(w)
  <2>1. OneFlush' /\ \A v \in Worker \ {w} : FlushOK(v)'
    BY <1>1, <1>3, OnlyFlush DEF Safe
  <2>2. Reserved' = Reserved /\ Sequestered' = Sequestered
    BY <1>2 DEF Reserved, Sequestered, Placement
  <2>3. \A v \in Worker : flush[v].pc # "store"
    BY <1>1, <1>3, OnlyFlush DEF Safe
  <2>4. ConfigOK'
    BY <1>2, <2>2, <2>3 DEF Safe, ConfigOK, PortsOK
  <2>5. HeldOK'
    BY <1>2, <2>2 DEF Safe, HeldOK
  <2>6. /\ AvailableOK(w) /\ DrawnOK(w) /\ PortsOK(f.vlans, f.drawn)
        /\ KeptOK(w) /\ ToldOK(w) /\ MovedOK(w)
    BY <1>3 DEF Safe, FlushOK
  <2>7. /\ m \in Mac /\ f.placement[m] \in Port /\ f.placement \in [Mac -> Port \cup {None}]
        /\ told \in [Mac -> Vlan \cup {None}] /\ unaware \subseteq Mac
        /\ f.drawn \in [Mac -> TestingVlan \cup {None}]
    BY <1>1 DEF Shape, Reporting, TypeOK, Flushing
  <2>8. /\ config # None /\ f.moved = (config[f.placement[m]] # vlan)
        /\ f.drawn[m] \in {None, vlan}
    BY <1>1, <2>6 DEF MovedOK
  <2>9. /\ told' = IF tell THEN [told EXCEPT ![m] = vlan] ELSE told
        /\ unaware' = CASE tell /\ f.drawn[m] # None                -> unaware \ {m}
                        [] tell \/ (f.moved /\ f.drawn[m] # None) -> unaware \cup {m}
                        [] OTHER                                  -> unaware
        /\ flush'[w].pc = "place" /\ flush'[w].placement = [f.placement EXCEPT ![m] = None]
        /\ flush'[w].available = f.available /\ flush'[w].drawn = f.drawn
        /\ flush'[w].vlans = f.vlans /\ flush'[w].wavered = f.wavered
    BY <1>5 DEF UpdateEffect
  <2>10. \A n \in Mac : ~Reports(w, n)' /\ (Reports(w, n) <=> n = m)
    BY <1>1, <2>9 DEF Reports
  \* The reporter knows a drawn VLAN, or is told of it, or misses it.
  <2>11. f.drawn[m] \in Reserved => told'[m] = f.drawn[m] \/ m \in unaware'
    <3> SUFFICES ASSUME f.drawn[m] \in Reserved PROVE told'[m] = f.drawn[m] \/ m \in unaware'
      OBVIOUS
    <3>1. f.drawn[m] = vlan /\ f.drawn[m] # None
      BY <2>8
    <3>2. CASE tell
      BY <2>7, <2>9, <3>1, <3>2
    <3>3. CASE ~tell /\ f.moved
      <4>1. unaware' = unaware \cup {m}
        BY <2>9, <3>1, <3>3
      <4> QED BY <4>1
    <3>4. CASE ~f.moved
      <4>1. told' = told /\ unaware' = unaware
        BY <2>9, <3>4
      <4>2. config[f.placement[m]] \in Reserved /\ config[f.placement[m]] = f.drawn[m]
        BY <2>8, <3>1, <3>4
      <4>3. PICK n \in Mac : testingVlan[n] = f.drawn[m]
        BY <2>3, <2>7, <2>8, <4>2 DEF Safe, ConfigOK, PortsOK
      <4>4. testingVlan[m] = f.drawn[m]
        BY <2>6, <2>7, <3>1, <4>3 DEF DrawnOK
      <4> QED BY <2>7, <4>1, <4>4 DEF Safe, HeardOK
    <3> QED BY <3>2, <3>3, <3>4
  <2>12. \A n \in Mac \ {m} : told'[n] = told[n] /\ (n \in unaware' <=> n \in unaware)
    <3>1. unaware' \in {unaware \ {m}, unaware \cup {m}, unaware}
      BY <2>9
    <3> QED BY <2>7, <2>9, <3>1
  <2>13. HeardOK'
    <3>1. ASSUME testingVlan[m] \in Reserved PROVE told'[m] = testingVlan[m] \/ m \in unaware'
      <4>1. told[m] = testingVlan[m] \/ m \in unaware
        BY <2>7, <3>1 DEF Safe, HeardOK
      <4>2. CASE f.drawn[m] # None
        BY <2>6, <2>7, <2>11, <3>1, <4>2 DEF DrawnOK
      <4>3. CASE f.drawn[m] = None /\ tell
        <5>1. unaware' = unaware \cup {m}
          BY <2>9, <4>3
        <5> QED BY <5>1
      <4>4. CASE f.drawn[m] = None /\ ~tell
        <5>1. told' = told /\ unaware' = unaware
          BY <2>9, <4>4
        <5> QED BY <4>1, <5>1
      <4> QED BY <4>2, <4>3, <4>4
    <3> QED BY <1>2, <2>2, <2>7, <2>12, <3>1 DEF Safe, HeardOK
  <2>14. FlushOK(w)'
    <3>1. AvailableOK(w)'
      BY <1>2, <2>2, <2>6, <2>9 DEF AvailableOK
    <3>2. DrawnOK(w)'
      BY <1>2, <2>2, <2>6, <2>7, <2>9, <2>10 DEF DrawnOK
    <3>3. PortsOK(flush[w].vlans, flush[w].drawn)'
      BY <2>2, <2>6, <2>9 DEF PortsOK
    <3>4. KeptOK(w)'
      BY <1>2, <2>2, <2>6, <2>7, <2>9, <2>10 DEF KeptOK
    <3>5. ToldOK(w)'
      <4>1. ASSUME NEW n \in Mac, f.drawn[n] \in Reserved
            PROVE  told'[n] = f.drawn[n] \/ n \in unaware'
        BY <2>6, <2>10, <2>11, <2>12, <4>1 DEF ToldOK
      <4> QED BY <2>2, <2>9, <4>1 DEF ToldOK
    <3>6. MovedOK(w)'
      BY <2>9 DEF MovedOK
    <3> QED BY <2>9, <3>1, <3>2, <3>3, <3>4, <3>5, <3>6 DEF FlushOK
  <2> QED BY <2>1, <2>4, <2>5, <2>13, <2>14 DEF Safe
<1> QED BY <1>1, <1>4, <1>5

\* What a flush has drawn becomes the testing VLANs, which the stored VLANs agree with.
LEMMA FinalizeEffect ==
    ASSUME Shape, Safe, NEW w \in Worker, FinalizeHostPortsConfig(w)
    PROVE  /\ testingVlan' = flush[w].drawn
           /\ UNCHANGED <<inputs, config, lock, calls, torn, changed>>
           /\ told' = [m \in Mac |-> IF flush[w].drawn[m] = None THEN None ELSE told[m]]
           /\ unaware' = {m \in unaware : flush[w].drawn[m] # None}
           /\ flush[w].pc = "place" /\ \A m \in Mac : flush[w].placement[m] = None
           /\ InProgress(w) /\ DrawnOK(w) /\ KeptOK(w) /\ ToldOK(w)
           /\ PortsOK(flush[w].vlans, flush[w].drawn)
<1>1. flush[w].pc = "place" /\ Drawing(w) /\ InProgress(w)
  BY DEF FinalizeHostPortsConfig, Drawing, InProgress
<1>2. DrawnOK(w) /\ KeptOK(w) /\ ToldOK(w) /\ PortsOK(flush[w].vlans, flush[w].drawn)
  BY <1>1 DEF Safe, FlushOK
<1> QED BY <1>1, <1>2 DEF FinalizeHostPortsConfig

LEMMA FinalizeSafe ==
    ASSUME Shape, Safe, NEW w \in Worker, FinalizeHostPortsConfig(w) PROVE Safe'
<1> USE NoneIsNoVlan DEF inputs
<1> DEFINE drawn == flush[w].drawn
<1>1. /\ testingVlan' = drawn
      /\ UNCHANGED <<inputs, config, lock, calls, torn, changed>>
      /\ told' = [m \in Mac |-> IF drawn[m] = None THEN None ELSE told[m]]
      /\ unaware' = {m \in unaware : drawn[m] # None}
      /\ flush[w].pc = "place" /\ InProgress(w) /\ DrawnOK(w) /\ ToldOK(w)
      /\ PortsOK(flush[w].vlans, drawn)
  BY FinalizeEffect
<1>2. /\ flush'[w].pc = "store" /\ flush'[w].vlans = flush[w].vlans
      /\ \A v \in Worker \ {w} : flush'[v] = flush[v]
  BY FinalizeShape DEF Shape
<1>3. OneFlush' /\ \A v \in Worker \ {w} : FlushOK(v)'
  BY <1>1, <1>2, OnlyFlush DEF Safe
<1>4. \A v \in Worker : flush[v].pc # "store"
  BY <1>1, <1>2, OnlyFlush DEF Safe
<1>5. Reserved' = Reserved /\ \A m \in Mac : ~Reports(w, m)
  BY <1>1 DEF Reserved, Reports
<1>6. HeldOK'
  BY <1>1, <1>5 DEF HeldOK, DrawnOK
<1>7. HeardOK'
  BY <1>1, <1>5 DEF HeardOK, ToldOK
<1>8. ConfigOK'
  <2> SUFFICES ASSUME config # None, NEW m \in Mac, NEW p \in Port, NEW q \in Port,
                      drawn[m] \in Reserved, config[p] = drawn[m], config[q] = drawn[m]
               PROVE  p = q
    BY <1>1, <1>2, <1>5 DEF ConfigOK
  <2>1. PortsOK(config, testingVlan)
    BY <1>4 DEF Safe, ConfigOK
  <2>2. PICK n \in Mac : testingVlan[n] = drawn[m]
    BY <2>1 DEF PortsOK
  <2>3. testingVlan[m] = drawn[m]
    BY <1>1, <2>2 DEF DrawnOK
  <2> QED BY <2>1, <2>3 DEF PortsOK
<1>9. FlushOK(w)'
  <2>1. PortsOK(flush[w].vlans, testingVlan)'
    BY <1>1, <1>2, <1>5 DEF PortsOK
  <2> QED BY <1>2, <2>1 DEF FlushOK, Drawing
<1> QED BY <1>3, <1>6, <1>7, <1>8, <1>9 DEF Safe

LEMMA StoreSafe ==
    ASSUME Shape, Safe, NEW w \in Worker, Store(w) PROVE Safe'
<1> USE DEF inputs, history
<1>1. /\ flush[w].pc = "store" /\ config' = flush[w].vlans
      /\ UNCHANGED <<inputs, testingVlan, told, calls, history>>
  BY DEF Store
<1>2. flush'[w].pc = "idle" /\ \A v \in Worker \ {w} : flush'[v] = flush[v]
  BY StoreShape DEF Shape
<1>3. OneFlush' /\ \A v \in Worker \ {w} : FlushOK(v)'
  BY <1>1, <1>2, OnlyFlush DEF Safe, InProgress
<1>4. FlushOK(w)'
  BY <1>2 DEF FlushOK, Drawing
<1>5. Reserved' = Reserved
  BY <1>1 DEF Reserved
<1>6. HeldOK' /\ HeardOK'
  BY <1>1, <1>5 DEF Safe, HeldOK, HeardOK
<1>7. ConfigOK'
  <2>1. PortsOK(flush[w].vlans, testingVlan)
    BY <1>1 DEF Safe, FlushOK
  <2> QED BY <1>1, <1>5, <2>1 DEF ConfigOK, PortsOK
<1> QED BY <1>3, <1>4, <1>6, <1>7 DEF Safe

\* Once two flushes have overlapped, they have.
LEMMA TornStays ==
    ASSUME NEW w \in Worker, FlushStep(w), torn PROVE torn'
BY DEF FlushStep, Begin, Place, Update, FinalizeHostPortsConfig, Store, history

LEMMA InvStep == IInv /\ [Next]_vars => IInv'
<1> SUFFICES ASSUME Shape, ~torn => Safe, [Next]_vars PROVE IInv'
  BY DEF IInv
<1>1. Shape'
  BY ShapeStep
<1> SUFFICES ASSUME ~torn' PROVE Safe'
  BY <1>1 DEF IInv
<1>2. CASE UNCHANGED vars
  <2>1. Safe
    BY <1>2 DEF vars, history
  <2>2. Reserved' = Reserved /\ Sequestered' = Sequestered
    BY <1>2 DEF Reserved, Sequestered, Placement, vars, inputs, history
  <2>3. UNCHANGED <<outputs, flush, changed, unaware>>
    BY <1>2 DEF vars, history
  <2> USE DEF outputs, Reports, Drawing, PortsOK
  <2>4. OneFlush' /\ HeldOK' /\ HeardOK' /\ ConfigOK'
    BY <2>1, <2>2, <2>3 DEF Safe, OneFlush, InProgress, HeldOK, HeardOK, ConfigOK
  <2>5. ASSUME NEW w \in Worker PROVE FlushOK(w)'
    <3>1. FlushOK(w)
      BY <2>1 DEF Safe
    <3>2. /\ AvailableOK(w) => AvailableOK(w)'
          /\ DrawnOK(w) => DrawnOK(w)'
      BY <2>2, <2>3 DEF AvailableOK, DrawnOK
    <3>3. /\ KeptOK(w) => KeptOK(w)'
          /\ ToldOK(w) => ToldOK(w)'
          /\ MovedOK(w) => MovedOK(w)'
      BY <2>2, <2>3 DEF KeptOK, ToldOK, MovedOK
    <3> QED BY <2>2, <2>3, <3>1, <3>2, <3>3 DEF FlushOK
  <2> QED BY <2>4, <2>5 DEF Safe
<1>3. CASE InputChanged
  BY <1>3, CallSafe DEF InputChanged
<1>4. ASSUME NEW w \in Worker, FlushStep(w) PROVE Safe'
  <2>1. Safe
    BY <1>4, TornStays
  <2> QED BY <1>4, <2>1, BeginSafe, PlaceSafe, UpdateSafe, FinalizeSafe, StoreSafe DEF FlushStep
<1> QED BY <1>2, <1>3, <1>4, StepShape DEF Shape

LEMMA Invariant == Spec => []IInv
<1>1. Init => IInv
  BY ShapeInit, SafeInit DEF IInv
<1> QED BY <1>1, InvStep, PTL DEF Spec

-----------------------------------------------------------------------------
(* The properties. *)

\* A VLAN that no reload has touched is reserved, if a device is tested in it.
LEMMA HeldIsReserved ==
    ASSUME Safe, NEW m \in Mac, testingVlan[m] \notin changed \cup {None}
    PROVE  testingVlan[m] \in Reserved
BY DEF Safe, HeldOK

\* No two devices are tested in one VLAN: _finalize_host_ports_config replaces the testing
\* VLANs by what one flush has drawn, whatever the calls of other threads have changed since
\* it began, unless it has overlapped with another flush.
THEOREM TestingVlansAreDistinct == Spec => []TestingVlansDistinct
<1>1. IInv => TestingVlansDistinct
  BY DEF IInv, Safe, HeldOK, TestingVlansDistinct
<1> QED BY <1>1, Invariant, PTL

\* A sequestered device shares its VLAN with no other port, also while the configuration is
\* older than the testing VLANs, and though testing VLANs and those of the segments overlap.
THEOREM SequesteredDevicesAreAlone == Spec => []SequesteredIsAlone
<1>1. IInv => SequesteredIsAlone
  <2> SUFFICES ASSUME IInv, config # None, ~torn, NEW m \in Mac,
                      testingVlan[m] \notin changed \cup {None},
                      NEW p \in Port, NEW q \in Port,
                      config[p] = testingVlan[m], config[q] = testingVlan[m]
               PROVE  p = q
    BY DEF SequesteredIsAlone
  <2>1. Safe
    BY DEF IInv
  <2>2. testingVlan[m] \in Reserved
    BY <2>1, HeldIsReserved
  <2> QED BY <2>1, <2>2 DEF Safe, ConfigOK
<1> QED BY <1>1, Invariant, PTL

\* The reporter knows the testing VLAN of every device, though it is told only if the VLAN of
\* the port changes: a port that is in a reserved VLAN already is the device's own.
THEOREM ReporterKnowsVlans == Spec => []ReporterIsUpToDate
<1>1. IInv => ReporterIsUpToDate
  <2> SUFFICES ASSUME IInv, ~torn, NEW m \in Mac, testingVlan[m] \notin changed \cup {None}
               PROVE  told[m] = testingVlan[m] \/ m \in unaware
    BY DEF ReporterIsUpToDate
  <2>1. Safe
    BY DEF IInv
  <2>2. testingVlan[m] \in Reserved
    BY <2>1, HeldIsReserved
  <2> QED BY <2>1, <2>2 DEF Safe, HeardOK
<1> QED BY <1>1, Invariant, PTL

\* The testing VLANs change where a flush finalizes them only.
LEMMA OnlyFinalizes ==
    ASSUME Shape, [Next]_vars, testingVlan' # testingVlan
    PROVE  \E w \in Worker : FinalizeHostPortsConfig(w)
<1>1. ~InputChanged
  BY DEF InputChanged, outputs
<1>2. PICK w \in Worker : FlushStep(w)
  BY <1>1, StepShape DEF Shape, vars, outputs
<1> QED BY <1>2 DEF FlushStep, Begin, Place, Update, Store, outputs

\* A flush draws no VLAN for a device that another one had before or that a segment uses.
THEOREM DrawnVlansAreFree == Spec => DrawnIsFree
<1>1. IInv /\ [Next]_vars => [~torn => \A m \in Mac : testingVlan'[m] \notin {testingVlan[m], None} =>
           /\ testingVlan'[m] \notin OperationalVlans(segmentsToVlans') \ changed
           /\ \A n \in Mac : testingVlan[n] # testingVlan'[m]]_vars
  <2> SUFFICES ASSUME IInv, [Next]_vars, ~torn, NEW m \in Mac,
                      testingVlan'[m] \notin {testingVlan[m], None}
               PROVE  /\ testingVlan'[m] \notin OperationalVlans(segmentsToVlans') \ changed
                      /\ \A n \in Mac : testingVlan[n] # testingVlan'[m]
    OBVIOUS
  <2>1. Shape /\ Safe
    BY DEF IInv
  <2>2. PICK w \in Worker : FinalizeHostPortsConfig(w)
    BY <2>1, OnlyFinalizes
  <2>3. testingVlan' = flush[w].drawn /\ DrawnOK(w) /\ segmentsToVlans' = segmentsToVlans
    BY <2>1, <2>2, FinalizeEffect DEF inputs
  <2>4. testingVlan'[m] \in Reserved \cup changed
    BY <2>3 DEF DrawnOK
  <2>5. \A n \in Mac : testingVlan[n] # testingVlan'[m]
    BY <2>3 DEF DrawnOK
  <2> QED BY <2>3, <2>4, <2>5 DEF Reserved
<1> QED BY <1>1, Invariant, PTL DEF Spec, DrawnIsFree

\* A device keeps its testing VLAN, unless it was not sequestered at some time in the flush.
THEOREM TestingVlansAreKept == Spec => TestingVlanIsKept
<1>1. IInv /\ [Next]_vars => [~torn => \A m \in Mac : testingVlan[m] # None =>
           testingVlan'[m] = testingVlan[m] \/ \E w \in Worker : m \in flush[w].wavered]_vars
  <2> SUFFICES ASSUME IInv, [Next]_vars, ~torn, NEW m \in Mac, testingVlan[m] # None,
                      testingVlan'[m] # testingVlan[m]
               PROVE  \E w \in Worker : m \in flush[w].wavered
    OBVIOUS
  <2>1. Shape /\ Safe
    BY DEF IInv
  <2>2. PICK w \in Worker : FinalizeHostPortsConfig(w)
    BY <2>1, OnlyFinalizes
  <2>3. testingVlan' = flush[w].drawn /\ KeptOK(w) /\ flush[w].placement[m] = None
    BY <2>1, <2>2, FinalizeEffect
  <2> QED BY <2>3 DEF KeptOK
<1> QED BY <1>1, Invariant, PTL DEF Spec, TestingVlanIsKept

=============================================================================
