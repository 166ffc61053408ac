--------------------------- MODULE FaucetStateProofs ---------------------------
(***************************************************************************)
(* What is proved of the two halves of the Faucet state collector, for     *)
(* every number of switches, ports and hosts and every stack.              *)
(*                                                                         *)
(* Dataplane: the summary is right once everything is handled, a topology  *)
(* is never replaced by an older one, and none waits longer than the two   *)
(* coalescing times, however events, restorations and the heartbeat come.  *)
(*                                                                         *)
(* LearnedHosts, at the end: the tables of the hosts and of the switches   *)
(* agree, and results are shown of learned hosts only, whoever interrupts  *)
(* whom; the locks are held by the threads that are inside them.           *)
(***************************************************************************)
EXTENDS Dataplane, FiniteSetTheorems, TLAPS

LEMMA Constants ==
    /\ SwitchOf \in [Port -> Switch]
    /\ StackPort \subseteq Port /\ 0 \notin Port /\ EgressPort \subseteq Port
    /\ \A p \in StackPort : Peer[p] \in StackPort /\ Peer[Peer[p]] = p
    /\ Listed \subseteq StackPort
    /\ CoalesceSec \in Nat /\ MaxChanges \in Nat /\ MaxQueue \in Nat /\ MaxRestores \in Nat
    /\ AgeCap \in Nat /\ AgeCap = 2 * CoalesceSec + 2
    /\ StackStates \subseteq {"init", "broken", "up"} /\ "up" \in StackStates
    /\ None \notin Nat /\ None \notin StackStates /\ None \notin Topology
    /\ None \notin {"active", "up", "down", "CONNECTED", "DOWN"}
BY ConfigAssumption, NoneAssumption DEF EgressPort, NoPort, AgeCap, StackPort

-----------------------------------------------------------------------------
(* The events on their way. *)

About(e, type, x) == e.type = type /\ (IF type = "dp" THEN e.switch = x ELSE e.port = x)

\* The last event about x says what it is, and without one that is known.
Follows(q, type, x, known, is) ==
    /\ (\A i \in 1 .. Len(q) : ~About(q[i], type, x)) => known
    /\ \A i \in 1 .. Len(q) :
           About(q[i], type, x) /\ (\A j \in 1 .. Len(q) : About(q[j], type, x) => j <= i) => q[i].value = is

\* The topologies `have' are none after those of q, and those none after the stamp `last'.
Ordered(q, have, last) ==
    /\ \A t \in have : t.stamp <= last
    /\ \A t \in have : \A i \in 1 .. Len(q) : q[i].type = "topo" => t.stamp <= q[i].value.stamp
    /\ \A i \in 1 .. Len(q) : q[i].type = "topo" => q[i].value.stamp <= last
    /\ \A i, j \in 1 .. Len(q) :
           q[i].type = "topo" /\ q[j].type = "topo" /\ i <= j => q[i].value.stamp <= q[j].value.stamp

LEMMA EventKinds ==
    ASSUME NEW e \in Event
    PROVE  /\ e.type \in {"lag", "stack", "topo", "dp", "config"}
           /\ e.type = "lag" => e.port \in EgressPort /\ e.value \in Lacp
           /\ e.type = "stack" => e.port \in StackPort /\ e.value \in StackStates
           /\ e.type = "topo" => e.value \in Topology
           /\ e.type = "dp" => e.switch \in Switch /\ e.value \in BOOLEAN
           /\ e.type = "config" => e.switch \in Switch
BY DEF Event

LEMMA Appended ==
    ASSUME NEW q \in Seq(Event), NEW e \in Event
    PROVE  /\ Append(q, e) \in Seq(Event) /\ Len(Append(q, e)) = Len(q) + 1 /\ Len(q) \in Nat
           /\ Append(q, e)[Len(q) + 1] = e
           /\ \A i \in 1 .. Len(q) : Append(q, e)[i] = q[i]
           /\ q \o <<e>> = Append(q, e)
OBVIOUS

LEMMA Taken ==
    ASSUME NEW q \in Seq(Event), q # <<>>
    PROVE  /\ Tail(q) \in Seq(Event) /\ Len(Tail(q)) = Len(q) - 1 /\ Len(q) \in Nat \ {0}
           /\ Head(q) = q[1] /\ Head(q) \in Event
           /\ \A i \in 1 .. Len(q) - 1 : Tail(q)[i] = q[i + 1]
OBVIOUS

LEMMA FollowsAppended ==
    ASSUME NEW q \in Seq(Event), NEW e \in Event, NEW type, NEW x, NEW known, NEW now, NEW was, NEW is,
           Follows(q, type, x, known, was),
           IF About(e, type, x) THEN e.value = is ELSE is = was /\ (known => now)
    PROVE  Follows(Append(q, e), type, x, now, is)
<1> DEFINE r == Append(q, e)
           n == Len(q) + 1
<1>1. Len(r) = n /\ r[n] = e /\ n \in Nat /\ n > 0 /\ (\A i \in 1 .. Len(q) : r[i] = q[i]) /\ Len(q) = n - 1
  BY Appended
<1> HIDE DEF r, n
<1>2. CASE About(e, type, x)
  BY <1>1, <1>2 DEF Follows, r
<1>3. CASE ~About(e, type, x)
  <2>1. \A i \in 1 .. n : About(r[i], type, x) => i \in 1 .. n - 1 /\ About(q[i], type, x) /\ r[i] = q[i]
    BY <1>1, <1>3
  <2>2. \A i \in 1 .. n - 1 : About(q[i], type, x) <=> About(r[i], type, x)
    BY <1>1
  <2> QED BY <1>1, <1>3, <2>1, <2>2 DEF Follows, r
<1> QED BY <1>2, <1>3

LEMMA FollowsTaken ==
    ASSUME NEW q \in Seq(Event), q # <<>>, NEW type, NEW x, NEW known, NEW now, NEW is,
           Follows(q, type, x, known, is),
           IF About(Head(q), type, x) THEN Head(q).value = is => now ELSE known => now
    PROVE  Follows(Tail(q), type, x, now, is)
<1> DEFINE r == Tail(q)
           n == Len(q) - 1
<1>1. Len(r) = n /\ n \in Nat /\ (\A i \in 1 .. n : r[i] = q[i + 1]) /\ Len(q) = n + 1 /\ Head(q) = q[1]
  BY Taken
<1> HIDE DEF r, n
<1>2. ASSUME \A i \in 1 .. Len(r) : ~About(r[i], type, x) PROVE now
  <2>1. \A j \in 1 .. Len(q) : About(q[j], type, x) => j = 1
    <3> TAKE j \in 1 .. Len(q)
    <3>1. j # 1 => j - 1 \in 1 .. n /\ r[j - 1] = q[j]
      BY <1>1
    <3> QED BY <1>1, <1>2, <3>1
  <2> QED BY <1>1, <2>1 DEF Follows
<1>3. ASSUME NEW i \in 1 .. Len(r), About(r[i], type, x), \A j \in 1 .. Len(r) : About(r[j], type, x) => j <= i
      PROVE  r[i].value = is
  <2>1. i + 1 \in 1 .. Len(q) /\ q[i + 1] = r[i]
    BY <1>1
  <2>2. \A j \in 1 .. Len(q) : About(q[j], type, x) => j <= i + 1
    <3> TAKE j \in 1 .. Len(q)
    <3>1. j # 1 => j - 1 \in 1 .. n /\ r[j - 1] = q[j]
      BY <1>1
    <3> QED BY <1>1, <1>3, <3>1
  <2> QED BY <1>3, <2>1, <2>2 DEF Follows
<1> QED BY <1>2, <1>3 DEF Follows, r

LEMMA OrderedAppended ==
    ASSUME NEW q \in Seq(Event), NEW e \in Event, NEW have, NEW last \in Nat, Ordered(q, have, last),
           \A t \in have : t.stamp \in Nat,
           \A i \in 1 .. Len(q) : q[i].type = "topo" => q[i].value.stamp \in Nat,
           NEW now \in Nat,
           IF e.type = "topo" THEN e.value.stamp = now /\ last <= now ELSE now = last
    PROVE  Ordered(Append(q, e), have, now)
<1> DEFINE r == Append(q, e)
           n == Len(q) + 1
<1>1. Len(r) = n /\ r[n] = e /\ n \in Nat /\ n > 0 /\ (\A i \in 1 .. Len(q) : r[i] = q[i]) /\ Len(q) = n - 1
  BY Appended
<1> HIDE DEF r, n
<1>2. \A t \in have : t.stamp <= now
  BY DEF Ordered
<1>3. \A i \in 1 .. n : r[i].type = "topo" => r[i].value.stamp <= now /\ r[i].value.stamp \in Nat
  BY <1>1 DEF Ordered
<1>4. \A i \in 1 .. n : r[i].type = "topo" => \A t \in have : t.stamp <= r[i].value.stamp
  BY <1>1 DEF Ordered
<1>5. \A i, j \in 1 .. n : r[i].type = "topo" /\ r[j].type = "topo" /\ i <= j => r[i].value.stamp <= r[j].value.stamp
  <2> TAKE i, j \in 1 .. n
  <2>1. CASE j = n
    BY <1>1, <1>3, <2>1
  <2>2. CASE j # n /\ i <= j
    <3>1. i \in 1 .. Len(q) /\ j \in 1 .. Len(q) /\ r[i] = q[i] /\ r[j] = q[j]
      BY <1>1, <2>2
    <3> QED BY <3>1, <2>2 DEF Ordered
  <2> QED BY <2>1, <2>2
<1> QED BY <1>1, <1>2, <1>3, <1>4, <1>5 DEF Ordered, r

LEMMA OrderedTaken ==
    ASSUME NEW q \in Seq(Event), q # <<>>, NEW have, NEW last \in Nat, Ordered(q, have, last),
           NEW now, now \subseteq have \/ (Head(q).type = "topo" /\ now \subseteq have \cup {Head(q).value})
    PROVE  Ordered(Tail(q), now, last)
<1> DEFINE r == Tail(q)
           n == Len(q) - 1
<1>1. Len(r) = n /\ n \in Nat /\ (\A i \in 1 .. n : r[i] = q[i + 1]) /\ Len(q) = n + 1 /\ Head(q) = q[1]
  BY Taken
<1> HIDE DEF r, n
<1>2. \A i \in 1 .. n : i + 1 \in 1 .. Len(q) /\ 1 <= i + 1
  BY <1>1
<1>3. 1 \in 1 .. Len(q)
  BY <1>1
<1>4. \A t \in now : t.stamp <= last
  BY <1>1, <1>3 DEF Ordered
<1>5. \A t \in now : \A i \in 1 .. n : r[i].type = "topo" => t.stamp <= r[i].value.stamp
  BY <1>1, <1>2, <1>3 DEF Ordered
<1>6. \A i, j \in 1 .. n : r[i].type = "topo" /\ r[j].type = "topo" /\ i <= j => r[i].value.stamp <= r[j].value.stamp
  <2> TAKE i, j \in 1 .. n
  <2> QED BY <1>1, <1>2 DEF Ordered
<1> QED BY <1>1, <1>2, <1>4, <1>5, <1>6 DEF Ordered, r

-----------------------------------------------------------------------------
(* The invariants. *)

\* The loads of a configuration that are counted are changes; a heartbeat that is under way
\* has a topology before it; there is none without coalescing.
Waits ==
    /\ \A s \in Switch : faucet.loads[s] <= changes + 1
    /\ heartbeat.at # "idle" => stackData # None
    /\ CoalesceSec = 0 => stackData = None

\* The hops of Faucet's topology go over links that are up.
HopsAreUp ==
    \A s \in Switch :
        LET p == faucet.topo.dps[s]
        IN  p # NoPort => p \in StackPort /\ SwitchOf[p] = s /\ LinkIsUp(faucet.stack, p)

\* The topologies on their way are in the order of their stamps: applied, taken by the
\* heartbeat, stored, in the queue, in Faucet.
Have == {topo, stackData, heartbeat.data} \ {None}
InOrder ==
    /\ topo # None /\ heartbeat.data # None => topo.stamp <= heartbeat.data.stamp
    /\ topo # None /\ stackData # None => topo.stamp <= stackData.stamp
    /\ heartbeat.data # None /\ stackData # None => heartbeat.data.stamp <= stackData.stamp
    /\ Ordered(queue, Have, faucet.topo.stamp)
    /\ faucet.topo.stamp <= changes

\* While a topology waits for the heartbeat, its time runs no faster than that of the update.
Timely ==
    /\ stackData # None => waiting # None
    /\ stackData # None /\ heartbeat.at = "idle" =>
           updateAge # None /\ waiting <= updateAge /\ waiting <= 2 * CoalesceSec

\* Once restored, what is known follows Faucet event by event.
StacksFollow ==
    restores > 0 => \A p \in StackPort :
        Follows(queue, "stack", p, linksState[p] = faucet.stack[p], faucet.stack[p])
LagFollows ==
    restores > 0 =>
        /\ egress = EgressState(egressLinks)
        /\ \A p \in EgressPort :
            Follows(queue, "lag", p, egressLinks[p] = LacpLinkState(faucet.lacp[p]), faucet.lacp[p])
Known(connected) == IF connected THEN "CONNECTED" ELSE "DOWN"
SwitchesFollow ==
    restores > 0 => \A s \in Switch :
        Follows(queue, "dp", s, swState[s] = Known(faucet.connected[s]), faucet.connected[s])

\* The inductive invariant.
DataplaneInvariant ==
    /\ TypeOK /\ Waits /\ HopsAreUp /\ InOrder /\ Timely
    /\ StacksFollow /\ LagFollows /\ SwitchesFollow

FaucetType ==
    [stack : [StackPort -> StackStates], lacp : [EgressPort -> Lacp], connected : [Switch -> BOOLEAN],
     loads : [Switch -> 1 .. MaxChanges + 1], topo : Topology]

LEMMA FaucetFields ==
    ASSUME NEW f \in FaucetType
    PROVE  /\ f.stack \in [StackPort -> StackStates] /\ f.lacp \in [EgressPort -> Lacp]
           /\ f.connected \in [Switch -> BOOLEAN] /\ f.loads \in [Switch -> 1 .. MaxChanges + 1]
           /\ f.topo \in Topology
BY DEF FaucetType

\* g is f with the stack ports x and the topology t.
StackSet(f, g, x, t) ==
    /\ g \in FaucetType /\ g.stack = x /\ g.topo = t /\ g.lacp = f.lacp
    /\ g.connected = f.connected /\ g.loads = f.loads

LEMMA FaucetExcept ==
    ASSUME NEW f \in FaucetType, NEW x \in [StackPort -> StackStates], NEW t \in Topology
    PROVE  StackSet(f, [f EXCEPT !.stack = x, !.topo = t], x, t)
BY DEF FaucetType, StackSet

LEMMA TopologyFields ==
    ASSUME NEW t \in Topology
    PROVE  /\ t.root \in Switch /\ t.links \subseteq Listed /\ t.dps \in Hops /\ t.stamp \in 0 .. MaxChanges
           /\ t.stamp \in Nat
BY DEF Topology

LEMMA TopologyExcept ==
    ASSUME NEW t \in Topology, NEW l \in SUBSET Listed, NEW h \in Hops
    PROVE  [t EXCEPT !.links = l, !.dps = h] \in Topology /\ [t EXCEPT !.links = l, !.dps = h].stamp = t.stamp
BY DEF Topology

LEMMA LacpIsShown == \A v \in Lacp : LacpLinkState(v) \in LinkState
BY DEF LacpLinkState, LinkState

LEMMA EgressIsState == \A links : EgressState(links) \in State \ {"unknown"}
BY DEF EgressState, State

\* A hop of Faucet that has changed already.
LEMMA HopMoves ==
    ASSUME NEW h \in Hops, NEW s \in Switch, NEW p \in StackPort, SwitchOf[p] = s
    PROVE  [h EXCEPT ![s] = p] \in Hops
<1> DEFINE d == [h EXCEPT ![s] = p]
<1>1. h \in [Switch -> StackPort \cup {NoPort}] /\ \A x \in Switch : h[x] # NoPort => SwitchOf[h[x]] = x
  BY DEF Hops
<1>2. d \in [Switch -> StackPort \cup {NoPort}] /\ \A x \in Switch : d[x] = IF x = s THEN p ELSE h[x]
  BY <1>1
<1> HIDE DEF d
<1>3. d \in Hops
  BY <1>1, <1>2 DEF Hops
<1> QED BY <1>3 DEF d

LEMMA Trees ==
    ASSUME NEW state, NEW root, NEW h \in TreesOf(state, root)
    PROVE  h \in Hops /\ \A s \in Switch : h[s] # NoPort => h[s] \in StackPort /\ SwitchOf[h[s]] = s /\ LinkIsUp(state, h[s])
BY DEF TreesOf

\* An event that is sent or not, and the event of a topology.
Put(q, some, e) == IF some THEN Append(q, e) ELSE q
TopoEvent(t) == [type |-> "topo", value |-> t]

\* A change of the stack ports or of the root: the topology and the queue after it.
LEMMA StackEffect ==
    ASSUME DataplaneInvariant, changes < MaxChanges,
           NEW state \in [StackPort -> StackStates], NEW root \in Switch, NEW dps \in TreesOf(state, root),
           NEW a \in BOOLEAN, NEW e \in Event,
           StackChange(state, root, dps, IF a THEN <<e>> ELSE <<>>)
    PROVE  \E b \in BOOLEAN, t \in Topology :
               /\ StackSet(faucet, faucet', state, t)
               /\ queue' = Put(Put(queue, a, e), b, TopoEvent(t))
               /\ IF b THEN t.stamp = changes + 1 ELSE t = faucet.topo
               /\ \A s \in Switch : t.dps[s] # NoPort => t.dps[s] \in StackPort /\ SwitchOf[t.dps[s]] = s
                                                       /\ LinkIsUp(state, t.dps[s])
<1> DEFINE new == TopologyOf(state, root, dps, changes + 1)
           old == faucet.topo
           same == [new EXCEPT !.stamp = old.stamp] = old
<1>1. faucet \in FaucetType /\ queue \in Seq(Event) /\ changes \in 0 .. MaxChanges
  BY DEF DataplaneInvariant, TypeOK, FaucetType
<1>2. old \in Topology
  BY <1>1, FaucetFields
<1>3. new \in Topology /\ new.stamp = changes + 1 /\ new.dps = dps
  BY <1>1, Trees, Constants DEF TopologyOf, Topology, GraphOf
<1>4. PICK t \in Topology : t = IF same THEN old ELSE new
  BY <1>2, <1>3
<1>5. t.dps = dps
  <2>1. CASE same
    <3>1. [new EXCEPT !.stamp = old.stamp].dps = new.dps
      BY <1>3 DEF Topology
    <3> QED BY <1>3, <1>4, <2>1, <3>1
  <2>2. CASE ~same
    BY <1>3, <1>4, <2>2
  <2> QED BY <2>1, <2>2
<1>6. StackSet(faucet, faucet', state, t)
  <2>1. faucet' = [faucet EXCEPT !.stack = state, !.topo = t]
    BY <1>4 DEF StackChange
  <2>2. StackSet(faucet, [faucet EXCEPT !.stack = state, !.topo = t], state, t)
    BY <1>1, FaucetExcept
  <2> QED BY ONLY <2>1, <2>2, Zenon
<1>7. queue' = queue \o (IF a THEN <<e>> ELSE <<>>) \o (IF same THEN <<>> ELSE <<TopoEvent(t)>>)
  BY <1>4 DEF StackChange, TopoEvent
<1>8. queue \o (IF a THEN <<e>> ELSE <<>>) = Put(queue, a, e) /\ Put(queue, a, e) \in Seq(Event)
  BY <1>1, Appended DEF Put
<1>9. TopoEvent(t) \in Event
  BY <1>4 DEF TopoEvent, Event
<1>10. queue' = Put(Put(queue, a, e), ~same, TopoEvent(t))
  <2> HIDE DEF same
  <2>1. CASE same
    BY <1>7, <1>8, <2>1 DEF Put
  <2>2. CASE ~same
    BY <1>7, <1>8, <1>9, <2>2, Appended DEF Put
  <2> QED BY <2>1, <2>2
<1>11. IF ~same THEN t.stamp = changes + 1 ELSE t = faucet.topo
  BY <1>3, <1>4
<1> HIDE DEF same
<1>12. PICK b \in BOOLEAN : b = ~same
  OBVIOUS
<1> QED BY <1>5, <1>6, <1>10, <1>11, <1>12, Trees

-----------------------------------------------------------------------------
(* Changes in Faucet. *)

LEMMA QueueOfChange ==
    ASSUME NEW q \in Seq(Event), NEW a \in BOOLEAN, NEW e \in Event, NEW b \in BOOLEAN, NEW t \in Topology
    PROVE  Put(Put(q, a, e), b, TopoEvent(t)) \in Seq(Event) /\ Put(q, a, e) \in Seq(Event) /\ TopoEvent(t) \in Event
<1>1. TopoEvent(t) \in Event
  BY DEF TopoEvent, Event
<1>2. Put(q, a, e) \in Seq(Event)
  BY Appended DEF Put
<1> QED BY <1>1, <1>2, Appended DEF Put

LEMMA FollowsTopo ==
    ASSUME NEW q \in Seq(Event), NEW t \in Topology, NEW type \in {"lag", "stack", "dp"}, NEW x, NEW known, NEW is,
           NEW b \in BOOLEAN, Follows(q, type, x, known, is)
    PROVE  Follows(Put(q, b, TopoEvent(t)), type, x, known, is)
<1>1. CASE b
  <2>1. TopoEvent(t) \in Event /\ ~About(TopoEvent(t), type, x)
    BY DEF TopoEvent, Event, About
  <2>2. Follows(Append(q, TopoEvent(t)), type, x, known, is)
    BY <2>1, FollowsAppended
  <2> QED BY <1>1, <2>2 DEF Put
<1>2. CASE ~b
  BY <1>2 DEF Put
<1> QED BY <1>1, <1>2

\* The stamps are numbers.
LEMMA Stamps ==
    ASSUME DataplaneInvariant
    PROVE  /\ \A t \in Have : t \in Topology /\ t.stamp \in Nat
           /\ \A i \in 1 .. Len(queue) : queue[i].type = "topo" => queue[i].value \in Topology /\ queue[i].value.stamp \in Nat
           /\ faucet \in FaucetType /\ faucet.topo \in Topology /\ faucet.topo.stamp \in Nat
           /\ queue \in Seq(Event) /\ changes \in Nat
<1>1. faucet \in FaucetType /\ queue \in Seq(Event) /\ changes \in Nat
  BY Constants DEF DataplaneInvariant, TypeOK, FaucetType
<1>2. faucet.topo \in Topology /\ faucet.topo.stamp \in Nat
  BY <1>1, FaucetFields, TopologyFields
<1>3. \A t \in Have : t \in Topology
  BY DEF DataplaneInvariant, TypeOK, Have
<1>4. \A i \in 1 .. Len(queue) : queue[i].type = "topo" => queue[i].value \in Topology
  BY <1>1, EventKinds
<1> QED BY <1>1, <1>2, <1>3, <1>4, TopologyFields

Rest == <<restores, switches, linksState, lag, stack>>

LEMMA StackChangeKeeps ==
    ASSUME DataplaneInvariant, changes < MaxChanges, changes' = changes + 1, UNCHANGED Rest,
           NEW state \in [StackPort -> StackStates], NEW root \in Switch, NEW dps \in TreesOf(state, root),
           NEW a \in BOOLEAN, NEW e \in Event,
           IF a THEN e.type = "stack" /\ state = [faucet.stack EXCEPT ![e.port] = e.value]
           ELSE state = faucet.stack,
           StackChange(state, root, dps, IF a THEN <<e>> ELSE <<>>)
    PROVE  DataplaneInvariant'
<1> USE DEF Rest, switches, lag, stack, timers
<1>1. PICK b \in BOOLEAN, t \in Topology :
          /\ StackSet(faucet, faucet', state, t)
          /\ queue' = Put(Put(queue, a, e), b, TopoEvent(t))
          /\ IF b THEN t.stamp = changes + 1 ELSE t = faucet.topo
          /\ \A s \in Switch : t.dps[s] # NoPort => t.dps[s] \in StackPort /\ SwitchOf[t.dps[s]] = s
                                                  /\ LinkIsUp(state, t.dps[s])
  <2> HIDE DEF Rest, switches, lag, stack, timers
  <2> QED BY StackEffect
<1>2. faucet \in FaucetType /\ queue \in Seq(Event) /\ changes \in Nat /\ faucet.topo \in Topology /\ faucet.topo.stamp \in Nat
  BY Stamps
<1>3. /\ faucet' \in FaucetType /\ faucet'.stack = state /\ faucet'.topo = t /\ faucet'.lacp = faucet.lacp
      /\ faucet'.connected = faucet.connected /\ faucet'.loads = faucet.loads
  BY <1>1 DEF StackSet
<1>4. queue' \in Seq(Event) /\ Put(queue, a, e) \in Seq(Event) /\ TopoEvent(t) \in Event
  BY <1>1, <1>2, QueueOfChange
<1>5. TypeOK'
  <2>1. TypeOK /\ changes' \in 0 .. MaxChanges
    BY <1>2, Constants DEF DataplaneInvariant
  <2> QED BY <1>3, <1>4, <2>1 DEF TypeOK, FaucetType
<1>6. Waits'
  <2>1. \A s \in Switch : faucet.loads[s] \in Nat
    <3>1. faucet.loads \in [Switch -> 1 .. MaxChanges + 1]
      BY <1>2, FaucetFields
    <3> QED BY <3>1, Constants
  <2> QED BY <1>2, <1>3, <2>1 DEF Waits, DataplaneInvariant
<1>7. HopsAreUp'
  BY <1>1, <1>3 DEF HopsAreUp
<1>8. InOrder'
  <2>1. Have' = Have
    BY DEF Have
  <2>2. Ordered(queue, Have, faucet.topo.stamp) /\ faucet.topo.stamp <= changes
    BY DEF DataplaneInvariant, InOrder
  <2>3. Ordered(Put(queue, a, e), Have, faucet.topo.stamp)
    <3>1. CASE a
      BY <1>2, <2>2, <3>1, OrderedAppended, Stamps DEF Put
    <3>2. CASE ~a
      BY <2>2, <3>2 DEF Put
    <3> QED BY <3>1, <3>2
  <2>4. \A i \in 1 .. Len(Put(queue, a, e)) : Put(queue, a, e)[i].type = "topo" => Put(queue, a, e)[i].value.stamp \in Nat
    <3> DEFINE q == Put(queue, a, e)
    <3> SUFFICES ASSUME NEW i \in 1 .. Len(q), q[i].type = "topo" PROVE q[i].value.stamp \in Nat
      OBVIOUS
    <3>1. q[i] \in Event
      BY <1>4
    <3> QED BY <3>1, EventKinds, TopologyFields
  <2>5. Ordered(queue', Have, t.stamp) /\ t.stamp <= changes + 1
    <3>1. CASE b
      <4>1. t.stamp = changes + 1 /\ t.stamp \in Nat /\ faucet.topo.stamp <= t.stamp
        BY <1>1, <1>2, <2>2, <3>1, Constants
      <4>2. TopoEvent(t).type = "topo" /\ TopoEvent(t).value = t
        BY DEF TopoEvent
      <4>3. Ordered(Append(Put(queue, a, e), TopoEvent(t)), Have, t.stamp)
        BY <1>2, <1>4, <2>3, <2>4, <4>1, <4>2, OrderedAppended, Stamps
      <4> QED BY <1>1, <1>2, <3>1, <4>1, <4>3 DEF Put
    <3>2. CASE ~b
      BY <1>1, <1>2, <2>2, <2>3, <3>2 DEF Put
    <3> QED BY <3>1, <3>2
  <2> QED BY <1>3, <2>1, <2>5 DEF InOrder, DataplaneInvariant
<1>9. Timely'
  BY DEF Timely, DataplaneInvariant
<1>10. \A type \in {"lag", "dp"} : \A x : ~About(e, type, x) \/ ~a
  BY DEF About
<1>11. StacksFollow'
  <2> SUFFICES ASSUME restores > 0, NEW p \in StackPort
               PROVE  Follows(queue', "stack", p, linksState[p] = state[p], state[p])
    BY <1>3 DEF StacksFollow
  <2>1. Follows(queue, "stack", p, linksState[p] = faucet.stack[p], faucet.stack[p])
    BY DEF StacksFollow, DataplaneInvariant
  <2>2. Follows(Put(queue, a, e), "stack", p, linksState[p] = state[p], state[p])
    <3>1. CASE ~a
      BY <2>1, <3>1 DEF Put
    <3>2. CASE a
      <4>1. About(e, "stack", p) <=> e.port = p
        BY <3>2 DEF About
      <4>2. IF e.port = p THEN e.value = state[p] ELSE state[p] = faucet.stack[p]
        BY <3>2, <1>2, FaucetFields, EventKinds
      <4>3. Follows(Append(queue, e), "stack", p, linksState[p] = state[p], state[p])
        BY <1>2, <2>1, <4>1, <4>2, FollowsAppended
      <4> QED BY <3>2, <4>3 DEF Put
    <3> QED BY <3>1, <3>2
  <2> QED BY <1>1, <1>4, <2>2, FollowsTopo
<1>12. LagFollows'
  <2> SUFFICES ASSUME restores > 0, NEW p \in EgressPort
               PROVE  Follows(queue', "lag", p, egressLinks[p] = LacpLinkState(faucet.lacp[p]), faucet.lacp[p])
    BY <1>3 DEF LagFollows, DataplaneInvariant
  <2>1. Follows(queue, "lag", p, egressLinks[p] = LacpLinkState(faucet.lacp[p]), faucet.lacp[p])
    BY DEF LagFollows, DataplaneInvariant
  <2>2. Follows(Put(queue, a, e), "lag", p, egressLinks[p] = LacpLinkState(faucet.lacp[p]), faucet.lacp[p])
    <3>1. CASE a
      <4>1. Follows(Append(queue, e), "lag", p, egressLinks[p] = LacpLinkState(faucet.lacp[p]), faucet.lacp[p])
        BY <1>2, <1>10, <2>1, <3>1, FollowsAppended
      <4> QED BY <3>1, <4>1 DEF Put
    <3>2. CASE ~a
      BY <2>1, <3>2 DEF Put
    <3> QED BY <3>1, <3>2
  <2> QED BY <1>1, <1>4, <2>2, FollowsTopo
<1>13. SwitchesFollow'
  <2> SUFFICES ASSUME restores > 0, NEW s \in Switch
               PROVE  Follows(queue', "dp", s, swState[s] = Known(faucet.connected[s]), faucet.connected[s])
    BY <1>3 DEF SwitchesFollow
  <2>1. Follows(queue, "dp", s, swState[s] = Known(faucet.connected[s]), faucet.connected[s])
    BY DEF SwitchesFollow, DataplaneInvariant
  <2>2. Follows(Put(queue, a, e), "dp", s, swState[s] = Known(faucet.connected[s]), faucet.connected[s])
    <3>1. CASE a
      <4>1. Follows(Append(queue, e), "dp", s, swState[s] = Known(faucet.connected[s]), faucet.connected[s])
        BY <1>2, <1>10, <2>1, <3>1, FollowsAppended
      <4> QED BY <3>1, <4>1 DEF Put
    <3>2. CASE ~a
      BY <2>1, <3>2 DEF Put
    <3> QED BY <3>1, <3>2
  <2> QED BY <1>1, <1>4, <2>2, FollowsTopo
<1> QED BY <1>5, <1>6, <1>7, <1>8, <1>9, <1>11, <1>12, <1>13 DEF DataplaneInvariant

\* A change that is not one of the stack: faucet' says what e says, and nothing else is new.
LEMMA EventKeeps ==
    ASSUME DataplaneInvariant, changes < MaxChanges, changes' = changes + 1, UNCHANGED Rest,
           NEW e \in Event, e.type \in {"lag", "dp", "config"}, queue' = Append(queue, e),
           faucet' \in FaucetType, faucet'.topo = faucet.topo, faucet'.stack = faucet.stack,
           \A s \in Switch : faucet'.loads[s] <= changes + 2,
           \A p \in EgressPort : IF About(e, "lag", p) THEN e.value = faucet'.lacp[p] ELSE faucet'.lacp[p] = faucet.lacp[p],
           \A s \in Switch : IF About(e, "dp", s) THEN e.value = faucet'.connected[s]
                            ELSE faucet'.connected[s] = faucet.connected[s]
    PROVE  DataplaneInvariant'
<1> USE DEF Rest, switches, lag, stack, timers
<1>1. queue \in Seq(Event) /\ changes \in Nat /\ faucet.topo \in Topology /\ faucet.topo.stamp \in Nat
  BY Stamps
<1>2. queue' \in Seq(Event)
  BY <1>1, Appended
<1>3. TypeOK'
  <2>1. TypeOK /\ changes' \in 0 .. MaxChanges
    BY <1>1, Constants DEF DataplaneInvariant
  <2> QED BY <1>2, <2>1 DEF TypeOK, FaucetType
<1>4. Waits'
  <2>1. changes' + 1 = changes + 2
    BY <1>1
  <2> QED BY <2>1 DEF Waits, DataplaneInvariant
<1>5. HopsAreUp'
  BY DEF HopsAreUp, DataplaneInvariant
<1>6. InOrder'
  <2>1. Ordered(queue, Have, faucet.topo.stamp) /\ faucet.topo.stamp <= changes /\ e.type # "topo"
    BY DEF DataplaneInvariant, InOrder
  <2>2. Ordered(Append(queue, e), Have, faucet.topo.stamp)
    BY <1>1, <2>1, OrderedAppended, Stamps
  <2>3. Have' = Have /\ faucet.topo.stamp <= changes + 1
    BY <1>1, <2>1 DEF Have
  <2> QED BY <2>2, <2>3 DEF InOrder, DataplaneInvariant
<1>7. Timely'
  BY DEF Timely, DataplaneInvariant
<1>8. StacksFollow'
  <2> SUFFICES ASSUME restores > 0, NEW p \in StackPort
               PROVE  Follows(queue', "stack", p, linksState[p] = faucet.stack[p], faucet.stack[p])
    BY DEF StacksFollow
  <2>1. Follows(queue, "stack", p, linksState[p] = faucet.stack[p], faucet.stack[p])
    BY DEF StacksFollow, DataplaneInvariant
  <2>2. ~About(e, "stack", p)
    BY DEF About
  <2> QED BY <1>1, <2>1, <2>2, FollowsAppended
<1>9. LagFollows'
  <2> SUFFICES ASSUME restores > 0, NEW p \in EgressPort
               PROVE  Follows(queue', "lag", p, egressLinks[p] = LacpLinkState(faucet'.lacp[p]), faucet'.lacp[p])
    BY DEF LagFollows, DataplaneInvariant
  <2>1. Follows(queue, "lag", p, egressLinks[p] = LacpLinkState(faucet.lacp[p]), faucet.lacp[p])
    BY DEF LagFollows, DataplaneInvariant
  <2> QED BY <1>1, <2>1, FollowsAppended
<1>10. SwitchesFollow'
  <2> SUFFICES ASSUME restores > 0, NEW s \in Switch
               PROVE  Follows(queue', "dp", s, swState[s] = Known(faucet'.connected[s]), faucet'.connected[s])
    BY DEF SwitchesFollow
  <2>1. Follows(queue, "dp", s, swState[s] = Known(faucet.connected[s]), faucet.connected[s])
    BY DEF SwitchesFollow, DataplaneInvariant
  <2> QED BY <1>1, <2>1, FollowsAppended
<1> QED BY <1>3, <1>4, <1>5, <1>6, <1>7, <1>8, <1>9, <1>10 DEF DataplaneInvariant

LEMMA FaucetKeeps == ASSUME DataplaneInvariant, FaucetChanges PROVE DataplaneInvariant'
<1> USE DEF Rest
<1>1. changes < MaxChanges /\ changes' = changes + 1 /\ UNCHANGED Rest
  BY DEF FaucetChanges
<1>2. faucet \in FaucetType /\ queue \in Seq(Event) /\ changes \in Nat
  BY Stamps
<1>3. /\ faucet.stack \in [StackPort -> StackStates] /\ faucet.lacp \in [EgressPort -> Lacp]
      /\ faucet.connected \in [Switch -> BOOLEAN] /\ faucet.loads \in [Switch -> 1 .. MaxChanges + 1]
      /\ faucet.topo \in Topology
  BY <1>2, FaucetFields
<1>4. \A s \in Switch : faucet.loads[s] <= changes + 1 /\ faucet.loads[s] \in 1 .. MaxChanges + 1
  BY <1>3 DEF Waits, DataplaneInvariant
<1>5. ASSUME NEW p \in StackPort, NEW value \in StackStates, StackPortChanges(p, value) PROVE DataplaneInvariant'
  <2> DEFINE state == [faucet.stack EXCEPT ![p] = value]
             e == [type |-> "stack", port |-> p, value |-> value]
  <2>1. PICK dps \in TreesOf(state, faucet.topo.root) : StackChange(state, faucet.topo.root, dps, <<e>>)
    BY <1>5 DEF StackPortChanges
  <2>2. state \in [StackPort -> StackStates] /\ faucet.topo.root \in Switch
    BY <1>3, TopologyFields
  <2>3. e \in Event /\ e.type = "stack" /\ state = [faucet.stack EXCEPT ![e.port] = e.value]
    BY DEF Event
  <2> HIDE DEF e, state, Rest
  <2> DEFINE root == faucet.topo.root
  <2>4. StackChange(state, root, dps, IF TRUE THEN <<e>> ELSE <<>>)
    BY <2>1
  <2> HIDE DEF root
  <2>5. root \in Switch /\ dps \in TreesOf(state, root)
    BY <2>1, <2>2 DEF root
  <2> QED BY <1>1, <2>2, <2>3, <2>4, <2>5, StackChangeKeeps
<1>6. ASSUME NEW root \in Switch, RootChanges(root) PROVE DataplaneInvariant'
  <2>1. PICK dps \in TreesOf(faucet.stack, root) : StackChange(faucet.stack, root, dps, <<>>)
    BY <1>6 DEF RootChanges
  <2> DEFINE e == [type |-> "config", switch |-> root]
             state == faucet.stack
  <2>3. e \in Event
    BY DEF Event
  <2>4. StackChange(state, root, dps, IF FALSE THEN <<e>> ELSE <<>>)
    BY <2>1
  <2>5. state \in [StackPort -> StackStates] /\ dps \in TreesOf(state, root) /\ state = faucet.stack
    BY <1>3, <2>1
  <2> HIDE DEF e, state, Rest
  <2> QED BY <1>1, <2>3, <2>4, <2>5, StackChangeKeeps
<1>7. ASSUME NEW p \in EgressPort, NEW value \in Lacp, LacpChanges(p, value) PROVE DataplaneInvariant'
  <2> DEFINE e == [type |-> "lag", port |-> p, value |-> value]
  <2>1. e \in Event /\ e.type = "lag" /\ queue' = Append(queue, e)
    BY <1>7 DEF LacpChanges, Event
  <2>2. faucet' \in FaucetType /\ faucet'.topo = faucet.topo /\ faucet'.stack = faucet.stack
        /\ faucet'.loads = faucet.loads /\ faucet'.lacp = [faucet.lacp EXCEPT ![p] = value] /\ faucet'.connected = faucet.connected
    BY <1>2, <1>7 DEF LacpChanges, FaucetType
  <2>3. \A q \in EgressPort : IF About(e, "lag", q) THEN e.value = faucet'.lacp[q] ELSE faucet'.lacp[q] = faucet.lacp[q]
    BY <1>3, <2>2 DEF About
  <2>4. \A s \in Switch : ~About(e, "dp", s)
    BY DEF About
  <2>5. \A s \in Switch : faucet'.loads[s] <= changes + 2
    BY <1>2, <1>4, <2>2, Constants
  <2> HIDE DEF e, Rest
  <2> QED BY <1>1, <2>1, <2>2, <2>3, <2>4, <2>5, EventKeeps
<1>8. ASSUME NEW s \in Switch, SwitchChanges(s) PROVE DataplaneInvariant'
  <2>1. faucet' \in FaucetType /\ faucet'.topo = faucet.topo /\ faucet'.stack = faucet.stack
        /\ faucet'.loads = faucet.loads /\ faucet'.lacp = faucet.lacp
        /\ faucet'.connected = [faucet.connected EXCEPT ![s] = ~faucet.connected[s]]
    BY <1>2, <1>8 DEF SwitchChanges, FaucetType
  <2> DEFINE e == [type |-> "dp", switch |-> s, value |-> faucet'.connected[s]]
  <2>2. e \in Event /\ e.type = "dp" /\ queue' = Append(queue, e)
    <3>1. faucet'.connected[s] \in BOOLEAN
      BY <2>1, FaucetFields
    <3> QED BY <1>8, <3>1 DEF SwitchChanges, Event
  <2>3. \A x \in Switch : IF About(e, "dp", x) THEN e.value = faucet'.connected[x] ELSE faucet'.connected[x] = faucet.connected[x]
    BY <1>3, <2>1 DEF About
  <2>4. \A q \in EgressPort : ~About(e, "lag", q)
    BY DEF About
  <2>5. \A x \in Switch : faucet'.loads[x] <= changes + 2
    BY <1>2, <1>4, <2>1, Constants
  <2> HIDE DEF e, Rest
  <2> QED BY <1>1, <2>1, <2>2, <2>3, <2>4, <2>5, EventKeeps
<1>9. ASSUME NEW s \in Switch, ConfigLoads(s) PROVE DataplaneInvariant'
  <2> DEFINE e == [type |-> "config", switch |-> s]
  <2>1. e \in Event /\ e.type = "config" /\ queue' = Append(queue, e)
    BY <1>9 DEF ConfigLoads, Event
  <2>2. faucet.loads[s] + 1 \in 1 .. MaxChanges + 1
    BY <1>1, <1>2, <1>4, Constants
  <2>3. faucet' \in FaucetType /\ faucet'.topo = faucet.topo /\ faucet'.stack = faucet.stack
        /\ faucet'.loads = [faucet.loads EXCEPT ![s] = faucet.loads[s] + 1] /\ faucet'.lacp = faucet.lacp
        /\ faucet'.connected = faucet.connected
    BY <1>2, <1>9, <2>2 DEF ConfigLoads, FaucetType
  <2>4. (\A x \in Switch : ~About(e, "dp", x)) /\ (\A q \in EgressPort : ~About(e, "lag", q))
    BY DEF About
  <2>5. \A x \in Switch : faucet'.loads[x] <= changes + 2
    BY <1>2, <1>3, <1>4, <2>3, Constants
  <2> HIDE DEF e, Rest
  <2> QED BY <1>1, <2>1, <2>3, <2>4, <2>5, EventKeeps
<1> QED BY <1>5, <1>6, <1>7, <1>8, <1>9 DEF FaucetChanges

-----------------------------------------------------------------------------
(* Events and restorations. *)

LEMMA OrderedSome ==
    ASSUME NEW q, NEW have, NEW last, Ordered(q, have, last), NEW now, now \subseteq have
    PROVE  Ordered(q, now, last)
BY DEF Ordered

\* A topology that is stored or applied comes after those that were.
StackTypes ==
    /\ topo \in Topology \cup {None}
    /\ stackData \in Topology \cup {None}
    /\ eventAge \in 0 .. AgeCap
    /\ {updateAge, waiting} \subseteq 0 .. AgeCap \cup {None}
StackOrder ==
    /\ topo # None /\ heartbeat.data # None => topo.stamp <= heartbeat.data.stamp
    /\ topo # None /\ stackData # None => topo.stamp <= stackData.stamp
    /\ heartbeat.data # None /\ stackData # None => heartbeat.data.stamp <= stackData.stamp

LEMMA UpdateKeeps ==
    ASSUME DataplaneInvariant, NEW new \in Topology, \A t \in Have : t.stamp <= new.stamp,
           UpdateStackTopoState(new), heartbeat' = heartbeat
    PROVE  /\ StackTypes' /\ StackOrder' /\ Timely' /\ Have' \subseteq Have \cup {new}
           /\ heartbeat.at # "idle" => stackData' # None
           /\ CoalesceSec = 0 => stackData' = None
<1>1. StackTypes /\ heartbeat.at \in {"idle", "read", "clear"}
      /\ heartbeat.data \in (IF heartbeat.at = "clear" THEN Topology ELSE {None})
  BY DEF DataplaneInvariant, TypeOK, StackTypes
<1>2. Timely /\ StackOrder /\ (heartbeat.at # "idle" => stackData # None) /\ (CoalesceSec = 0 => stackData = None)
  BY DEF DataplaneInvariant, InOrder, Waits, StackOrder
<1>3. new # None /\ None \notin Nat /\ CoalesceSec \in Nat /\ AgeCap = 2 * CoalesceSec + 2 /\ None \notin Topology
  BY Constants
<1>4. CASE CoalesceSec = 0
  <2>1. topo' = new /\ UNCHANGED <<stackData, eventAge, updateAge, waiting>>
    BY <1>4 DEF UpdateStackTopoState, timers
  <2>2. heartbeat.data = None /\ stackData = None
    BY <1>1, <1>2, <1>4
  <2>3. StackTypes'
    BY <1>1, <2>1 DEF StackTypes
  <2>4. StackOrder' /\ Timely'
    BY <2>1, <2>2 DEF StackOrder, Timely
  <2>5. Have' \subseteq Have \cup {new}
    BY <2>1 DEF Have
  <2>6. heartbeat.at = "idle"
    BY <1>2, <2>2
  <2> QED BY <2>1, <2>2, <2>3, <2>4, <2>5, <2>6
<1>5. CASE CoalesceSec # 0
  <2>1. /\ stackData' = new /\ eventAge' = 0 /\ topo' = topo
        /\ updateAge' = IF updateAge = None THEN 0 ELSE updateAge
        /\ waiting' = IF stackData = None THEN 0 ELSE waiting
    BY <1>5 DEF UpdateStackTopoState
  <2>2. StackTypes'
    BY <1>1, <1>3, <2>1 DEF StackTypes
  <2>3. StackOrder'
    BY <1>2, <2>1 DEF StackOrder, Have
  <2>4. Timely'
    <3>1. updateAge \in 0 .. AgeCap \cup {None}
      BY <1>1 DEF StackTypes
    <3>2. CASE stackData = None
      <4>1. waiting' = 0 /\ updateAge' \in Nat
        BY <1>3, <2>1, <3>1, <3>2
      <4>2. waiting' # None /\ updateAge' # None /\ waiting' <= updateAge' /\ waiting' <= 2 * CoalesceSec
        BY <1>3, <4>1
      <4> QED BY <4>2 DEF Timely
    <3>3. CASE stackData # None
      BY <1>2, <2>1, <3>3 DEF Timely
    <3> QED BY <3>2, <3>3
  <2> QED BY <1>3, <1>5, <2>1, <2>2, <2>3, <2>4 DEF Have
<1> QED BY <1>4, <1>5

\* What an event says is known when it is taken; the rest is known as before.
LEMMA TakeFollows ==
    ASSUME DataplaneInvariant, queue # <<>>, queue' = Tail(queue), restores > 0, UNCHANGED <<faucet, restores>>,
           \A p \in StackPort : linksState'[p] = IF About(Head(queue), "stack", p) THEN Head(queue).value ELSE linksState[p],
           \A p \in EgressPort : egressLinks'[p] = IF About(Head(queue), "lag", p) THEN LacpLinkState(Head(queue).value)
                                                ELSE egressLinks[p],
           egress' = EgressState(egressLinks'),
           \A s \in Switch : swState'[s] = IF About(Head(queue), "dp", s) THEN Known(Head(queue).value) ELSE swState[s]
    PROVE  StacksFollow' /\ LagFollows' /\ SwitchesFollow'
<1>1. queue \in Seq(Event)
  BY Stamps
<1>2. StacksFollow'
  <2> SUFFICES ASSUME NEW p \in StackPort
               PROVE  Follows(queue', "stack", p, linksState'[p] = faucet.stack[p], faucet.stack[p])
    BY DEF StacksFollow
  <2>1. Follows(queue, "stack", p, linksState[p] = faucet.stack[p], faucet.stack[p])
    BY DEF StacksFollow, DataplaneInvariant
  <2> QED BY <1>1, <2>1, FollowsTaken
<1>3. LagFollows'
  <2> SUFFICES ASSUME NEW p \in EgressPort
               PROVE  Follows(queue', "lag", p, egressLinks'[p] = LacpLinkState(faucet.lacp[p]), faucet.lacp[p])
    BY DEF LagFollows
  <2>1. Follows(queue, "lag", p, egressLinks[p] = LacpLinkState(faucet.lacp[p]), faucet.lacp[p])
    BY DEF LagFollows, DataplaneInvariant
  <2> QED BY <1>1, <2>1, FollowsTaken
<1>4. SwitchesFollow'
  <2> SUFFICES ASSUME NEW s \in Switch
               PROVE  Follows(queue', "dp", s, swState'[s] = Known(faucet.connected[s]), faucet.connected[s])
    BY DEF SwitchesFollow
  <2>1. Follows(queue, "dp", s, swState[s] = Known(faucet.connected[s]), faucet.connected[s])
    BY DEF SwitchesFollow, DataplaneInvariant
  <2> QED BY <1>1, <2>1, FollowsTaken
<1> QED BY <1>2, <1>3, <1>4

LEMMA ProcessKeeps == ASSUME DataplaneInvariant, ProcessEvent PROVE DataplaneInvariant'
<1> DEFINE e == Head(queue)
<1>1. /\ queue # <<>> /\ restores > 0 /\ queue' = Tail(queue) /\ Handle(e)
      /\ UNCHANGED <<faucet, changes, restores, heartbeat>>
  BY DEF ProcessEvent
<1>2. queue \in Seq(Event) /\ queue' \in Seq(Event) /\ e \in Event
  BY <1>1, Stamps, Taken
<1>3. /\ e.type = "lag" => e.port \in EgressPort /\ e.value \in Lacp
      /\ e.type = "stack" => e.port \in StackPort /\ e.value \in StackStates
      /\ e.type = "topo" => e.value \in Topology
      /\ e.type = "dp" => e.switch \in Switch /\ e.value \in BOOLEAN
      /\ e.type = "config" => e.switch \in Switch
  BY <1>2, EventKinds
<1> HIDE DEF e
<1>4. /\ linksState \in [StackPort -> StackStates \cup {None}]
      /\ egressLinks \in [EgressPort -> LinkState \cup {None}]
      /\ egress \in (State \ {"unknown"}) \cup {None}
      /\ swState \in [Switch -> {"CONNECTED", "DOWN", None}]
      /\ configChanges \in [Switch -> Nat]
      /\ StackTypes
  BY DEF DataplaneInvariant, TypeOK, StackTypes
<1>5. HopsAreUp' /\ egress = EgressState(egressLinks)
  BY <1>1 DEF HopsAreUp, DataplaneInvariant, LagFollows
<1>6. /\ linksState' = IF e.type = "stack" THEN [linksState EXCEPT ![e.port] = e.value] ELSE linksState
      /\ egressLinks' = IF e.type = "lag" THEN LagLinks(egressLinks, e.port, e.value) ELSE egressLinks
      /\ egress' = EgressState(egressLinks')
      /\ swState' = IF e.type = "dp" THEN [swState EXCEPT ![e.switch] = Known(e.value)] ELSE swState
      /\ configChanges' = IF e.type = "config" THEN [configChanges EXCEPT ![e.switch] = @ + 1] ELSE configChanges
      /\ IF e.type = "topo" THEN UpdateStackTopoState(e.value) ELSE UNCHANGED <<topo, stackData, timers>>
  BY <1>1, <1>5 DEF Handle, ProcessLagState, ProcessStackState, ProcessDpChange, ProcessConfigChange, Known, lag, switches
<1>7. StacksFollow' /\ LagFollows' /\ SwitchesFollow'
  <2>1. \A p \in StackPort : linksState'[p] = IF About(e, "stack", p) THEN e.value ELSE linksState[p]
    BY <1>4, <1>6 DEF About
  <2>2. \A p \in EgressPort : egressLinks'[p] = IF About(e, "lag", p) THEN LacpLinkState(e.value) ELSE egressLinks[p]
    BY <1>4, <1>6 DEF About, LagLinks
  <2>3. \A s \in Switch : swState'[s] = IF About(e, "dp", s) THEN Known(e.value) ELSE swState[s]
    BY <1>4, <1>6 DEF About
  <2> QED BY <1>1, <1>6, <2>1, <2>2, <2>3, TakeFollows DEF e
<1>8. /\ linksState' \in [StackPort -> StackStates \cup {None}]
      /\ egressLinks' \in [EgressPort -> LinkState \cup {None}]
      /\ egress' \in (State \ {"unknown"}) \cup {None}
      /\ swState' \in [Switch -> {"CONNECTED", "DOWN", None}]
      /\ configChanges' \in [Switch -> Nat]
  <2>1. linksState' \in [StackPort -> StackStates \cup {None}]
    BY <1>3, <1>4, <1>6
  <2>2. egressLinks' \in [EgressPort -> LinkState \cup {None}]
    BY <1>3, <1>4, <1>6, LacpIsShown DEF LagLinks
  <2>3. egress' \in (State \ {"unknown"}) \cup {None}
    BY <1>6, EgressIsState
  <2>4. swState' \in [Switch -> {"CONNECTED", "DOWN", None}]
    BY <1>3, <1>4, <1>6 DEF Known
  <2>5. configChanges' \in [Switch -> Nat]
    BY <1>3, <1>4, <1>6
  <2> QED BY <2>1, <2>2, <2>3, <2>4, <2>5
<1>9. 1 \in 1 .. Len(queue) /\ e = queue[1]
  BY <1>1, <1>2, Taken DEF e
<1>10. /\ StackTypes' /\ StackOrder' /\ Timely'
       /\ Have' \subseteq Have \/ (e.type = "topo" /\ Have' \subseteq Have \cup {e.value})
       /\ heartbeat.at # "idle" => stackData' # None
       /\ CoalesceSec = 0 => stackData' = None
  <2>1. CASE e.type = "topo"
    <3>1. \A t \in Have : t.stamp <= e.value.stamp
      BY <1>9, <2>1 DEF DataplaneInvariant, InOrder, Ordered
    <3> QED BY <1>1, <1>3, <1>6, <2>1, <3>1, UpdateKeeps
  <2>2. CASE e.type # "topo"
    <3>1. UNCHANGED <<topo, stackData, eventAge, updateAge, waiting, heartbeat>>
      BY <1>1, <1>6, <2>2 DEF timers
    <3> QED BY <1>4, <3>1 DEF StackTypes, StackOrder, Timely, Have, DataplaneInvariant, InOrder, Waits
  <2> QED BY <2>1, <2>2
<1>11. TypeOK'
  <2>1. TypeOK
    BY DEF DataplaneInvariant
  <2> QED BY <1>1, <1>2, <1>8, <1>10, <2>1 DEF TypeOK, StackTypes
<1>12. Waits'
  BY <1>1, <1>10 DEF Waits, DataplaneInvariant
<1>13. InOrder'
  <2>1. Ordered(queue, Have, faucet.topo.stamp) /\ faucet.topo.stamp \in Nat /\ faucet.topo.stamp <= changes
    BY Stamps DEF DataplaneInvariant, InOrder
  <2>2. Ordered(queue', Have', faucet.topo.stamp)
    BY <1>1, <1>2, <1>10, <2>1, OrderedTaken DEF e
  <2> QED BY <1>1, <1>10, <2>1, <2>2 DEF InOrder, StackOrder
<1> QED BY <1>5, <1>7, <1>10, <1>11, <1>12, <1>13 DEF DataplaneInvariant

LEMMA RestoreKeeps ==
    ASSUME DataplaneInvariant, NEW dps \in Hops, NEW b \in BOOLEAN,
           RestoreStates(dps, Put(<<>>, b, TopoEvent(faucet.topo)))
    PROVE  DataplaneInvariant'
<1> DEFINE new == RestoredTopology(faucet.stack, dps)
           t == faucet.topo
<1>1. /\ restores < MaxRestores /\ restores' = restores + 1 /\ queue' = Put(<<>>, b, TopoEvent(t))
      /\ swState' = [s \in Switch |-> Known(faucet.connected[s])]
      /\ configChanges' = [s \in Switch |-> configChanges[s] + faucet.loads[s]]
      /\ linksState' = faucet.stack
      /\ egressLinks' = [p \in EgressPort |-> LacpLinkState(faucet.lacp[p])]
      /\ egress' = EgressState(egressLinks')
      /\ UpdateStackTopoState(new)
      /\ UNCHANGED <<faucet, changes, heartbeat>>
  BY DEF RestoreStates, Known
<1>2. faucet \in FaucetType /\ changes \in Nat /\ t \in Topology /\ t.stamp \in Nat
  BY Stamps
<1>3. /\ faucet.stack \in [StackPort -> StackStates] /\ faucet.lacp \in [EgressPort -> Lacp]
      /\ faucet.connected \in [Switch -> BOOLEAN] /\ faucet.loads \in [Switch -> 1 .. MaxChanges + 1]
  BY <1>2, FaucetFields
<1>4. new \in Topology /\ new.stamp = t.stamp
  BY <1>2, TopologyExcept DEF RestoredTopology
<1>5. <<>> \in Seq(Event) /\ Put(<<>>, b, TopoEvent(t)) \in Seq(Event) /\ TopoEvent(t) \in Event
      /\ (b => Put(<<>>, b, TopoEvent(t)) = Append(<<>>, TopoEvent(t))) /\ (~b => Put(<<>>, b, TopoEvent(t)) = <<>>)
  <2>1. TopoEvent(t) \in Event
    BY <1>2 DEF TopoEvent, Event
  <2>2. <<>> \in Seq(Event)
    OBVIOUS
  <2> QED BY <2>1, <2>2, Appended DEF Put
<1> HIDE DEF new, t
<1>6. \A h \in Have : h.stamp <= t.stamp
  BY DEF DataplaneInvariant, InOrder, Ordered, t
<1>7. /\ StackTypes' /\ StackOrder' /\ Timely' /\ Have' \subseteq Have \cup {new}
      /\ heartbeat.at # "idle" => stackData' # None
      /\ CoalesceSec = 0 => stackData' = None
  BY <1>1, <1>4, <1>6, UpdateKeeps
<1>8. /\ linksState' \in [StackPort -> StackStates \cup {None}]
      /\ egressLinks' \in [EgressPort -> LinkState \cup {None}]
      /\ egress' \in (State \ {"unknown"}) \cup {None}
      /\ swState' \in [Switch -> {"CONNECTED", "DOWN", None}]
      /\ configChanges' \in [Switch -> Nat]
      /\ restores' \in 0 .. MaxRestores
  <2>1. linksState' \in [StackPort -> StackStates \cup {None}]
    BY <1>1, <1>3
  <2>2. egressLinks' \in [EgressPort -> LinkState \cup {None}]
    BY <1>1, <1>3, LacpIsShown
  <2>3. egress' \in (State \ {"unknown"}) \cup {None}
    BY <1>1, EgressIsState
  <2>4. swState' \in [Switch -> {"CONNECTED", "DOWN", None}]
    BY <1>1 DEF Known
  <2>5. configChanges' \in [Switch -> Nat]
    <3>1. \A s \in Switch : configChanges[s] \in Nat /\ faucet.loads[s] \in Nat
      BY <1>3, Constants DEF DataplaneInvariant, TypeOK
    <3> QED BY <1>1, <3>1
  <2>6. restores' \in 0 .. MaxRestores
    BY <1>1, Constants DEF DataplaneInvariant, TypeOK
  <2> QED BY <2>1, <2>2, <2>3, <2>4, <2>5, <2>6
<1>9. TypeOK'
  <2>1. TypeOK
    BY DEF DataplaneInvariant
  <2> QED BY <1>1, <1>5, <1>7, <1>8, <2>1 DEF TypeOK, StackTypes
<1>10. Waits' /\ HopsAreUp'
  BY <1>1, <1>7 DEF Waits, HopsAreUp, DataplaneInvariant
<1>11. InOrder'
  <2>1. \A h \in Have' : h.stamp <= t.stamp /\ h.stamp \in Nat
    BY <1>2, <1>4, <1>6, <1>7, Stamps
  <2>2. Ordered(<<>>, Have', t.stamp)
    BY <2>1 DEF Ordered
  <2>3. Ordered(queue', Have', t.stamp)
    <3>1. CASE b
      <4>1. TopoEvent(t).type = "topo" /\ TopoEvent(t).value = t
        BY DEF TopoEvent
      <4>2. t.stamp <= t.stamp
        BY <1>2
      <4> DEFINE none == <<>>
      <4>3. none \in Seq(Event) /\ Ordered(none, Have', t.stamp)
            /\ \A i \in 1 .. Len(none) : none[i].type = "topo" => none[i].value.stamp \in Nat
        BY <2>2
      <4> HIDE DEF none
      <4>4. Ordered(Append(none, TopoEvent(t)), Have', t.stamp)
        BY <1>2, <1>5, <2>1, <4>1, <4>2, <4>3, OrderedAppended
      <4> USE DEF none
      <4> QED BY <1>1, <1>5, <3>1, <4>4
    <3>2. CASE ~b
      BY <1>1, <1>5, <2>2, <3>2
    <3> QED BY <3>1, <3>2
  <2>4. t.stamp <= changes
    BY DEF DataplaneInvariant, InOrder, t
  <2> QED BY <1>1, <1>7, <2>3, <2>4 DEF InOrder, StackOrder, t
<1>12. \A type \in {"lag", "stack", "dp"} : \A x, is : Follows(queue', type, x, TRUE, is)
  <2> TAKE type \in {"lag", "stack", "dp"}
  <2> TAKE x, is
  <2>1. Follows(<<>>, type, x, TRUE, is)
    BY DEF Follows
  <2> QED BY <1>1, <1>2, <1>5, <2>1, FollowsTopo
<1>13. StacksFollow' /\ LagFollows' /\ SwitchesFollow'
  <2>1. StacksFollow'
    <3>1. \A p \in StackPort : linksState'[p] = faucet'.stack[p]
      BY <1>1
    <3> QED BY <1>12, <3>1 DEF StacksFollow, Follows
  <2>2. LagFollows'
    <3>1. \A p \in EgressPort : egressLinks'[p] = LacpLinkState(faucet'.lacp[p])
      BY <1>1
    <3> QED BY <1>1, <1>12, <3>1 DEF LagFollows, Follows
  <2>3. SwitchesFollow'
    <3>1. \A s \in Switch : swState'[s] = Known(faucet'.connected[s])
      BY <1>1
    <3> QED BY <1>12, <3>1 DEF SwitchesFollow, Follows
  <2> QED BY <2>1, <2>2, <2>3
<1> QED BY <1>7, <1>9, <1>10, <1>11, <1>13 DEF DataplaneInvariant

LEMMA RestoresKeep == ASSUME DataplaneInvariant, Restore PROVE DataplaneInvariant'
<1>1. faucet.topo \in Topology /\ faucet.topo.dps \in Hops
  BY Stamps, TopologyFields
<1>2. CASE RestoreStates(faucet.topo.dps, <<>>)
  <2> DEFINE d == faucet.topo.dps
  <2>1. RestoreStates(d, Put(<<>>, FALSE, TopoEvent(faucet.topo))) /\ d \in Hops
    BY <1>1, <1>2 DEF Put
  <2> HIDE DEF d
  <2> QED BY <2>1, RestoreKeeps
<1>3. ASSUME NEW s \in Switch, NEW p \in StackPort, SwitchOf[p] = s,
             RestoreStates([faucet.topo.dps EXCEPT ![s] = p], <<[type |-> "topo", value |-> faucet.topo]>>)
      PROVE  DataplaneInvariant'
  <2> DEFINE d == [faucet.topo.dps EXCEPT ![s] = p]
  <2>1. d \in Hops
    BY <1>1, <1>3, HopMoves
  <2>2. Put(<<>>, TRUE, TopoEvent(faucet.topo)) = <<[type |-> "topo", value |-> faucet.topo]>>
    BY DEF Put, TopoEvent
  <2>3. RestoreStates(d, Put(<<>>, TRUE, TopoEvent(faucet.topo)))
    BY <1>3, <2>2
  <2> HIDE DEF d
  <2> QED BY <2>1, <2>3, RestoreKeeps
<1> QED BY <1>2, <1>3 DEF Restore

-----------------------------------------------------------------------------
(* The heartbeat. *)

\* What the heartbeat leaves alone.
LEMMA OthersKeep ==
    ASSUME DataplaneInvariant, UNCHANGED <<external, switches, linksState, lag>>
    PROVE  HopsAreUp' /\ StacksFollow' /\ LagFollows' /\ SwitchesFollow'
BY DEF external, switches, lag, DataplaneInvariant, HopsAreUp, StacksFollow, LagFollows, SwitchesFollow

LEMMA TickKeeps == ASSUME DataplaneInvariant, Tick PROVE DataplaneInvariant'
<1>1. /\ heartbeat.at = "idle" /\ heartbeat.data = None
      /\ eventAge' = Older(eventAge) /\ waiting' = Older(waiting)
      /\ \/ stackData # None /\ updateAge' = None /\ heartbeat'.at = "read" /\ heartbeat'.data = None
         \/ /\ updateAge' = Older(updateAge) /\ heartbeat' = heartbeat
            /\ stackData = None \/ ~(updateAge = None \/ Older(updateAge) > 2 * CoalesceSec)
      /\ UNCHANGED <<external, switches, linksState, lag, topo, stackData>>
  BY DEF Tick, At, Due
<1>2. TypeOK
  BY DEF DataplaneInvariant
<1>3. \A age \in 0 .. AgeCap \cup {None} :
          Older(age) \in 0 .. AgeCap \cup {None} /\ (Older(age) = None <=> age = None)
  BY Constants DEF Older
<1>4. TypeOK'
  <2>1. eventAge' \in 0 .. AgeCap
    <3>1. eventAge \in 0 .. AgeCap /\ AgeCap \in Nat /\ None \notin Nat
      BY <1>2, Constants DEF TypeOK
    <3> QED BY <1>1, <3>1 DEF Older
  <2>2. {updateAge', waiting'} \subseteq 0 .. AgeCap \cup {None}
    <3>1. updateAge \in 0 .. AgeCap \cup {None} /\ waiting \in 0 .. AgeCap \cup {None}
      BY <1>2 DEF TypeOK
    <3>2. Older(updateAge) \in 0 .. AgeCap \cup {None} /\ Older(waiting) \in 0 .. AgeCap \cup {None}
      BY <1>3, <3>1
    <3>3. updateAge' \in {None, Older(updateAge)} /\ waiting' = Older(waiting)
      BY <1>1
    <3> QED BY <3>2, <3>3
  <2>3. heartbeat'.at \in {"idle", "read", "clear"} /\ heartbeat'.data \in IF heartbeat'.at = "clear" THEN Topology ELSE {None}
    BY <1>1
  <2> QED BY <1>1, <1>2, <2>1, <2>2, <2>3 DEF TypeOK, external, switches, lag
<1>5. Waits'
  BY <1>1 DEF Waits, DataplaneInvariant, external
<1>6. InOrder'
  <2>1. heartbeat'.data = heartbeat.data
    BY <1>1
  <2>2. Have' = Have
    BY <1>1, <2>1 DEF Have
  <2> QED BY <1>1, <2>1, <2>2 DEF InOrder, DataplaneInvariant, external
<1>7. Timely'
  <2> SUFFICES ASSUME stackData # None
               PROVE  waiting' # None /\ (heartbeat'.at = "idle" =>
                        updateAge' # None /\ waiting' <= updateAge' /\ waiting' <= 2 * CoalesceSec)
    BY <1>1 DEF Timely
  <2>1. waiting # None /\ updateAge # None /\ waiting <= updateAge /\ waiting <= 2 * CoalesceSec
    BY <1>1 DEF Timely, DataplaneInvariant
  <2>2. waiting \in 0 .. AgeCap /\ updateAge \in 0 .. AgeCap
    BY <1>2, <2>1 DEF TypeOK
  <2>3. waiting' # None
    BY <1>1, <1>3, <2>1, <2>2
  <2>4. CASE heartbeat'.at = "idle"
    <3>1. updateAge' = Older(updateAge) /\ ~(Older(updateAge) > 2 * CoalesceSec)
      BY <1>1, <2>4
    <3>2. updateAge' = updateAge + 1 /\ updateAge + 1 <= 2 * CoalesceSec
      BY <2>1, <2>2, <3>1, Constants DEF Older
    <3>3. waiting' = waiting + 1
      BY <1>1, <2>1, <2>2, <3>2, Constants DEF Older
    <3>4. updateAge' # None
      BY <1>3, <2>1, <2>2, <3>1
    <3> QED BY <2>1, <2>2, <2>3, <3>2, <3>3, <3>4, Constants
  <2> QED BY <2>3, <2>4
<1> QED BY <1>1, <1>4, <1>5, <1>6, <1>7, OthersKeep DEF DataplaneInvariant

LEMMA HeartbeatKeeps == ASSUME DataplaneInvariant, Heartbeat PROVE DataplaneInvariant'
<1>1. TypeOK /\ Waits /\ InOrder /\ Timely
  BY DEF DataplaneInvariant
<1>2. CASE HeartbeatReads
  <2>1. /\ heartbeat.at = "read" /\ heartbeat'.at = "clear" /\ heartbeat'.data = stackData
        /\ UNCHANGED <<external, switches, linksState, lag, topo, stackData, timers>>
    BY <1>2 DEF HeartbeatReads, At
  <2>2. stackData \in Topology /\ stackData # None /\ heartbeat.data = None
    BY <1>1, <2>1 DEF Waits, TypeOK
  <2>3. TypeOK'
    BY <1>1, <2>1, <2>2 DEF TypeOK, external, switches, lag, timers
  <2>4. Waits' /\ Timely'
    BY <1>1, <2>1, <2>2 DEF Waits, Timely, external, timers
  <2>5. InOrder'
    <3>1. Have' \subseteq Have
      BY <2>1 DEF Have
    <3>2. Ordered(queue', Have', faucet'.topo.stamp)
      BY <1>1, <2>1, <3>1, OrderedSome DEF InOrder, external
    <3>3. stackData.stamp <= stackData.stamp
      BY <2>2, TopologyFields
    <3> QED BY <1>1, <2>1, <2>2, <3>2, <3>3 DEF InOrder, external
  <2> QED BY <2>1, <2>3, <2>4, <2>5, OthersKeep DEF DataplaneInvariant
<1>3. CASE HeartbeatApplies
  <2>1. /\ heartbeat.at = "clear" /\ heartbeat'.at = "idle" /\ heartbeat'.data = None
        /\ stackData' = None /\ topo' = heartbeat.data /\ eventAge' = AgeCap /\ waiting' = None
        /\ UNCHANGED <<external, switches, linksState, lag, updateAge>>
    BY <1>3 DEF HeartbeatApplies, At
  <2>2. heartbeat.data \in Topology
    BY <1>1, <2>1 DEF TypeOK
  <2>3. TypeOK'
    BY <1>1, <2>1, <2>2, Constants DEF TypeOK, external, switches, lag
  <2>4. Waits' /\ Timely'
    BY <1>1, <2>1 DEF Waits, Timely, external
  <2>5. InOrder'
    <3>1. Have' \subseteq Have
      BY <2>1 DEF Have
    <3>2. Ordered(queue', Have', faucet'.topo.stamp)
      BY <1>1, <2>1, <3>1, OrderedSome DEF InOrder, external
    <3> QED BY <1>1, <2>1, <3>2 DEF InOrder, external
  <2> QED BY <2>1, <2>3, <2>4, <2>5, OthersKeep DEF DataplaneInvariant
<1> QED BY <1>2, <1>3 DEF Heartbeat

-----------------------------------------------------------------------------
(* The theorems. *)

LEMMA InitHolds == ASSUME Init PROVE DataplaneInvariant
<1>1. PICK root \in Switch : \E h \in TreesOf(AllUp, root), l \in [EgressPort -> Lacp] :
          faucet = [stack |-> AllUp, lacp |-> l, connected |-> [s \in Switch |-> TRUE], loads |-> [s \in Switch |-> 1],
                    topo |-> TopologyOf(AllUp, root, h, 0)]
  BY DEF Init
<1>2. PICK dps \in TreesOf(AllUp, root), lacp \in [EgressPort -> Lacp] :
          faucet = [stack |-> AllUp, lacp |-> lacp, connected |-> [s \in Switch |-> TRUE], loads |-> [s \in Switch |-> 1],
                    topo |-> TopologyOf(AllUp, root, dps, 0)]
  BY <1>1
<1>3. /\ queue = <<>> /\ changes = 0 /\ restores = 0
      /\ swState = [s \in Switch |-> None] /\ configChanges = [s \in Switch |-> 0]
      /\ linksState = [p \in StackPort |-> None]
      /\ egressLinks = [p \in EgressPort |-> None] /\ egress = None
      /\ topo = None /\ stackData = None /\ eventAge = AgeCap /\ updateAge = None /\ waiting = None
      /\ heartbeat = At("idle")
  BY DEF Init
<1>4. dps \in Hops /\ \A s \in Switch : dps[s] # NoPort =>
          dps[s] \in StackPort /\ SwitchOf[dps[s]] = s /\ LinkIsUp(AllUp, dps[s])
  BY <1>2, Trees
<1>5. /\ faucet.topo = TopologyOf(AllUp, root, dps, 0) /\ faucet.topo.dps = dps /\ faucet.topo.stamp = 0
      /\ faucet.stack = AllUp /\ faucet.loads = [s \in Switch |-> 1]
  BY <1>2 DEF TopologyOf
<1>6. faucet \in FaucetType
  <2>1. TopologyOf(AllUp, root, dps, 0) \in Topology
    BY <1>4, Constants DEF TopologyOf, Topology, GraphOf
  <2>2. AllUp \in [StackPort -> StackStates] /\ 1 \in 1 .. MaxChanges + 1
    BY Constants DEF AllUp
  <2>3. [s \in Switch |-> TRUE] \in [Switch -> BOOLEAN] /\ [s \in Switch |-> 1] \in [Switch -> 1 .. MaxChanges + 1]
    BY <2>2
  <2> QED BY <1>2, <2>1, <2>2, <2>3 DEF FaucetType
<1>7. TypeOK
  BY <1>3, <1>6, Constants DEF TypeOK, FaucetType, At
<1>8. Waits
  BY <1>3, <1>5 DEF Waits, At
<1>9. HopsAreUp
  BY <1>4, <1>5 DEF HopsAreUp
<1>10. InOrder
  BY <1>3, <1>5 DEF InOrder, Have, Ordered, At
<1>11. Timely
  BY <1>3 DEF Timely
<1> QED BY <1>3, <1>7, <1>8, <1>9, <1>10, <1>11 DEF DataplaneInvariant, StacksFollow, LagFollows, SwitchesFollow

LEMMA StepKeeps == ASSUME DataplaneInvariant, [Next]_vars PROVE DataplaneInvariant'
<1>1. CASE UNCHANGED vars
  <2>1. UNCHANGED <<faucet, queue, changes, restores, swState, configChanges, linksState, egressLinks, egress, topo,
                    stackData, eventAge, updateAge, waiting, heartbeat>>
    BY <1>1 DEF vars, external, switches, lag, stack, timers
  <2>2. Have' = Have
    BY <2>1 DEF Have
  <2>3. (TypeOK /\ Waits /\ HopsAreUp /\ InOrder /\ Timely)'
    BY <2>1, <2>2 DEF DataplaneInvariant, TypeOK, Waits, HopsAreUp, InOrder, Timely
  <2>4. (StacksFollow /\ LagFollows /\ SwitchesFollow)'
    BY <2>1 DEF DataplaneInvariant, StacksFollow, LagFollows, SwitchesFollow
  <2> QED BY <2>3, <2>4 DEF DataplaneInvariant
<1>2. CASE Next
  BY <1>2, FaucetKeeps, ProcessKeeps, RestoresKeep, TickKeeps, HeartbeatKeeps DEF Next
<1> QED BY <1>1, <1>2

\* The inductive invariant holds always: whatever order events, restorations from the
\* metrics and the heartbeat come in, what the collector knows and what is on its way say
\* together what Faucet says (faucet_state_collector.py).
THEOREM DataplaneIsInOrder == Spec => []DataplaneInvariant
<1>1. Init => DataplaneInvariant
  BY InitHolds
<1>2. DataplaneInvariant /\ [Next]_vars => DataplaneInvariant'
  BY StepKeeps
<1> QED BY <1>1, <1>2, PTL DEF Spec

\* How good the egress is, read from the links or from Faucet.
LEMMA EgressIsRight ==
    ASSUME faucet.lacp \in [EgressPort -> Lacp], \A p \in EgressPort : egressLinks[p] = LacpLinkState(faucet.lacp[p])
    PROVE  EgressState(egressLinks) = EgressQuality
<1> DEFINE states == {egressLinks[p] : p \in EgressPort} \ {None}
<1>1. \A p \in EgressPort : faucet.lacp[p] = [role |-> faucet.lacp[p].role, state |-> faucet.lacp[p].state]
  BY ConfigAssumption
<1>2. \A p \in EgressPort : Carries(p) = (faucet.lacp[p].role = "selected" /\ faucet.lacp[p].state = "active")
  BY <1>1 DEF Carries
<1>3. \A p \in EgressPort : egressLinks[p] = IF StandsBy(p) THEN "up" ELSE IF Carries(p) THEN "active" ELSE "down"
  <2> TAKE p \in EgressPort
  <2>1. \A v : LacpLinkState(v) =
            IF v.role = "unselected" /\ v.state \in {"noact", "active"} THEN "up"
            ELSE IF v.role = "selected" /\ v.state = "active" THEN "active" ELSE "down"
    BY DEF LacpLinkState
  <2> QED BY <1>2, <2>1 DEF StandsBy
<1>4. \A p \in EgressPort : ~(Carries(p) /\ StandsBy(p))
  BY <1>2 DEF StandsBy
<1>5. ("active" \in states <=> \E p \in EgressPort : Carries(p)) /\ states \subseteq {"active", "up", "down"}
  <2>1. ASSUME "active" \in states PROVE \E p \in EgressPort : Carries(p)
    BY <1>3, <2>1
  <2>2. ASSUME NEW p \in EgressPort, Carries(p) PROVE "active" \in states
    <3>1. egressLinks[p] = "active"
      BY <1>3, <1>4, <2>2
    <3> QED BY <3>1, Constants
  <2>3. states \subseteq {"active", "up", "down"}
    BY <1>3
  <2> QED BY <2>1, <2>2, <2>3
<1>6. "down" \in states <=> \E p \in EgressPort : ~Carries(p) /\ ~StandsBy(p)
  <2>1. ASSUME "down" \in states PROVE \E p \in EgressPort : ~Carries(p) /\ ~StandsBy(p)
    BY <1>3, <2>1
  <2>2. ASSUME NEW p \in EgressPort, ~Carries(p), ~StandsBy(p) PROVE "down" \in states
    <3>1. egressLinks[p] = "down"
      BY <1>3, <2>2
    <3> QED BY <3>1, Constants
  <2> QED BY <2>1, <2>2
<1> HIDE DEF states
<1>7. states \in {{"active", "up"}, {"active"}} <=> "active" \in states /\ "down" \notin states
  <2>1. CASE "active" \in states /\ "down" \notin states /\ "up" \in states
    <3>1. states = {"active", "up"}
      BY <1>5, <2>1
    <3> QED BY <2>1, <3>1
  <2>2. CASE "active" \in states /\ "down" \notin states /\ "up" \notin states
    <3>1. states = {"active"}
      BY <1>5, <2>2
    <3> QED BY <2>2, <3>1
  <2>3. CASE ~("active" \in states /\ "down" \notin states)
    BY <2>3
  <2> QED BY <2>1, <2>2, <2>3
<1>8. EgressState(egressLinks) =
          IF states \in {{"active", "up"}, {"active"}} THEN "healthy" ELSE IF "active" \in states THEN "damaged" ELSE "broken"
  BY DEF EgressState, states
<1> QED BY <1>5, <1>6, <1>7, <1>8 DEF EgressQuality

LEMMA Summaries == ASSUME DataplaneInvariant, Settled PROVE SummaryIsRight
<1>1. restores > 0 /\ queue = <<>> /\ topo = faucet.topo
  BY DEF Settled
<1>2. faucet \in FaucetType /\ topo \in Topology /\ topo # None
  BY <1>1, Stamps, Constants
<1>3. /\ faucet.stack \in [StackPort -> StackStates] /\ faucet.lacp \in [EgressPort -> Lacp]
      /\ faucet.connected \in [Switch -> BOOLEAN]
  BY <1>2, FaucetFields
<1>4. /\ \A p \in StackPort : linksState[p] = faucet.stack[p]
      /\ \A p \in EgressPort : egressLinks[p] = LacpLinkState(faucet.lacp[p])
      /\ \A s \in Switch : swState[s] = Known(faucet.connected[s])
      /\ egress = EgressState(egressLinks)
  BY <1>1 DEF DataplaneInvariant, StacksFollow, LagFollows, SwitchesFollow, Follows
<1>5. \A p \in Listed : p \in StackPort /\ Peer[p] \in StackPort /\ Peer[Peer[p]] = p
  BY Constants
<1>6. DOMAIN StackTopo = Listed /\ \A p \in Listed : StackTopo[p] = ShownLinkState(p)
  BY <1>2 DEF StackTopo, TopoMap
<1>7. \A p \in Listed : /\ BaseLinkState(linksState, p) = "up" <=> faucet.stack[p] = "up"
                      /\ BaseLinkState(linksState, p) # "active"
  BY <1>4, <1>5 DEF BaseLinkState
<1>8. \A p \in Listed : topo.dps[SwitchOf[p]] = p \/ topo.dps[SwitchOf[Peer[p]]] = Peer[p] => faucet.stack[p] = "up"
  <2> SUFFICES ASSUME NEW p \in Listed, topo.dps[SwitchOf[p]] = p \/ topo.dps[SwitchOf[Peer[p]]] = Peer[p]
               PROVE  faucet.stack[p] = "up"
    OBVIOUS
  <2>1. p # NoPort /\ Peer[p] # NoPort /\ SwitchOf[p] \in Switch /\ SwitchOf[Peer[p]] \in Switch
    BY <1>5, Constants DEF NoPort
  <2>2. LinkIsUp(faucet.stack, p) \/ LinkIsUp(faucet.stack, Peer[p])
    BY <1>1, <2>1 DEF DataplaneInvariant, HopsAreUp
  <2> QED BY <1>5, <2>2 DEF LinkIsUp
<1>9. \A p \in Listed : p \in BrokenLinks <=> faucet.stack[p] # "up"
  <2> SUFFICES ASSUME NEW p \in Listed PROVE ShownLinkState(p) \in {"active", "up"} <=> faucet.stack[p] = "up"
    BY <1>6 DEF BrokenLinks
  <2> QED BY <1>7, <1>8 DEF ShownLinkState
<1>10. BrokenLinks \cap WorkingLinks = {}
  BY <1>9 DEF WorkingLinks, LinkIsUp
<1>11. BrokenSwitches = {s \in Switch : ~faucet.connected[s]}
  <2>1. \A s \in Switch : SwitchMap[s] = "down" <=> ~faucet.connected[s]
    BY <1>3, <1>4, Constants DEF SwitchMap, Known
  <2> QED BY <2>1 DEF BrokenSwitches
<1>12. egress = EgressQuality
  BY <1>3, <1>4, EgressIsRight
<1>13. \A s \in Switch : SwitchShown(s).sw_state = "active" <=> faucet.connected[s]
  BY <1>3, <1>4 DEF SwitchShown, Known
<1>14. DataplaneState = "healthy" => SwitchSummary(TRUE) = "healthy"
  <2>1. DataplaneState = "healthy" => \A s \in Switch : faucet.connected[s]
    BY <1>3, <1>11 DEF DataplaneState
  <2> QED BY <1>1, <1>13, <2>1 DEF SwitchSummary, SwitchState
<1>15. \A metrics \in BOOLEAN : SwitchSummary(metrics) = "healthy" => BrokenSwitches = {}
  BY <1>11, <1>13 DEF SwitchSummary, SwitchState
<1> QED BY <1>9, <1>10, <1>11, <1>12, <1>14, <1>15 DEF SummaryIsRight

\* When everything is handled, the summary of the dataplane raises no false alarm, misses no
\* switch and no link whose listed end is not up, and knows how good the egress is
\* (get_dataplane_state, _get_topo_map, _get_egress_state_detail).
THEOREM SummariesAreRight == Spec => []Inv
<1>1. DataplaneInvariant => Inv
  BY Summaries DEF Inv, SummaryIsRight, DataplaneInvariant
<1> QED BY <1>1, DataplaneIsInOrder, PTL

\* An older topology never takes the place of a newer one, although the main loop stores
\* topologies and another thread applies them, without a lock (_update_stack_topo_state,
\* heartbeat_update_stack_state).
THEOREM TopologiesComeInOrder == Spec => TopologyNeverReverts
<1>1. DataplaneInvariant /\ [Next]_vars => [topo # None => topo'.stamp >= topo.stamp]_topo
  <2> SUFFICES ASSUME DataplaneInvariant, Next, topo' # topo, topo # None PROVE topo'.stamp >= topo.stamp
    BY DEF vars, stack
  <2>1. \A t \in Have : t \in Topology /\ t.stamp \in Nat
    BY Stamps
  <2>2. topo \in Have
    BY DEF Have
  <2>3. CASE FaucetChanges
    BY <2>3 DEF FaucetChanges, stack
  <2>4. CASE ProcessEvent
    <3>1. Head(queue) = queue[1] /\ 1 \in 1 .. Len(queue)
      BY <2>4, Stamps, Taken DEF ProcessEvent
    <3>2. queue[1].type = "topo" /\ UpdateStackTopoState(queue[1].value)
      BY <2>4, <3>1 DEF ProcessEvent, Handle
    <3>3. topo' = queue[1].value
      BY <3>2 DEF UpdateStackTopoState
    <3>4. topo.stamp <= queue[1].value.stamp
      BY <2>2, <3>1, <3>2 DEF DataplaneInvariant, InOrder, Ordered
    <3>5. queue[1].value.stamp \in Nat
      BY <3>1, <3>2, Stamps
    <3> QED BY <2>1, <2>2, <3>3, <3>4, <3>5
  <2>5. ASSUME NEW dps \in Hops, NEW later, RestoreStates(dps, later) PROVE topo'.stamp >= topo.stamp
    <3>1. topo' = RestoredTopology(faucet.stack, dps)
      BY <2>5 DEF RestoreStates, UpdateStackTopoState
    <3>2. topo'.stamp = faucet.topo.stamp
      BY <3>1, Stamps, TopologyExcept DEF RestoredTopology
    <3>3. topo.stamp <= faucet.topo.stamp /\ faucet.topo.stamp \in Nat
      BY <2>2, Stamps DEF DataplaneInvariant, InOrder, Ordered
    <3> QED BY <2>1, <2>2, <3>2, <3>3
  <2>6. CASE Restore
    <3>1. faucet.topo.dps \in Hops
      BY Stamps, TopologyFields
    <3>2. \A s \in Switch, p \in StackPort : SwitchOf[p] = s => [faucet.topo.dps EXCEPT ![s] = p] \in Hops
      BY <3>1, HopMoves
    <3> QED BY <2>5, <2>6, <3>1, <3>2 DEF Restore
  <2>7. CASE Tick
    BY <2>7 DEF Tick
  <2>8. CASE Heartbeat
    <3>1. heartbeat.at = "clear" /\ topo' = heartbeat.data
      BY <2>8 DEF Heartbeat, HeartbeatReads, HeartbeatApplies
    <3>2. heartbeat.data \in Topology /\ heartbeat.data # None
      BY <3>1, Constants DEF DataplaneInvariant, TypeOK
    <3>3. topo.stamp <= heartbeat.data.stamp /\ heartbeat.data.stamp \in Nat
      BY <3>2, TopologyFields DEF DataplaneInvariant, InOrder
    <3> QED BY <2>1, <2>2, <3>1, <3>3
  <2> QED BY <2>3, <2>4, <2>6, <2>7, <2>8 DEF Next
<1> QED BY <1>1, DataplaneIsInOrder, PTL DEF Spec, TopologyNeverReverts

\* However often the stack changes, no topology waits for the heartbeat longer than two
\* coalescing times (heartbeat_update_stack_state).
THEOREM TopologiesAreInTime == Spec => []ChangesAreNotPostponed
<1>1. DataplaneInvariant => ChangesAreNotPostponed
  BY DEF DataplaneInvariant, Timely, ChangesAreNotPostponed, At
<1> QED BY <1>1, DataplaneIsInOrder, PTL

-----------------------------------------------------------------------------
(* The path of a switch. *)

\* Induction, as a fact about a set: one that has 0 and with each number the next has all.
LEMMA NaturalsByInduction ==
    ASSUME NEW S, 0 \in S, \A n \in Nat : n \in S => n + 1 \in S
    PROVE  Nat \subseteq S
<1> DEFINE Missing == {n \in Nat : n \notin S}
<1>1. SUFFICES ASSUME Missing # {} PROVE FALSE
  OBVIOUS
<1>2. PICK x \in Missing : \A y \in Missing : ~(<<y, x>> \in OpToRel(<, Nat))
  <2>1. Missing \subseteq Nat
    OBVIOUS
  <2> HIDE DEF Missing
  <2> QED BY <1>1, <2>1, WFMin, NatLessThanWellFounded
<1>3. x \in Nat /\ x - 1 \in Nat /\ x - 1 \in Missing
  OBVIOUS
<1>4. <<x - 1, x>> \in OpToRel(<, Nat)
  BY <1>3 DEF OpToRel
<1> QED BY <1>2, <1>3, <1>4

\* The same, up to a last number.
LEMMA IntervalByInduction ==
    ASSUME NEW last \in Nat, NEW S, 0 \in S, \A n \in 0 .. last : n \in S /\ n < last => n + 1 \in S
    PROVE  0 .. last \subseteq S
<1> DEFINE T == {n \in Nat : n <= last => n \in S}
<1>1. 0 \in T
  OBVIOUS
<1>2. \A n \in Nat : n \in T => n + 1 \in T
  OBVIOUS
<1>3. Nat \subseteq T
  <2> HIDE DEF T
  <2> QED BY <1>1, <1>2, NaturalsByInduction
<1> QED BY <1>3

-----------------------------------------------------------------------------
(* Where the hops lead. *)

Onward(s) == topo.dps[s] # NoPort /\ Across(topo.dps[s]) # NoPort

\* As Led, for as many steps as there are rounds.
Orbit(s) ==
    LET orbit[n \in 0 .. MaxRounds] == IF n = 0 THEN s ELSE LeadsTo(orbit[n - 1])
    IN  orbit

LEMMA Counts ==
    /\ MaxRounds \in Nat /\ Cardinality(Switch) \in Nat /\ Cardinality(StackPort) \in Nat
    /\ MaxRounds = Cardinality(StackPort) + Cardinality(Switch) + 1
    /\ IsFiniteSet(Switch) /\ IsFiniteSet(StackPort)
<1>1. IsFiniteSet(Switch) /\ IsFiniteSet(Port) /\ StackPort \subseteq Port
  BY ConfigAssumption
<1>2. IsFiniteSet(StackPort)
  BY <1>1, FS_Subset
<1> QED BY <1>1, <1>2, FS_CardinalityType DEF MaxRounds

LEMMA OneStep ==
    ASSUME topo \in Topology, NEW s \in Switch
    PROVE  /\ LeadsTo(s) \in Switch
           /\ topo.dps[s] # NoPort => topo.dps[s] \in StackPort /\ SwitchOf[topo.dps[s]] = s
           /\ Onward(s) => /\ Across(topo.dps[s]) = Peer[topo.dps[s]] /\ Peer[topo.dps[s]] \in StackPort
                           /\ LeadsTo(s) = SwitchOf[Peer[topo.dps[s]]]
           /\ ~Onward(s) => LeadsTo(s) = s
<1>1. topo.dps \in Hops
  BY DEF Topology
<1>2. topo.dps[s] # NoPort => topo.dps[s] \in StackPort /\ SwitchOf[topo.dps[s]] = s
  BY <1>1 DEF Hops
<1>3. SwitchOf \in [Port -> Switch] /\ StackPort \subseteq Port /\ Peer \in [StackPort -> StackPort]
  BY ConfigAssumption
<1> QED BY <1>2, <1>3 DEF LeadsTo, Onward, Across

\* The functions by recursion are what their equations say.
LEMMA LedExists ==
    ASSUME NEW s, NEW last \in Nat
    PROVE  \E f : f = [n \in 0 .. last |-> IF n = 0 THEN s ELSE LeadsTo(f[n - 1])]
<1> DEFINE Ok == {k \in Nat : \E f : f = [n \in 0 .. k |-> IF n = 0 THEN s ELSE LeadsTo(f[n - 1])]}
<1>1. 0 \in Ok
  <2>1. [n \in 0 .. 0 |-> s] = [n \in 0 .. 0 |-> IF n = 0 THEN s ELSE LeadsTo([k \in 0 .. 0 |-> s][n - 1])]
    OBVIOUS
  <2> QED BY <2>1
<1>2. ASSUME NEW k \in Nat, k \in Ok PROVE k + 1 \in Ok
  <2>1. PICK f : f = [n \in 0 .. k |-> IF n = 0 THEN s ELSE LeadsTo(f[n - 1])]
    BY <1>2
  <2> DEFINE g == [n \in 0 .. k + 1 |-> IF n = k + 1 THEN LeadsTo(f[k]) ELSE f[n]]
  <2>2. \A n \in 0 .. k + 1 : g[n] = IF n = 0 THEN s ELSE LeadsTo(g[n - 1])
    <3>1. \A n \in 0 .. k : f[n] = IF n = 0 THEN s ELSE LeadsTo(f[n - 1])
      BY <2>1
    <3>2. (\A n \in 0 .. k : g[n] = f[n]) /\ g[k + 1] = LeadsTo(f[k])
      OBVIOUS
    <3> HIDE DEF g
    <3> QED BY <3>1, <3>2
  <2>3. g = [n \in 0 .. k + 1 |-> IF n = 0 THEN s ELSE LeadsTo(g[n - 1])]
    BY <2>2
  <2> HIDE DEF g
  <2> QED BY <2>3
<1>3. Nat \subseteq Ok
  <2> HIDE DEF Ok
  <2> QED BY <1>1, <1>2, NaturalsByInduction
<1> QED BY <1>3

LEMMA LedIs ==
    ASSUME NEW s
    PROVE  /\ \A n \in 0 .. Cardinality(Switch) : Led(s)[n] = IF n = 0 THEN s ELSE LeadsTo(Led(s)[n - 1])
           /\ \A n \in 0 .. MaxRounds : Orbit(s)[n] = IF n = 0 THEN s ELSE LeadsTo(Orbit(s)[n - 1])
<1>1. Led(s) = [n \in 0 .. Cardinality(Switch) |-> IF n = 0 THEN s ELSE LeadsTo(Led(s)[n - 1])]
  <2>1. \E led : led = [n \in 0 .. Cardinality(Switch) |-> IF n = 0 THEN s ELSE LeadsTo(led[n - 1])]
    <3>1. Cardinality(Switch) \in Nat
      BY Counts
    <3> QED BY ONLY <3>1, LedExists, Zenon
  <2> QED BY ONLY <2>1, Zenon DEF Led
<1>2. Orbit(s) = [n \in 0 .. MaxRounds |-> IF n = 0 THEN s ELSE LeadsTo(Orbit(s)[n - 1])]
  <2>1. \E orbit : orbit = [n \in 0 .. MaxRounds |-> IF n = 0 THEN s ELSE LeadsTo(orbit[n - 1])]
    <3>1. MaxRounds \in Nat
      BY Counts
    <3> QED BY ONLY <3>1, LedExists, Zenon
  <2> QED BY ONLY <2>1, Zenon DEF Orbit
<1> QED BY <1>1, <1>2

LEMMA OrbitLaws ==
    ASSUME topo \in Topology, NEW s \in Switch
    PROVE  /\ \A n \in 0 .. MaxRounds : Orbit(s)[n] \in Switch
           /\ \A n \in 0 .. Cardinality(Switch) : Led(s)[n] = Orbit(s)[n]
<1> DEFINE M == MaxRounds
           C == Cardinality(Switch)
           In == {n \in 0 .. M : Orbit(s)[n] \in Switch}
           Same == {n \in 0 .. C : Led(s)[n] = Orbit(s)[n]}
<1>1. M \in Nat /\ C \in Nat /\ C <= M
  BY Counts
<1>2. 0 .. M \subseteq In
  <2>1. 0 \in In
    BY <1>1, LedIs
  <2>2. \A n \in 0 .. M : n \in In /\ n < M => n + 1 \in In
    <3> TAKE n \in 0 .. M
    <3> HAVE n \in In /\ n < M
    <3>1. Orbit(s)[n + 1] = LeadsTo(Orbit(s)[n])
      BY <1>1, LedIs
    <3> QED BY <1>1, <3>1, OneStep
  <2> HIDE DEF In, M
  <2> QED BY <1>1, <2>1, <2>2, IntervalByInduction
<1>3. 0 .. C \subseteq Same
  <2>1. 0 \in Same
    BY <1>1, LedIs
  <2>2. \A n \in 0 .. C : n \in Same /\ n < C => n + 1 \in Same
    <3> TAKE n \in 0 .. C
    <3> HAVE n \in Same /\ n < C
    <3>1. Orbit(s)[n + 1] = LeadsTo(Orbit(s)[n]) /\ Led(s)[n + 1] = LeadsTo(Led(s)[n])
      BY <1>1, LedIs
    <3> QED BY <1>1, <3>1
  <2> HIDE DEF Same, C
  <2> QED BY <1>1, <2>1, <2>2, IntervalByInduction
<1> QED BY <1>2, <1>3


-----------------------------------------------------------------------------
(* The walk: after n rounds it has come n steps along the orbit, or it has ended before. *)

EntryAt(s, n) == IF n = 0 THEN NoPort ELSE Peer[topo.dps[Orbit(s)[n - 1]]]
HopAt(s, i) == [switch |-> Orbit(s)[i - 1], in |-> EntryAt(s, i - 1), out |-> topo.dps[Orbit(s)[i - 1]]]
Trail(s, n) == [i \in 1 .. n |-> HopAt(s, i)]
Walk(path, s, in) == [status |-> "walking", path |-> path, switch |-> s, in |-> in]

\* n steps along links of the graph.
Came(s, n) == topo.links # {} /\ \A i \in 0 .. n - 1 : Onward(Orbit(s)[i])

AtRoot(s) == s = topo.root /\ topo.dps[s] = NoPort

Walking(s, n, w) ==
    /\ w = Walk(Trail(s, n), Orbit(s)[n], EntryAt(s, n))
    /\ Came(s, n)
    /\ \A i, j \in 1 .. n : HopAt(s, i) = HopAt(s, j) => i = j

Ended(s, k, w) ==
    /\ Came(s, k)
    /\ \/ w.status = "healthy" /\ w.path = Trail(s, k + 1) /\ AtRoot(Orbit(s)[k])
       \/ w.status = "absent" /\ ~Onward(Orbit(s)[k]) /\ ~AtRoot(Orbit(s)[k])
       \/ w.status = "loop" /\ \E i \in 0 .. k - 1 : Orbit(s)[i] = Orbit(s)[k]

LEMMA TrailGrows ==
    ASSUME NEW s, NEW n \in Nat
    PROVE  Append(Trail(s, n), HopAt(s, n + 1)) = Trail(s, n + 1)
BY DEF Trail

\* What one round makes of a walk.
LEMMA OneRound ==
    ASSUME NEW path, NEW s, NEW in,
           NEW w, w = Walk(path, s, in),
           NEW hop, hop = [switch |-> s, in |-> in, out |-> topo.dps[s]]
    PROVE  LET next == PopulatePath(w)
           IN  \/ AtRoot(s) /\ next.status = "healthy" /\ next.path = Append(path, hop)
               \/ ~AtRoot(s) /\ topo.dps[s] = NoPort /\ next.status = "absent"
               \/ topo.dps[s] # NoPort /\ next.status = "loop" /\ \E i \in DOMAIN path : path[i] = hop
               \/ ~AtRoot(s) /\ ~Onward(s) /\ next.status = "absent"
               \/ /\ Onward(s) /\ ~\E i \in DOMAIN path : path[i] = hop
                  /\ next = Walk(Append(path, hop), SwitchOf[Across(topo.dps[s])], Across(topo.dps[s]))
<1>1. w.status = "walking" /\ w.path = path /\ w.switch = s /\ w.in = in
  BY DEF Walk
<1>2. CASE topo.dps[s] = NoPort
  <2>1. PopulatePath(w) = [w EXCEPT !.status = IF s = topo.root THEN "healthy" ELSE "absent",
                                    !.path = IF s = topo.root THEN Append(path, hop) ELSE path]
    BY <1>1, <1>2 DEF PopulatePath
  <2>2. PopulatePath(w).status = (IF s = topo.root THEN "healthy" ELSE "absent")
        /\ PopulatePath(w).path = IF s = topo.root THEN Append(path, hop) ELSE path
    BY <2>1 DEF Walk
  <2> QED BY <1>2, <2>2 DEF AtRoot
<1>3. CASE topo.dps[s] # NoPort /\ \E i \in DOMAIN path : path[i] = hop
  <2>1. PopulatePath(w) = [w EXCEPT !.status = "loop", !.path = Append(path, hop)]
    BY <1>1, <1>3 DEF PopulatePath
  <2>2. PopulatePath(w).status = "loop"
    BY <2>1 DEF Walk
  <2> QED BY <1>3, <2>2
<1>4. CASE topo.dps[s] # NoPort /\ ~(\E i \in DOMAIN path : path[i] = hop) /\ Across(topo.dps[s]) = NoPort
  <2>1. PopulatePath(w) = [w EXCEPT !.status = "absent", !.path = Append(path, hop)]
    BY <1>1, <1>4 DEF PopulatePath
  <2>2. PopulatePath(w).status = "absent"
    BY <2>1 DEF Walk
  <2> QED BY <1>4, <2>2 DEF AtRoot, Onward
<1>5. CASE topo.dps[s] # NoPort /\ ~(\E i \in DOMAIN path : path[i] = hop) /\ Across(topo.dps[s]) # NoPort
  <2>1. PopulatePath(w) = [w EXCEPT !.path = Append(path, hop), !.switch = SwitchOf[Across(topo.dps[s])],
                                    !.in = Across(topo.dps[s])]
    BY <1>1, <1>5 DEF PopulatePath
  <2>2. PopulatePath(w) = Walk(Append(path, hop), SwitchOf[Across(topo.dps[s])], Across(topo.dps[s]))
    BY <2>1 DEF Walk
  <2> QED BY <1>5, <2>2 DEF Onward
<1> QED BY <1>2, <1>3, <1>4, <1>5

LEMMA WalkGoesOn ==
    ASSUME topo \in Topology, NEW s \in Switch, NEW n \in 0 .. MaxRounds - 1, NEW w, Walking(s, n, w)
    PROVE  Walking(s, n + 1, PopulatePath(w)) \/ Ended(s, n, PopulatePath(w))
<1> DEFINE x == Orbit(s)[n]
           next == PopulatePath(w)
<1>1. MaxRounds \in Nat /\ n \in Nat
  BY Counts
<1>2. x \in Switch /\ Orbit(s)[n + 1] = LeadsTo(x)
  <2>1. n \in 0 .. MaxRounds /\ n + 1 \in 0 .. MaxRounds /\ n + 1 # 0 /\ (n + 1) - 1 = n
    BY <1>1
  <2>2. Orbit(s)[n + 1] = IF n + 1 = 0 THEN s ELSE LeadsTo(Orbit(s)[(n + 1) - 1])
    BY <2>1, LedIs
  <2> QED BY <2>1, <2>2, OrbitLaws
<1>3. HopAt(s, n + 1) = [switch |-> x, in |-> EntryAt(s, n), out |-> topo.dps[x]]
  BY <1>1 DEF HopAt
<1>4. Append(Trail(s, n), HopAt(s, n + 1)) = Trail(s, n + 1)
  BY <1>1, TrailGrows
<1>5. (\E i \in DOMAIN Trail(s, n) : Trail(s, n)[i] = HopAt(s, n + 1)) <=> \E i \in 1 .. n : HopAt(s, i) = HopAt(s, n + 1)
  BY DEF Trail
<1>6. w = Walk(Trail(s, n), x, EntryAt(s, n)) /\ Came(s, n) /\ \A i, j \in 1 .. n : HopAt(s, i) = HopAt(s, j) => i = j
  BY DEF Walking
<1> HIDE DEF x, next
<1>7. \/ AtRoot(x) /\ next.status = "healthy" /\ next.path = Trail(s, n + 1)
      \/ ~AtRoot(x) /\ ~Onward(x) /\ next.status = "absent"
      \/ next.status = "loop" /\ \E i \in 1 .. n : HopAt(s, i) = HopAt(s, n + 1)
      \/ /\ Onward(x) /\ ~\E i \in 1 .. n : HopAt(s, i) = HopAt(s, n + 1)
         /\ next = Walk(Trail(s, n + 1), SwitchOf[Across(topo.dps[x])], Across(topo.dps[x]))
  <2> DEFINE hop == HopAt(s, n + 1)
             trail == Trail(s, n)
  <2>1. \/ AtRoot(x) /\ next.status = "healthy" /\ next.path = Append(trail, hop)
        \/ ~AtRoot(x) /\ topo.dps[x] = NoPort /\ next.status = "absent"
        \/ topo.dps[x] # NoPort /\ next.status = "loop" /\ \E i \in DOMAIN trail : trail[i] = hop
        \/ ~AtRoot(x) /\ ~Onward(x) /\ next.status = "absent"
        \/ /\ Onward(x) /\ ~\E i \in DOMAIN trail : trail[i] = hop
           /\ next = Walk(Append(trail, hop), SwitchOf[Across(topo.dps[x])], Across(topo.dps[x]))
    <3> HIDE DEF hop, trail
    <3>1. w = Walk(trail, x, EntryAt(s, n)) /\ hop = [switch |-> x, in |-> EntryAt(s, n), out |-> topo.dps[x]]
      BY <1>3, <1>6 DEF hop, trail
    <3> QED BY ONLY <3>1, OneRound DEF next
  <2> QED BY <2>1, <1>4, <1>5 DEF Onward
<1>8. CASE next.status = "loop" /\ \E i \in 1 .. n : HopAt(s, i) = HopAt(s, n + 1)
  <2>1. PICK i \in 1 .. n : HopAt(s, i) = HopAt(s, n + 1)
    BY <1>8
  <2>2. Orbit(s)[i - 1] = Orbit(s)[n] /\ i - 1 \in 0 .. n - 1
    BY <1>1, <2>1 DEF HopAt
  <2> QED BY <1>6, <1>8, <2>2 DEF Ended, next
<1>9. CASE /\ Onward(x) /\ ~\E i \in 1 .. n : HopAt(s, i) = HopAt(s, n + 1)
           /\ next = Walk(Trail(s, n + 1), SwitchOf[Across(topo.dps[x])], Across(topo.dps[x]))
  <2>1. Across(topo.dps[x]) = EntryAt(s, n + 1) /\ SwitchOf[Across(topo.dps[x])] = Orbit(s)[n + 1]
    BY <1>1, <1>2, <1>9, OneStep DEF EntryAt, x
  <2>2. Came(s, n + 1)
    BY <1>1, <1>6, <1>9 DEF Came, x
  <2>3. \A i, j \in 1 .. n + 1 : HopAt(s, i) = HopAt(s, j) => i = j
    BY <1>1, <1>6, <1>9
  <2> QED BY <1>9, <2>1, <2>2, <2>3 DEF Walking, next
<1> QED BY <1>6, <1>7, <1>8, <1>9 DEF Ended, x, next


LEMMA WalkExists ==
    ASSUME NEW start, NEW last \in Nat
    PROVE  \E f : f = [n \in 0 .. last |-> IF n = 0 THEN start ELSE PopulatePath(f[n - 1])]
<1> DEFINE Ok == {k \in Nat : \E f : f = [n \in 0 .. k |-> IF n = 0 THEN start ELSE PopulatePath(f[n - 1])]}
<1>1. 0 \in Ok
  <2>1. [n \in 0 .. 0 |-> start] = [n \in 0 .. 0 |-> IF n = 0 THEN start ELSE PopulatePath([k \in 0 .. 0 |-> start][n - 1])]
    OBVIOUS
  <2> QED BY <2>1
<1>2. ASSUME NEW k \in Nat, k \in Ok PROVE k + 1 \in Ok
  <2>1. PICK f : f = [n \in 0 .. k |-> IF n = 0 THEN start ELSE PopulatePath(f[n - 1])]
    BY <1>2
  <2> DEFINE g == [n \in 0 .. k + 1 |-> IF n = k + 1 THEN PopulatePath(f[k]) ELSE f[n]]
  <2>2. \A n \in 0 .. k + 1 : g[n] = IF n = 0 THEN start ELSE PopulatePath(g[n - 1])
    <3>1. \A n \in 0 .. k : f[n] = IF n = 0 THEN start ELSE PopulatePath(f[n - 1])
      BY <2>1
    <3>2. (\A n \in 0 .. k : g[n] = f[n]) /\ g[k + 1] = PopulatePath(f[k])
      OBVIOUS
    <3> HIDE DEF g
    <3> QED BY <3>1, <3>2
  <2>3. g = [n \in 0 .. k + 1 |-> IF n = 0 THEN start ELSE PopulatePath(g[n - 1])]
    BY <2>2
  <2> HIDE DEF g
  <2> QED BY <2>3
<1>3. Nat \subseteq Ok
  <2> HIDE DEF Ok
  <2> QED BY <1>1, <1>2, NaturalsByInduction
<1> QED BY <1>3

WalkStart(s) ==
    [status |-> IF topo.links = {} THEN "no links" ELSE "walking", path |-> <<>>, switch |-> s, in |-> NoPort]

LEMMA WalkIs ==
    ASSUME NEW s
    PROVE  \A n \in 0 .. MaxRounds :
               EgressWalk(s)[n] = IF n = 0 THEN WalkStart(s) ELSE PopulatePath(EgressWalk(s)[n - 1])
<1>1. \E walk : walk = [n \in 0 .. MaxRounds |-> IF n = 0 THEN WalkStart(s) ELSE PopulatePath(walk[n - 1])]
  <2>1. MaxRounds \in Nat
    BY Counts
  <2> QED BY ONLY <2>1, WalkExists, Zenon
<1>2. EgressWalk(s) = CHOOSE walk : walk = [n \in 0 .. MaxRounds |-> IF n = 0 THEN WalkStart(s) ELSE PopulatePath(walk[n - 1])]
  BY DEF EgressWalk, WalkStart
<1>3. EgressWalk(s) = [n \in 0 .. MaxRounds |-> IF n = 0 THEN WalkStart(s) ELSE PopulatePath(EgressWalk(s)[n - 1])]
  BY ONLY <1>1, <1>2, Zenon
<1> QED BY <1>3

LEMMA WalkLaws ==
    ASSUME topo \in Topology, NEW s \in Switch, topo.links # {}
    PROVE  \A n \in 0 .. MaxRounds :
               Walking(s, n, EgressWalk(s)[n]) \/ \E k \in 0 .. MaxRounds - 1 : Ended(s, k, EgressWalk(s)[n])
<1> DEFINE f == EgressWalk(s)
           M == MaxRounds
           Ok == {n \in 0 .. M : Walking(s, n, f[n]) \/ \E k \in 0 .. M - 1 : Ended(s, k, f[n])}
<1>1. M \in Nat
  BY Counts
<1>2. 0 \in Ok
  <2>1. f[0] = WalkStart(s)
    BY <1>1, WalkIs
  <2>2. Orbit(s)[0] = s /\ EntryAt(s, 0) = NoPort
    BY <1>1, LedIs DEF EntryAt
  <2>3. Trail(s, 0) = <<>>
    BY DEF Trail
  <2>4. WalkStart(s) = Walk(<<>>, s, NoPort)
    BY DEF WalkStart, Walk
  <2>5. Walking(s, 0, f[0])
    BY <2>1, <2>2, <2>3, <2>4 DEF Walking, Came
  <2> QED BY <1>1, <2>5
<1>3. \A n \in 0 .. M : n \in Ok /\ n < M => n + 1 \in Ok
  <2> TAKE n \in 0 .. M
  <2> HAVE n \in Ok /\ n < M
  <2>1. n \in 0 .. M - 1 /\ n + 1 \in 0 .. M /\ n + 1 # 0 /\ (n + 1) - 1 = n
    BY <1>1
  <2>2. f[n + 1] = PopulatePath(f[n])
    BY <2>1, WalkIs
  <2> HIDE DEF f
  <2>3. CASE Walking(s, n, f[n])
    <3>1. Walking(s, n + 1, f[n + 1]) \/ Ended(s, n, f[n + 1])
      BY <2>1, <2>2, <2>3, WalkGoesOn
    <3> QED BY <2>1, <3>1
  <2>4. ASSUME NEW k \in 0 .. M - 1, Ended(s, k, f[n]) PROVE n + 1 \in Ok
    <3>1. f[n].status # "walking"
      BY <2>4 DEF Ended
    <3>2. f[n + 1] = f[n]
      BY <2>2, <3>1 DEF PopulatePath
    <3> QED BY <2>1, <2>4, <3>2
  <2> QED BY <2>3, <2>4
<1>4. 0 .. M \subseteq Ok
  <2> HIDE DEF Ok, M
  <2> QED BY <1>1, <1>2, <1>3, IntervalByInduction
<1> QED BY <1>4

LEMMA NoLinks ==
    ASSUME NEW s, topo.links = {}
    PROVE  EgressPath(s).status = "no links"
<1> DEFINE f == EgressWalk(s)
           M == MaxRounds
           Ok == {n \in 0 .. M : f[n].status = "no links"}
<1>1. M \in Nat
  BY Counts
<1>2. 0 \in Ok
  <2>1. f[0] = WalkStart(s)
    BY <1>1, WalkIs
  <2>2. WalkStart(s).status = "no links"
    BY DEF WalkStart
  <2> HIDE DEF f
  <2>3. 0 \in 0 .. M
    BY ONLY <1>1
  <2> QED BY ONLY <2>1, <2>2, <2>3
<1>3. \A n \in 0 .. M : n \in Ok /\ n < M => n + 1 \in Ok
  <2> SUFFICES ASSUME NEW n \in 0 .. M, f[n].status = "no links", n < M
               PROVE  n + 1 \in 0 .. M /\ f[n + 1].status = "no links"
    OBVIOUS
  <2> HIDE DEF f
  <2>1. n + 1 \in 0 .. M /\ n + 1 # 0 /\ (n + 1) - 1 = n
    BY ONLY <1>1, n \in 0 .. M, n < M
  <2>2. f[n + 1] = PopulatePath(f[n])
    BY <2>1, WalkIs DEF f
  <2>3. f[n + 1] = f[n]
    BY <2>2 DEF PopulatePath
  <2> QED BY <2>1, <2>3
<1>4. 0 .. M \subseteq Ok
  <2> HIDE DEF Ok, M
  <2> QED BY <1>1, <1>2, <1>3, IntervalByInduction
<1>5. M \in 0 .. M
  BY <1>1
<1> QED BY <1>4, <1>5 DEF EgressPath

\* The ports a switch is entered by tell the hops apart, and there are not that many.
LEMMA WalkEnds ==
    ASSUME topo \in Topology, NEW s \in Switch, NEW w, Walking(s, MaxRounds, w)
    PROVE  FALSE
<1> DEFINE C == Cardinality(StackPort)
           entry == [n \in 1 .. C + 1 |-> EntryAt(s, n)]
<1>1. C \in Nat /\ MaxRounds \in Nat /\ C + 1 <= MaxRounds - 1 /\ IsFiniteSet(StackPort)
  <2>1. Cardinality(Switch) > 0
    BY Counts, FS_EmptySet
  <2> QED BY <2>1, Counts
<1>2. \A n \in 1 .. C + 1 : EntryAt(s, n) \in StackPort /\ Orbit(s)[n] = SwitchOf[EntryAt(s, n)]
  <2> TAKE n \in 1 .. C + 1
  <2>1. n # 0 /\ n \in 0 .. MaxRounds /\ n - 1 \in 0 .. MaxRounds - 1 /\ n - 1 \in 0 .. MaxRounds
    BY <1>1
  <2>2. Onward(Orbit(s)[n - 1]) /\ Orbit(s)[n - 1] \in Switch
    BY <2>1, OrbitLaws DEF Walking, Came
  <2>3. Orbit(s)[n] = LeadsTo(Orbit(s)[n - 1])
    BY <2>1, LedIs
  <2> QED BY <2>1, <2>2, <2>3, OneStep DEF EntryAt
<1>3. entry \in [1 .. C + 1 -> StackPort]
  BY <1>2
<1>4. IsFiniteSet(1 .. C + 1) /\ Cardinality(1 .. C + 1) = C + 1
  BY <1>1, FS_Interval
<1>5. PICK i, j \in 1 .. C + 1 : i # j /\ entry[i] = entry[j]
  <2> HIDE DEF entry
  <2> QED BY <1>1, <1>3, <1>4, FS_PigeonHole
<1>6. EntryAt(s, i) = EntryAt(s, j) /\ Orbit(s)[i] = Orbit(s)[j]
  BY <1>2, <1>5
<1>7. (i + 1) - 1 = i /\ (j + 1) - 1 = j /\ i + 1 \in 1 .. MaxRounds /\ j + 1 \in 1 .. MaxRounds
  BY <1>1
<1>8. HopAt(s, i + 1) = HopAt(s, j + 1)
  BY <1>6, <1>7 DEF HopAt
<1>9. i + 1 = j + 1
  BY <1>7, <1>8 DEF Walking
<1> QED BY <1>5, <1>9

\* A switch without a way on is where the hops stay.
LEMMA Stays ==
    ASSUME topo \in Topology, NEW s \in Switch, NEW k \in 0 .. MaxRounds, ~Onward(Orbit(s)[k])
    PROVE  \A n \in k .. MaxRounds : Orbit(s)[n] = Orbit(s)[k]
<1> DEFINE M == MaxRounds
           Ok == {n \in 0 .. M - k : Orbit(s)[k + n] = Orbit(s)[k]}
<1>1. M \in Nat /\ M - k \in Nat
  BY Counts
<1>2. 0 \in Ok
  BY <1>1
<1>3. \A n \in 0 .. M - k : n \in Ok /\ n < M - k => n + 1 \in Ok
  <2> TAKE n \in 0 .. M - k
  <2> HAVE n \in Ok /\ n < M - k
  <2>1. k + (n + 1) \in 0 .. M /\ k + (n + 1) # 0 /\ (k + (n + 1)) - 1 = k + n /\ n + 1 \in 0 .. M - k
    BY <1>1
  <2>2. Orbit(s)[k + (n + 1)] = LeadsTo(Orbit(s)[k + n])
    BY <2>1, LedIs
  <2>3. Orbit(s)[k] \in Switch
    BY OrbitLaws
  <2>4. LeadsTo(Orbit(s)[k]) = Orbit(s)[k]
    BY <2>3, OneStep
  <2> QED BY <2>1, <2>2, <2>4
<1>4. 0 .. M - k \subseteq Ok
  <2> HIDE DEF Ok, M
  <2> QED BY <1>1, <1>2, <1>3, IntervalByInduction
<1>5. ASSUME NEW n \in k .. M PROVE Orbit(s)[n] = Orbit(s)[k]
  <2>1. n - k \in 0 .. M - k /\ k + (n - k) = n
    BY <1>1
  <2> QED BY <1>4, <2>1
<1> QED BY <1>5

\* A switch that comes twice comes again and again.
LEMMA Repeats ==
    ASSUME topo \in Topology, NEW s \in Switch, NEW k \in 0 .. MaxRounds, NEW i \in 0 .. k - 1, NEW j \in i + 1 .. k,
           Orbit(s)[i] = Orbit(s)[j]
    PROVE  Orbit(s)[i + (k - j)] = Orbit(s)[k]
<1> DEFINE Ok == {n \in 0 .. k - j : Orbit(s)[i + n] = Orbit(s)[j + n]}
<1>1. MaxRounds \in Nat /\ k \in Nat /\ i \in Nat /\ j \in Nat /\ k - j \in Nat /\ k <= MaxRounds /\ i < j
  BY Counts
<1>2. 0 \in Ok
  BY <1>1
<1>3. \A n \in 0 .. k - j : n \in Ok /\ n < k - j => n + 1 \in Ok
  <2> TAKE n \in 0 .. k - j
  <2> HAVE n \in Ok /\ n < k - j
  <2>1. /\ i + (n + 1) \in 0 .. MaxRounds /\ i + (n + 1) # 0 /\ (i + (n + 1)) - 1 = i + n
        /\ j + (n + 1) \in 0 .. MaxRounds /\ j + (n + 1) # 0 /\ (j + (n + 1)) - 1 = j + n
        /\ n + 1 \in 0 .. k - j
    BY <1>1
  <2>2. Orbit(s)[i + (n + 1)] = LeadsTo(Orbit(s)[i + n]) /\ Orbit(s)[j + (n + 1)] = LeadsTo(Orbit(s)[j + n])
    BY <2>1, LedIs
  <2> QED BY <2>1, <2>2
<1>4. 0 .. k - j \subseteq Ok
  <2> HIDE DEF Ok
  <2> QED BY <1>1, <1>2, <1>3, IntervalByInduction
<1>5. k - j \in 0 .. k - j /\ j + (k - j) = k
  BY <1>1
<1> QED BY <1>4, <1>5

\* Who comes to the root comes through no switch twice,
LEMMA NoSwitchTwice ==
    ASSUME topo \in Topology, NEW s \in Switch, NEW k \in 0 .. MaxRounds, Came(s, k), AtRoot(Orbit(s)[k])
    PROVE  \A i, j \in 0 .. k : Orbit(s)[i] = Orbit(s)[j] => i = j
<1>1. MaxRounds \in Nat /\ k \in Nat
  BY Counts
<1>2. ASSUME NEW i \in 0 .. k, NEW j \in 0 .. k, i < j, Orbit(s)[i] = Orbit(s)[j] PROVE FALSE
  <2>1. i \in 0 .. k - 1 /\ j \in i + 1 .. k /\ i + (k - j) \in 0 .. k - 1
    BY <1>1, <1>2
  <2>2. Orbit(s)[i + (k - j)] = Orbit(s)[k]
    BY <1>2, <2>1, Repeats
  <2>3. Onward(Orbit(s)[i + (k - j)])
    BY <2>1 DEF Came
  <2> QED BY <2>2, <2>3 DEF Onward, AtRoot
<1>3. \A i, j \in 0 .. k : i < j => Orbit(s)[i] # Orbit(s)[j]
  BY <1>2
<1>4. \A i, j \in 0 .. k : i < j \/ j < i \/ i = j
  BY <1>1
<1> QED BY <1>3, <1>4

\* so that it takes fewer steps than there are switches, and the hops lead there.
LEMMA RootIsReached ==
    ASSUME topo \in Topology, NEW s \in Switch, NEW k \in 0 .. MaxRounds - 1, Came(s, k), AtRoot(Orbit(s)[k])
    PROVE  /\ Reaches(s)
           /\ Cardinality({Trail(s, k + 1)[i].switch : i \in DOMAIN Trail(s, k + 1)}) = k + 1
<1> DEFINE C == Cardinality(Switch)
           trail == Trail(s, k + 1)
           visited == {trail[i].switch : i \in DOMAIN trail}
           visit == [i \in 1 .. k + 1 |-> Orbit(s)[i - 1]]
<1>1. MaxRounds \in Nat /\ k \in 0 .. MaxRounds /\ k \in Nat /\ C \in Nat /\ C <= MaxRounds /\ IsFiniteSet(Switch)
  BY Counts
<1>2. \A i, j \in 0 .. k : Orbit(s)[i] = Orbit(s)[j] => i = j
  BY <1>1, NoSwitchTwice
<1>3. IsFiniteSet(1 .. k + 1) /\ Cardinality(1 .. k + 1) = k + 1
  BY <1>1, FS_Interval
<1>4. visit \in [1 .. k + 1 -> Switch] /\ \A i \in 1 .. k + 1 : visit[i] = Orbit(s)[i - 1]
  BY <1>1, OrbitLaws
<1>5. \A i, j \in 1 .. k + 1 : visit[i] = visit[j] => i = j
  BY <1>1, <1>2, <1>4
<1>6. DOMAIN trail = 1 .. k + 1 /\ \A i \in 1 .. k + 1 : trail[i].switch = visit[i]
  BY <1>4 DEF Trail, HopAt
<1> HIDE DEF visit, trail
<1>7. visit \in Injection(1 .. k + 1, Switch)
  BY <1>4, <1>5 DEF Injection, IsInjective
<1>8. k + 1 <= C
  BY <1>1, <1>3, <1>7, FS_Injection
<1>9. visit \in Bijection(1 .. k + 1, visited)
  <2>1. visited = {visit[i] : i \in 1 .. k + 1}
    BY <1>6
  <2> QED BY <1>4, <1>5, <2>1 DEF Bijection, Injection, Surjection, IsInjective
<1>10. Cardinality(visited) = k + 1
  BY <1>3, <1>9, FS_Bijection DEF ExistsBijection
<1>11. Reaches(s)
  <2>1. ~Onward(Orbit(s)[k])
    BY DEF AtRoot, Onward
  <2>2. C \in k .. MaxRounds /\ C \in 0 .. C
    BY <1>1, <1>8
  <2>3. Orbit(s)[C] = Orbit(s)[k]
    BY <1>1, <2>1, <2>2, Stays
  <2>4. Led(s)[C] = Orbit(s)[C]
    BY <2>2, OrbitLaws
  <2> QED BY <2>3, <2>4 DEF Reaches, AtRoot
<1> QED BY <1>10, <1>11 DEF trail

\* Who comes to an end elsewhere, or around, never gets to the root.
LEMMA RootIsNotReached ==
    ASSUME topo \in Topology, NEW s \in Switch, NEW k \in 0 .. MaxRounds - 1, Came(s, k),
           \/ ~Onward(Orbit(s)[k]) /\ ~AtRoot(Orbit(s)[k])
           \/ \E i \in 0 .. k - 1 : Orbit(s)[i] = Orbit(s)[k]
    PROVE  ~Reaches(s)
<1> DEFINE C == Cardinality(Switch)
           M == MaxRounds
<1>1. M \in Nat /\ k \in 0 .. M /\ k \in Nat /\ C \in Nat /\ C <= M /\ C \in 0 .. M /\ C \in 0 .. C
  BY Counts
<1>2. Led(s)[C] = Orbit(s)[C]
  BY <1>1, OrbitLaws
<1>3. SUFFICES ASSUME AtRoot(Orbit(s)[C]) PROVE FALSE
  BY <1>2 DEF Reaches, AtRoot
<1>4. ~Onward(Orbit(s)[C])
  BY <1>3 DEF AtRoot, Onward
<1>5. C >= k
  BY <1>1, <1>4 DEF Came
<1>6. CASE ~Onward(Orbit(s)[k]) /\ ~AtRoot(Orbit(s)[k])
  <2>1. C \in k .. M
    BY <1>1, <1>5
  <2>2. Orbit(s)[C] = Orbit(s)[k]
    BY <1>1, <1>6, <2>1, Stays
  <2> QED BY <1>3, <1>6, <2>2
<1>7. CASE \E i \in 0 .. k - 1 : Orbit(s)[i] = Orbit(s)[k]
  <2> DEFINE Ok == {n \in 0 .. M : \E m \in 0 .. k - 1 : Orbit(s)[n] = Orbit(s)[m]}
  <2>1. k - 1 \in 0 .. k - 1
    BY <1>1, <1>7
  <2>2. 0 \in Ok
    BY <1>1, <2>1
  <2>3. \A n \in 0 .. M : n \in Ok /\ n < M => n + 1 \in Ok
    <3> TAKE n \in 0 .. M
    <3> HAVE n \in Ok /\ n < M
    <3>1. PICK m \in 0 .. k - 1 : Orbit(s)[n] = Orbit(s)[m]
      OBVIOUS
    <3>2. n + 1 \in 0 .. M /\ n + 1 # 0 /\ (n + 1) - 1 = n /\ m + 1 \in 0 .. M /\ m + 1 # 0 /\ (m + 1) - 1 = m
      BY <1>1
    <3>3. Orbit(s)[n + 1] = LeadsTo(Orbit(s)[n]) /\ Orbit(s)[m + 1] = LeadsTo(Orbit(s)[m])
      BY <3>2, LedIs
    <3>4. Orbit(s)[n + 1] = Orbit(s)[m + 1]
      BY <3>1, <3>3
    <3>5. CASE m + 1 \in 0 .. k - 1
      BY <3>2, <3>4, <3>5
    <3>6. CASE m + 1 = k
      BY <1>7, <3>2, <3>4, <3>6
    <3> QED BY <1>1, <3>5, <3>6
  <2>4. 0 .. M \subseteq Ok
    <3> HIDE DEF Ok, M
    <3> QED BY <1>1, <2>2, <2>3, IntervalByInduction
  <2>5. PICK m \in 0 .. k - 1 : Orbit(s)[C] = Orbit(s)[m]
    BY <1>1, <2>4
  <2> QED BY <1>4, <2>5 DEF Came
<1> QED BY <1>6, <1>7

\* The path in a topology.
LEMMA PathInTopology ==
    ASSUME topo \in Topology PROVE PathIsRight
<1> SUFFICES ASSUME NEW s \in Switch
             PROVE  LET w == EgressPath(s)
                    IN  /\ w.status # "walking"
                        /\ w.status = "healthy" <=> (Reaches(s) /\ topo.links # {})
                        /\ w.status = "healthy" =>
                            /\ w.path[1].switch = s /\ Last(w.path).switch = topo.root
                            /\ \A i \in 1 .. Len(w.path) - 1 : w.path[i + 1].in = Peer[w.path[i].out]
                            /\ Cardinality({w.path[i].switch : i \in DOMAIN w.path}) = Len(w.path)
  BY DEF PathIsRight
<1> DEFINE w == EgressPath(s)
<1>1. MaxRounds \in Nat /\ MaxRounds \in 0 .. MaxRounds
  BY Counts
<1>2. CASE topo.links = {}
  BY <1>2, NoLinks
<1>3. CASE topo.links # {}
  <2>1. Walking(s, MaxRounds, w) \/ \E k \in 0 .. MaxRounds - 1 : Ended(s, k, w)
    BY <1>1, <1>3, WalkLaws DEF EgressPath
  <2> HIDE DEF w
  <2>2. PICK k \in 0 .. MaxRounds - 1 : Ended(s, k, w)
    BY <2>1, WalkEnds
  <2>3. CASE w.status # "healthy"
    <3>1. ~Reaches(s) /\ w.status # "walking"
      BY <2>2, <2>3, RootIsNotReached DEF Ended
    <3> QED BY <2>3, <3>1 DEF w
  <2>4. CASE w.status = "healthy"
    <3> DEFINE trail == Trail(s, k + 1)
    <3>1. w.path = trail /\ AtRoot(Orbit(s)[k]) /\ Came(s, k)
      BY <2>2, <2>4 DEF Ended
    <3>2. Reaches(s) /\ Cardinality({trail[i].switch : i \in DOMAIN trail}) = k + 1
      BY <3>1, RootIsReached
    <3>3. Len(trail) = k + 1 /\ DOMAIN trail = 1 .. k + 1 /\ \A i \in 1 .. k + 1 : trail[i] = HopAt(s, i)
      BY <1>1 DEF Trail
    <3> HIDE DEF trail
    <3>4. trail[1].switch = s
      <4>1. 1 \in 1 .. k + 1 /\ 0 \in 0 .. MaxRounds /\ 1 - 1 = 0
        BY <1>1
      <4>2. HopAt(s, 1).switch = Orbit(s)[0]
        BY <4>1 DEF HopAt
      <4>3. Orbit(s)[0] = s
        BY <4>1, LedIs
      <4> QED BY <3>3, <4>1, <4>2, <4>3
    <3>5. Last(trail).switch = topo.root
      <4>1. k + 1 \in 1 .. k + 1 /\ (k + 1) - 1 = k
        BY <1>1
      <4>2. HopAt(s, k + 1).switch = Orbit(s)[k]
        BY <4>1 DEF HopAt
      <4>3. Last(trail) = trail[k + 1]
        BY <3>3 DEF Last
      <4> QED BY <3>1, <3>3, <4>1, <4>2, <4>3 DEF AtRoot
    <3>6. \A i \in 1 .. k : trail[i + 1].in = Peer[trail[i].out]
      <4> TAKE i \in 1 .. k
      <4>1. i \in 1 .. k + 1 /\ i + 1 \in 1 .. k + 1 /\ (i + 1) - 1 = i /\ i # 0
        BY <1>1
      <4>2. trail[i + 1] = HopAt(s, i + 1) /\ trail[i] = HopAt(s, i)
        BY <3>3, <4>1
      <4>3. HopAt(s, i + 1).in = EntryAt(s, i) /\ HopAt(s, i).out = topo.dps[Orbit(s)[i - 1]]
        BY <4>1 DEF HopAt
      <4> QED BY <4>1, <4>2, <4>3 DEF EntryAt
    <3> QED BY <1>1, <1>3, <2>4, <3>1, <3>2, <3>3, <3>4, <3>5, <3>6 DEF w
  <2> QED BY <2>3, <2>4
<1> QED BY <1>2, <1>3

\* The path of each switch that is found leads to the root over links of the graph and
\* comes through no switch twice, and it is found exactly if the hops lead there, in
\* whatever topology is applied, one restored between the hops of two switches included
\* (get_switch_egress_path and _populate_path).
THEOREM PathsLeadToTheRoot == Spec => []PathIsRight
<1>1. DataplaneInvariant => PathIsRight
  <2> SUFFICES ASSUME DataplaneInvariant, topo # None PROVE PathIsRight
    BY DEF PathIsRight
  <2>1. topo \in Topology
    BY DEF DataplaneInvariant, TypeOK
  <2> QED BY <2>1, PathInTopology
<1> QED BY <1>1, DataplaneIsInOrder, PTL

-----------------------------------------------------------------------------
(* The learned hosts: LearnedHosts with the same switches and ports, and its own       *)
(* variables.                                                                           *)

CONSTANTS TypeOf, Mac, Access, MaxHops, Snapshots, MaxResults
VARIABLES learned, switchMacs, tables, radiusResults, macResult, lock, summaryLock, event, radius, http, local, results

Hosts == INSTANCE LearnedHosts

LEMMA HostConstants ==
    ASSUME Hosts!ConfigAssumption
    PROVE  /\ SwitchOf \in [Port -> Switch]
           /\ Snapshots \subseteq Hosts!Table
           /\ MaxResults \in Nat
           /\ None \notin Port
           /\ None \notin Access
           /\ None \notin {"event", "http", "local"}
BY DEF Hosts!ConfigAssumption

-----------------------------------------------------------------------------
(* The tables. *)

TableTypes ==
    /\ learned \in Hosts!Table
    /\ \A m \in Mac, s \in Switch : learned[m][s] # None => SwitchOf[learned[m][s]] = s
    /\ switchMacs \in [Switch -> SUBSET Mac]
    /\ macResult \in [Mac -> Access \cup {None}]

\* A host is only expired at a switch that has a table.
HaveTables ==
    /\ tables \subseteq Switch
    /\ \A m \in Mac, s \in Switch : learned[m][s] # None => s \in tables

SameHosts == \A m \in Mac, s \in Switch : m \in switchMacs[s] <=> learned[m][s] # None

TablesOK == TableTypes /\ HaveTables /\ SameHosts /\ Hosts!NoResultWithoutHost

LEMMA TablesUnchanged == ASSUME TablesOK, UNCHANGED Hosts!hosts PROVE TablesOK'
BY DEF TablesOK, TableTypes, HaveTables, SameHosts, Hosts!NoResultWithoutHost, Hosts!Entry, Hosts!hosts

\* A host is added to both tables.
LEMMA AddKeepsTables ==
    ASSUME Hosts!ConfigAssumption, TablesOK, NEW m \in Mac, NEW p \in Port, Hosts!AddEntry(m, p)
    PROVE  TablesOK' /\ Hosts!Entry(m)'
<1> PICK s \in Switch : s = SwitchOf[p]
  BY HostConstants
<1>0. TableTypes /\ HaveTables /\ SameHosts /\ Hosts!NoResultWithoutHost /\ p # None
  BY HostConstants DEF TablesOK
<1>1. /\ learned' = [learned EXCEPT ![m][s] = p]
      /\ switchMacs' = [switchMacs EXCEPT ![s] = @ \cup {m}]
      /\ tables' = tables \cup {s}
      /\ macResult' = macResult
  BY DEF Hosts!AddEntry
<1>2. /\ learned' \in Hosts!Table
      /\ learned'[m][s] = p
      /\ \A n \in Mac, t \in Switch : n # m \/ t # s => learned'[n][t] = learned[n][t]
  BY <1>0, <1>1 DEF TableTypes, Hosts!Table
<1>3. TableTypes'
  <2>1. \A n \in Mac, t \in Switch : learned'[n][t] # None => SwitchOf[learned'[n][t]] = t
    BY <1>0, <1>2 DEF TableTypes
  <2>2. switchMacs' \in [Switch -> SUBSET Mac]
    BY <1>0, <1>1 DEF TableTypes
  <2> QED BY <1>0, <1>1, <1>2, <2>1, <2>2 DEF TableTypes
<1>4. SameHosts'
  <2> SUFFICES ASSUME NEW n \in Mac, NEW t \in Switch
               PROVE  n \in switchMacs'[t] <=> learned'[n][t] # None
    BY DEF SameHosts
  <2>1. switchMacs'[t] = IF t = s THEN switchMacs[s] \cup {m} ELSE switchMacs[t]
    BY <1>0, <1>1 DEF TableTypes
  <2> QED BY <1>0, <1>2, <2>1 DEF SameHosts
<1>5. Hosts!NoResultWithoutHost'
  <2> SUFFICES ASSUME NEW n \in Mac, macResult[n] # None
               PROVE  \E t \in Switch : learned'[n][t] # None
    BY <1>1 DEF Hosts!NoResultWithoutHost, Hosts!Entry
  <2>1. PICK t \in Switch : learned[n][t] # None
    BY <1>0 DEF Hosts!NoResultWithoutHost, Hosts!Entry
  <2>2. learned'[n][t] # None
    BY <1>0, <1>2, <2>1
  <2> QED BY <2>2
<1>6. Hosts!Entry(m)'
  BY <1>0, <1>2 DEF Hosts!Entry
<1>7. HaveTables'
  BY <1>0, <1>1, <1>2 DEF HaveTables
<1> QED BY <1>3, <1>4, <1>5, <1>6, <1>7 DEF TablesOK

\* Any set of entries is removed from both tables, and the results with the last ones.
LEMMA RemoveKeepsTables ==
    ASSUME TablesOK, NEW pairs, Hosts!RemoveEntries(pairs)
    PROVE  TablesOK'
<1>0. TableTypes /\ HaveTables /\ SameHosts /\ Hosts!NoResultWithoutHost
  BY DEF TablesOK
<1>1. /\ learned' = [m \in Mac |-> [s \in Switch |-> IF <<m, s>> \in pairs THEN None ELSE learned[m][s]]]
      /\ switchMacs' = [s \in Switch |-> {m \in switchMacs[s] : <<m, s>> \notin pairs}]
      /\ macResult' = [m \in Mac |-> IF \A s \in Switch : learned'[m][s] = None THEN None ELSE macResult[m]]
      /\ tables' = tables
  BY DEF Hosts!RemoveEntries
<1>2. \A m \in Mac, s \in Switch : learned'[m][s] = IF <<m, s>> \in pairs THEN None ELSE learned[m][s]
  BY <1>1
<1>3. learned' \in Hosts!Table
  <2>1. \A m \in Mac, s \in Switch : learned[m][s] \in Port \cup {None}
    BY <1>0 DEF TableTypes, Hosts!Table
  <2> QED BY <1>1, <2>1 DEF Hosts!Table
<1>4. ASSUME NEW m \in Mac, NEW s \in Switch, learned'[m][s] # None PROVE SwitchOf[learned'[m][s]] = s
  <2>1. learned'[m][s] = learned[m][s]
    BY <1>2, <1>4
  <2> QED BY <1>0, <1>4, <2>1 DEF TableTypes
<1>5. switchMacs' \in [Switch -> SUBSET Mac] /\ macResult' \in [Mac -> Access \cup {None}]
  <2>1. switchMacs' \in [Switch -> SUBSET Mac]
    BY <1>0, <1>1 DEF TableTypes
  <2>2. \A m \in Mac : macResult'[m] \in Access \cup {None}
    BY <1>0, <1>1 DEF TableTypes
  <2>3. macResult' = [m \in Mac |-> macResult'[m]]
    BY <1>1
  <2> QED BY <2>1, <2>2, <2>3
<1>6. SameHosts'
  <2> SUFFICES ASSUME NEW m \in Mac, NEW s \in Switch
               PROVE  m \in switchMacs'[s] <=> learned'[m][s] # None
    BY DEF SameHosts
  <2>1. m \in switchMacs'[s] <=> m \in switchMacs[s] /\ <<m, s>> \notin pairs
    BY <1>1
  <2> QED BY <1>0, <1>2, <2>1 DEF SameHosts
<1>7. Hosts!NoResultWithoutHost'
  BY <1>1 DEF Hosts!NoResultWithoutHost, Hosts!Entry
<1>8. HaveTables'
  BY <1>0, <1>1, <1>2 DEF HaveTables
<1> QED BY <1>3, <1>4, <1>5, <1>6, <1>7, <1>8 DEF TablesOK, TableTypes

\* A result is stored for a learned host only.
LEMMA ResultKeepsTables ==
    ASSUME TablesOK, UNCHANGED <<learned, switchMacs, tables>>, NEW m \in Mac, Hosts!Entry(m), NEW a \in Access,
           macResult' = [macResult EXCEPT ![m] = a]
    PROVE  TablesOK'
<1>0. TableTypes /\ HaveTables /\ SameHosts /\ Hosts!NoResultWithoutHost
  BY DEF TablesOK
<1>1. TableTypes' /\ HaveTables' /\ SameHosts'
  BY <1>0 DEF TableTypes, HaveTables, SameHosts
<1>2. Hosts!NoResultWithoutHost'
  BY <1>0 DEF TableTypes, Hosts!NoResultWithoutHost, Hosts!Entry
<1> QED BY <1>1, <1>2 DEF TablesOK

-----------------------------------------------------------------------------
(* The threads. *)

EventTypes ==
    \/ event = Hosts!Idle
    \/ event = [at |-> "ended"]
    \/ event \in [at : {"result"}, mac : Mac, port : Port, rest : Hosts!Table]
    \/ event \in [at : {"store"}, mac : Mac, port : Port, rest : Hosts!Table, result : Access \cup {None}]
    \/ event \in [at : {"cleanup", "relearn"}, rest : Hosts!Table]

\* While the main loop looks for the result of a host it has the lock, and nobody forgets the host.
HostIsThere == event.at \in {"result", "store"} => Hosts!Entry(event.mac)

RadiusTypes == radius = Hosts!Idle \/ radius \in [at : {"store"}, mac : Mac, result : Access]

HttpTypes ==
    \/ http = Hosts!Idle
    \/ http = [at |-> "summary"]
    \/ http \in [at : {"switch"}, left : SUBSET Switch]
    \/ \E size : http \in [at : {"list"}, size : {size}, seen : SUBSET Mac]

LocalTypes == local = Hosts!Idle \/ local = [at |-> "cleanup"]

LocksOK ==
    /\ lock = "event" <=> event.at \in {"result", "store"}
    /\ lock = "local" <=> local.at = "cleanup"
    /\ lock \in {"event", "local", None}
    /\ summaryLock = "event" <=> event.at = "cleanup"
    /\ summaryLock = "http" <=> http.at \in {"summary", "switch", "list"}
    /\ summaryLock \in {"event", "http", None}

ThreadsOK == EventTypes /\ HostIsThere /\ RadiusTypes /\ HttpTypes /\ LocalTypes /\ LocksOK

ResultTypes == radiusResults \in [Mac -> Access \cup {None}] /\ results \in 0 .. MaxResults

\* The inductive invariant.
HostsInvariant == TablesOK /\ ThreadsOK /\ ResultTypes

LEMMA InitHosts == ASSUME Hosts!ConfigAssumption, Hosts!Init PROVE HostsInvariant
<1>1. TablesOK
  <2>1. learned \in Hosts!Table /\ \A m \in Mac, s \in Switch : learned[m][s] = None
    BY DEF Hosts!Init, Hosts!Nowhere, Hosts!Table
  <2> QED BY <2>1 DEF Hosts!Init, TablesOK, TableTypes, HaveTables, SameHosts, Hosts!NoResultWithoutHost
<1>2. ThreadsOK
  BY HostConstants DEF Hosts!Init, ThreadsOK, EventTypes, HostIsThere, RadiusTypes, HttpTypes, LocalTypes, LocksOK, Hosts!Idle
<1>3. ResultTypes
  BY HostConstants DEF Hosts!Init, ResultTypes
<1> QED BY <1>1, <1>2, <1>3 DEF HostsInvariant

\* What a step leaves alone keeps its part of the invariant.
LEMMA Untouched ==
    ASSUME Hosts!ConfigAssumption, HostsInvariant
    PROVE  /\ UNCHANGED Hosts!hosts => TablesOK'
           /\ UNCHANGED radius => RadiusTypes'
           /\ UNCHANGED http => HttpTypes'
           /\ UNCHANGED local => LocalTypes'
           /\ UNCHANGED event => EventTypes'
           /\ UNCHANGED <<radiusResults, results>> => ResultTypes'
           /\ UNCHANGED <<event, learned>> => HostIsThere'
           /\ UNCHANGED <<event, http, local, lock, summaryLock>> => LocksOK'
<1>1. UNCHANGED Hosts!hosts => TablesOK'
  BY TablesUnchanged DEF HostsInvariant
<1>2. UNCHANGED radius => RadiusTypes'
  BY DEF HostsInvariant, ThreadsOK, RadiusTypes
<1>3. UNCHANGED http => HttpTypes'
  BY Zenon DEF HostsInvariant, ThreadsOK, HttpTypes
<1>4. UNCHANGED local => LocalTypes'
  BY DEF HostsInvariant, ThreadsOK, LocalTypes
<1>5. UNCHANGED event => EventTypes'
  BY Zenon DEF HostsInvariant, ThreadsOK, EventTypes
<1>6. UNCHANGED <<radiusResults, results>> => ResultTypes'
  BY DEF HostsInvariant, ResultTypes
<1>7. UNCHANGED <<event, learned>> => HostIsThere'
  BY DEF HostsInvariant, ThreadsOK, HostIsThere, Hosts!Entry
<1>8. UNCHANGED <<event, http, local, lock, summaryLock>> => LocksOK'
  BY DEF HostsInvariant, ThreadsOK, LocksOK
<1> QED BY <1>1, <1>2, <1>3, <1>4, <1>5, <1>6, <1>7, <1>8

\* The main loop.
LEMMA LearnKeeps ==
    ASSUME Hosts!ConfigAssumption, HostsInvariant, NEW m \in Mac, NEW p \in Port, Hosts!Learn(m, p)
    PROVE  HostsInvariant'
<1>0. TablesOK /\ LocksOK /\ event.at = "idle"
  BY DEF HostsInvariant, ThreadsOK, Hosts!Learn, Hosts!Idle
<1>1. /\ Hosts!AddEntry(m, p) /\ event' = Hosts!LearnAt(m, p, Hosts!Nowhere) /\ lock = None /\ lock' = "event"
      /\ UNCHANGED <<radiusResults, summaryLock, radius, http, local, results>>
  BY DEF Hosts!Learn
<1>2. TablesOK' /\ Hosts!Entry(m)'
  BY <1>0, <1>1, AddKeepsTables
<1>3. /\ event'.at = "result" /\ event'.mac = m
      /\ event' \in [at : {"result"}, mac : Mac, port : Port, rest : Hosts!Table]
  <2>1. Hosts!Nowhere \in Hosts!Table
    BY DEF Hosts!Nowhere, Hosts!Table
  <2> QED BY <1>1, <2>1 DEF Hosts!LearnAt
<1>4. EventTypes' /\ HostIsThere'
  BY <1>2, <1>3 DEF EventTypes, HostIsThere, Hosts!Entry
<1>5. LocksOK'
  BY <1>0, <1>1, <1>3, HostConstants DEF LocksOK
<1> QED BY <1>1, <1>2, <1>4, <1>5, Untouched DEF HostsInvariant, ThreadsOK

LEMMA ReadResultKeeps == ASSUME Hosts!ConfigAssumption, HostsInvariant, Hosts!ReadResult PROVE HostsInvariant'
<1>0. TablesOK /\ LocksOK /\ HostIsThere /\ event \in [at : {"result"}, mac : Mac, port : Port, rest : Hosts!Table]
  BY DEF HostsInvariant, ThreadsOK, Hosts!ReadResult, EventTypes, Hosts!Idle
<1>1. /\ event.at = "result"
      /\ event' = [at |-> "store", mac |-> event.mac, port |-> event.port, rest |-> event.rest,
                   result |-> radiusResults[event.mac]]
      /\ UNCHANGED <<Hosts!hosts, radiusResults, lock, summaryLock, radius, http, local, results>>
  BY DEF Hosts!ReadResult
<1>2. radiusResults[event.mac] \in Access \cup {None}
  BY <1>0 DEF HostsInvariant, ResultTypes
<1>3. /\ event'.at = "store" /\ event'.mac = event.mac
      /\ event' \in [at : {"store"}, mac : Mac, port : Port, rest : Hosts!Table, result : Access \cup {None}]
  BY <1>0, <1>1, <1>2
<1>4. EventTypes' /\ HostIsThere'
  BY <1>0, <1>1, <1>3 DEF EventTypes, HostIsThere, Hosts!Entry, Hosts!hosts
<1>5. LocksOK'
  BY <1>0, <1>1, <1>3 DEF LocksOK
<1> QED BY <1>1, <1>4, <1>5, Untouched DEF HostsInvariant, ThreadsOK

LEMMA StoreResultKeeps == ASSUME Hosts!ConfigAssumption, HostsInvariant, Hosts!StoreResult PROVE HostsInvariant'
<1>0. /\ TablesOK /\ LocksOK /\ HostIsThere
      /\ event \in [at : {"store"}, mac : Mac, port : Port, rest : Hosts!Table, result : Access \cup {None}]
  BY DEF HostsInvariant, ThreadsOK, Hosts!StoreResult, EventTypes, Hosts!Idle
<1> PICK m \in Mac : m = event.mac
  BY <1>0
<1>1. /\ event.at = "store" /\ lock' = None
      /\ macResult' = IF event.result # None THEN [macResult EXCEPT ![m] = event.result] ELSE macResult
      /\ event' \in {[at |-> "ended"], Hosts!Idle, [at |-> "relearn", rest |-> event.rest]}
      /\ UNCHANGED <<learned, switchMacs, tables, radiusResults, summaryLock, radius, http, local, results>>
  BY DEF Hosts!StoreResult
<1>2. TablesOK'
  <2>1. CASE event.result # None
    <3>1. event.result \in Access /\ Hosts!Entry(m)
      BY <1>0, <1>1, <2>1 DEF HostIsThere
    <3>2. macResult' = [macResult EXCEPT ![m] = event.result]
      BY <1>1, <2>1
    <3> QED BY <1>0, <1>1, <3>1, <3>2, ResultKeepsTables
  <2>2. CASE event.result = None
    BY <1>0, <1>1, <2>2, TablesUnchanged DEF Hosts!hosts
  <2> QED BY <2>1, <2>2
<1>3. EventTypes' /\ event'.at \in {"ended", "idle", "relearn"}
  BY <1>0, <1>1 DEF EventTypes, Hosts!Idle
<1>4. HostIsThere'
  BY <1>3 DEF HostIsThere
<1>5. LocksOK'
  BY <1>0, <1>1, <1>3, HostConstants DEF LocksOK
<1> QED BY <1>1, <1>2, <1>3, <1>4, <1>5, Untouched DEF HostsInvariant, ThreadsOK

LEMMA ExpireKeeps ==
    ASSUME Hosts!ConfigAssumption, HostsInvariant, NEW m \in Mac, NEW s \in Switch, Hosts!Expire(m, s)
    PROVE  HostsInvariant'
<1>0. event = Hosts!Idle /\ UNCHANGED <<radiusResults, lock, summaryLock, radius, http, local, results>>
  BY DEF Hosts!Expire
<1>1. CASE s \in tables
  <2>1. Hosts!RemoveEntries({<<m, s>>}) /\ UNCHANGED event
    BY <1>1 DEF Hosts!Expire
  <2>2. TablesOK'
    BY <2>1, RemoveKeepsTables DEF HostsInvariant
  <2>3. HostIsThere'
    BY <1>0, <2>1 DEF HostIsThere, Hosts!Idle
  <2> QED BY <1>0, <2>1, <2>2, <2>3, Untouched DEF HostsInvariant, ThreadsOK
<1>2. CASE s \notin tables
  <2>1. event' = [at |-> "ended"] /\ UNCHANGED Hosts!hosts
    BY <1>2 DEF Hosts!Expire
  <2>2. EventTypes' /\ HostIsThere'
    BY <2>1 DEF EventTypes, HostIsThere
  <2>3. LocksOK'
    BY <1>0, <2>1 DEF HostsInvariant, ThreadsOK, LocksOK, Hosts!Idle
  <2> QED BY <1>0, <2>1, <2>2, <2>3, Untouched DEF HostsInvariant, ThreadsOK
<1> QED BY <1>1, <1>2

LEMMA RestoreBeginsKeeps == ASSUME Hosts!ConfigAssumption, HostsInvariant, Hosts!RestoreBegins PROVE HostsInvariant'
<1>0. LocksOK /\ event.at = "idle"
  BY DEF HostsInvariant, ThreadsOK, Hosts!RestoreBegins, Hosts!Idle
<1>1. PICK snapshot \in Snapshots : event' = [at |-> "cleanup", rest |-> snapshot]
  BY DEF Hosts!RestoreBegins
<1>2. /\ summaryLock = None /\ summaryLock' = "event"
      /\ UNCHANGED <<Hosts!hosts, radiusResults, lock, radius, http, local, results>>
  BY DEF Hosts!RestoreBegins
<1>3. event'.at = "cleanup" /\ event' \in [at : {"cleanup", "relearn"}, rest : Hosts!Table]
  BY <1>1, HostConstants
<1>4. EventTypes' /\ HostIsThere'
  BY <1>3 DEF EventTypes, HostIsThere
<1>5. LocksOK'
  BY <1>0, <1>2, <1>3, HostConstants DEF LocksOK
<1> QED BY <1>2, <1>4, <1>5, Untouched DEF HostsInvariant, ThreadsOK

LEMMA RestoreCleansKeeps == ASSUME Hosts!ConfigAssumption, HostsInvariant, Hosts!RestoreCleans PROVE HostsInvariant'
<1>0. TablesOK /\ LocksOK /\ event \in [at : {"cleanup", "relearn"}, rest : Hosts!Table]
  BY DEF HostsInvariant, ThreadsOK, Hosts!RestoreCleans, EventTypes, Hosts!Idle
<1>1. /\ event.at = "cleanup" /\ Hosts!RemoveEntries(Hosts!AllEntries) /\ summaryLock' = None
      /\ event' \in {Hosts!Idle, [event EXCEPT !.at = "relearn"]}
      /\ UNCHANGED <<radiusResults, lock, radius, http, local, results>>
  BY DEF Hosts!RestoreCleans
<1>2. TablesOK'
  BY <1>0, <1>1, RemoveKeepsTables
<1>3. EventTypes' /\ event'.at \in {"idle", "relearn"}
  BY <1>0, <1>1 DEF EventTypes, Hosts!Idle
<1>4. HostIsThere'
  BY <1>3 DEF HostIsThere
<1>5. LocksOK'
  BY <1>0, <1>1, <1>3, HostConstants DEF LocksOK
<1> QED BY <1>1, <1>2, <1>3, <1>4, <1>5, Untouched DEF HostsInvariant, ThreadsOK

LEMMA RestoreLearnsKeeps == ASSUME Hosts!ConfigAssumption, HostsInvariant, Hosts!RestoreLearns PROVE HostsInvariant'
<1>0. TablesOK /\ LocksOK /\ event.at = "relearn" /\ event.rest \in Hosts!Table
  BY DEF HostsInvariant, ThreadsOK, Hosts!RestoreLearns, EventTypes, Hosts!Idle
<1>1. PICK m \in Mac, s \in Switch :
        /\ event.rest[m][s] # None
        /\ Hosts!AddEntry(m, event.rest[m][s])
        /\ event' = Hosts!LearnAt(m, event.rest[m][s], [event.rest EXCEPT ![m][s] = None])
  BY DEF Hosts!RestoreLearns
<1> PICK p \in Port : p = event.rest[m][s]
  BY <1>0, <1>1 DEF Hosts!Table
<1> PICK rest \in Hosts!Table : rest = [event.rest EXCEPT ![m][s] = None]
  BY <1>0 DEF Hosts!Table
<1>2. /\ lock = None /\ lock' = "event"
      /\ UNCHANGED <<radiusResults, summaryLock, radius, http, local, results>>
  BY DEF Hosts!RestoreLearns
<1>3. TablesOK' /\ Hosts!Entry(m)'
  BY <1>0, <1>1, AddKeepsTables
<1>4. /\ event'.at = "result" /\ event'.mac = m
      /\ event' \in [at : {"result"}, mac : Mac, port : Port, rest : Hosts!Table]
  BY <1>1 DEF Hosts!LearnAt
<1>5. EventTypes' /\ HostIsThere'
  BY <1>3, <1>4 DEF EventTypes, HostIsThere, Hosts!Entry
<1>6. LocksOK'
  BY <1>0, <1>2, <1>4, HostConstants DEF LocksOK
<1> QED BY <1>2, <1>3, <1>5, <1>6, Untouched DEF HostsInvariant, ThreadsOK

\* The RADIUS thread.
LEMMA SetResultKeeps ==
    ASSUME Hosts!ConfigAssumption, HostsInvariant, NEW m \in Mac, NEW a \in Access, Hosts!SetResult(m, a)
    PROVE  HostsInvariant'
<1>1. /\ results < MaxResults /\ results' = results + 1
      /\ radiusResults' = [radiusResults EXCEPT ![m] = a]
      /\ radius' = [at |-> "store", mac |-> m, result |-> a]
      /\ UNCHANGED <<Hosts!hosts, lock, summaryLock, event, http, local>>
  BY DEF Hosts!SetResult
<1>2. RadiusTypes'
  BY <1>1 DEF RadiusTypes
<1>3. ResultTypes'
  BY <1>1, HostConstants DEF HostsInvariant, ResultTypes
<1> QED BY <1>1, <1>2, <1>3, Untouched DEF HostsInvariant, ThreadsOK, Hosts!hosts

LEMMA ShowResultKeeps == ASSUME Hosts!ConfigAssumption, HostsInvariant, Hosts!ShowResult PROVE HostsInvariant'
<1>0. TablesOK /\ radius \in [at : {"store"}, mac : Mac, result : Access]
  BY DEF HostsInvariant, ThreadsOK, Hosts!ShowResult, RadiusTypes, Hosts!Idle
<1>1. /\ macResult' = IF Hosts!Entry(radius.mac) THEN [macResult EXCEPT ![radius.mac] = radius.result] ELSE macResult
      /\ radius' = Hosts!Idle
      /\ UNCHANGED <<learned, switchMacs, tables, radiusResults, lock, summaryLock, event, http, local, results>>
  BY DEF Hosts!ShowResult
<1>2. TablesOK'
  <2>1. CASE Hosts!Entry(radius.mac)
    BY <1>0, <1>1, <2>1, ResultKeepsTables
  <2>2. CASE ~Hosts!Entry(radius.mac)
    BY <1>0, <1>1, <2>2, TablesUnchanged DEF Hosts!hosts
  <2> QED BY <2>1, <2>2
<1>3. RadiusTypes'
  BY <1>1 DEF RadiusTypes
<1> QED BY <1>1, <1>2, <1>3, Untouched DEF HostsInvariant, ThreadsOK

\* A request changes its own state and its own lock.
LEMMA HttpKeeps ==
    ASSUME Hosts!ConfigAssumption, HostsInvariant,
           UNCHANGED <<Hosts!hosts, radiusResults, lock, event, radius, local, results>>,
           HttpTypes',
           \/ summaryLock = None /\ summaryLock' = "http" /\ http'.at \in {"summary", "switch", "list"}
           \/ http.at \in {"summary", "switch", "list"} /\ summaryLock' = None /\ http' = Hosts!Idle
           \/ http.at \in {"switch", "list"} /\ summaryLock' = summaryLock /\ http'.at = http.at
    PROVE  HostsInvariant'
<1>1. LocksOK'
  BY HostConstants DEF HostsInvariant, ThreadsOK, LocksOK, Hosts!Idle
<1> QED BY <1>1, Untouched DEF HostsInvariant, ThreadsOK, Hosts!hosts

LEMMA RequestKeeps == ASSUME Hosts!ConfigAssumption, HostsInvariant, Hosts!Request \/ Hosts!Serve PROVE HostsInvariant'
<1>0. UNCHANGED <<Hosts!hosts, radiusResults, lock, event, radius, local, results>>
  BY DEF Hosts!Request, Hosts!Serve, Hosts!HostSummary, Hosts!GetSwitches, Hosts!GetSwitch, Hosts!SwitchesEnd,
         Hosts!FillBehaviorFails, Hosts!ListHost, Hosts!ListEnds
<1>1. CASE Hosts!Request
  <2>1. summaryLock = None /\ summaryLock' = "http"
    BY <1>1 DEF Hosts!Request
  <2> PICK size : http' \in {[at |-> "summary"], [at |-> "switch", left |-> Switch],
                            [at |-> "list", size |-> size, seen |-> {}]}
    BY <1>1, Zenon DEF Hosts!Request
  <2>2. HttpTypes' /\ http'.at \in {"summary", "switch", "list"}
    <3>1. CASE http' = [at |-> "summary"]
      BY <3>1 DEF HttpTypes
    <3>2. CASE http' = [at |-> "switch", left |-> Switch]
      BY <3>2 DEF HttpTypes
    <3>3. CASE http' = [at |-> "list", size |-> size, seen |-> {}]
      BY <3>3 DEF HttpTypes
    <3> QED BY <3>1, <3>2, <3>3
  <2> QED BY <1>0, <2>1, <2>2, HttpKeeps
<1>2. ASSUME http.at \in {"summary", "switch", "list"}, summaryLock' = None, http' = Hosts!Idle
      PROVE  HostsInvariant'
  <2>1. HttpTypes'
    BY <1>2 DEF HttpTypes
  <2> QED BY <1>0, <1>2, <2>1, HttpKeeps
<1>3. CASE Hosts!HostSummary \/ Hosts!SwitchesEnd \/ Hosts!FillBehaviorFails \/ Hosts!ListEnds
  BY <1>2, <1>3 DEF Hosts!HostSummary, Hosts!SwitchesEnd, Hosts!FillBehaviorFails, Hosts!ListEnds
<1>4. ASSUME NEW s \in Switch, Hosts!GetSwitch(s) PROVE HostsInvariant'
  <2>1. http.at = "switch" /\ http' = [http EXCEPT !.left = @ \ {s}] /\ summaryLock' = summaryLock
    BY <1>4 DEF Hosts!GetSwitch
  <2>2. http \in [at : {"switch"}, left : SUBSET Switch]
    BY <2>1 DEF HostsInvariant, ThreadsOK, HttpTypes, Hosts!Idle
  <2>3. http' \in [at : {"switch"}, left : SUBSET Switch] /\ http'.at = http.at
    BY <2>1, <2>2
  <2>4. HttpTypes'
    BY <2>3 DEF HttpTypes
  <2> QED BY <1>0, <2>1, <2>3, <2>4, HttpKeeps
<1>5. CASE Hosts!ListHost
  <2>1. http.at = "list" /\ summaryLock' = summaryLock
    BY <1>5 DEF Hosts!ListHost
  <2>2. PICK m \in Mac : http' = [http EXCEPT !.seen = @ \cup {m}]
    BY <1>5 DEF Hosts!ListHost, Hosts!Learnt
  <2>3. PICK size : http \in [at : {"list"}, size : {size}, seen : SUBSET Mac]
    BY <2>1 DEF HostsInvariant, ThreadsOK, HttpTypes, Hosts!Idle
  <2>4. http' \in [at : {"list"}, size : {size}, seen : SUBSET Mac] /\ http'.at = http.at
    BY <2>2, <2>3
  <2>5. HttpTypes'
    BY <2>4 DEF HttpTypes
  <2> QED BY <1>0, <2>1, <2>4, <2>5, HttpKeeps
<1> QED BY <1>1, <1>3, <1>4, <1>5 DEF Hosts!Serve, Hosts!GetSwitches

\* The local state collector.
LEMMA CleanupKeeps == ASSUME Hosts!ConfigAssumption, HostsInvariant, Hosts!Cleanup PROVE HostsInvariant'
<1>1. /\ local = Hosts!Idle /\ lock = None /\ lock' = "local" /\ local' = [at |-> "cleanup"]
      /\ UNCHANGED <<Hosts!hosts, radiusResults, summaryLock, event, radius, http, results>>
  BY DEF Hosts!Cleanup
<1>2. LocalTypes'
  BY <1>1 DEF LocalTypes
<1>3. LocksOK'
  BY <1>1, HostConstants DEF HostsInvariant, ThreadsOK, LocksOK
<1> QED BY <1>1, <1>2, <1>3, Untouched DEF HostsInvariant, ThreadsOK, Hosts!hosts

LEMMA CleanupLearnedMacsKeeps == ASSUME Hosts!ConfigAssumption, HostsInvariant, Hosts!CleanupLearnedMacs PROVE HostsInvariant'
<1>1. /\ local.at = "cleanup" /\ Hosts!RemoveEntries(Hosts!AllEntries) /\ lock' = None /\ local' = Hosts!Idle
      /\ UNCHANGED <<radiusResults, summaryLock, event, radius, http, results>>
  BY DEF Hosts!CleanupLearnedMacs
<1>2. TablesOK'
  BY <1>1, RemoveKeepsTables DEF HostsInvariant
<1>3. lock = "local" /\ event.at \notin {"result", "store"}
  BY <1>1, HostConstants DEF HostsInvariant, ThreadsOK, LocksOK
<1>4. HostIsThere'
  BY <1>1, <1>3 DEF HostIsThere
<1>5. LocalTypes' /\ local'.at = "idle"
  BY <1>1 DEF LocalTypes, Hosts!Idle
<1>6. LocksOK'
  BY <1>1, <1>3, <1>5, HostConstants DEF HostsInvariant, ThreadsOK, LocksOK
<1> QED BY <1>1, <1>2, <1>4, <1>5, <1>6, Untouched DEF HostsInvariant, ThreadsOK

-----------------------------------------------------------------------------
LEMMA NextHosts == ASSUME Hosts!ConfigAssumption, HostsInvariant, [Hosts!Next]_Hosts!vars PROVE HostsInvariant'
<1>1. CASE Hosts!MainLoop
  <2>1. ASSUME NEW e \in Hosts!L2Learn, Hosts!Learn(e.eth_src, e.port_no) PROVE HostsInvariant'
    <3>1. e.eth_src \in Mac /\ e.port_no \in Port
      BY DEF Hosts!L2Learn
    <3> QED BY <2>1, <3>1, LearnKeeps
  <2>2. ASSUME NEW e \in Hosts!L2Expire, Hosts!Expire(e.eth_src, e.dp_name) PROVE HostsInvariant'
    <3>1. e.eth_src \in Mac /\ e.dp_name \in Switch
      BY DEF Hosts!L2Expire
    <3> QED BY <2>2, <3>1, ExpireKeeps
  <2> QED BY <1>1, <2>1, <2>2, RestoreBeginsKeeps DEF Hosts!MainLoop
<1>2. CASE Hosts!Continue
  BY <1>2, ReadResultKeeps, StoreResultKeeps, RestoreCleansKeeps, RestoreLearnsKeeps DEF Hosts!Continue
<1>3. ASSUME NEW m \in Mac, NEW a \in Access, Hosts!SetResult(m, a) PROVE HostsInvariant'
  BY <1>3, SetResultKeeps
<1>4. CASE UNCHANGED Hosts!vars
  <2>1. UNCHANGED <<Hosts!hosts, radiusResults, lock, summaryLock, event, radius, http, local, results>>
    BY <1>4 DEF Hosts!vars, Hosts!threads
  <2> QED BY <2>1, Untouched DEF HostsInvariant, ThreadsOK, Hosts!hosts
<1> QED BY <1>1, <1>2, <1>3, <1>4, ShowResultKeeps, RequestKeeps, CleanupKeeps, CleanupLearnedMacsKeeps DEF Hosts!Next

\* The table of each switch and that of each host say the same and only learned hosts show
\* a RADIUS result, although results come without a lock and the metrics of Faucet replace
\* everything host by host; the locks are held by those inside them (process_port_learn,
\* process_port_expire, _cleanup_learned_macs, update_radius_result).
THEOREM TablesAlwaysAgree == ASSUME Hosts!ConfigAssumption PROVE Hosts!Spec => []Hosts!Inv
<1>1. Hosts!Spec => []HostsInvariant
  <2>1. Hosts!Init => HostsInvariant
    BY InitHosts
  <2>2. HostsInvariant /\ [Hosts!Next]_Hosts!vars => HostsInvariant'
    BY NextHosts
  <2> QED BY <2>1, <2>2, PTL DEF Hosts!Spec
<1>2. HostsInvariant => Hosts!Inv
  <2> SUFFICES ASSUME HostsInvariant PROVE Hosts!Inv
    OBVIOUS
  <2>1. Hosts!TypeOK
    BY DEF HostsInvariant, TablesOK, TableTypes, HaveTables, ThreadsOK, LocksOK, ResultTypes, Hosts!TypeOK
  <2>2. Hosts!TablesAgree
    <3> SUFFICES ASSUME NEW m \in Mac, NEW s \in Switch
                 PROVE  /\ m \in switchMacs[s] <=> learned[m][s] # None
                        /\ learned[m][s] # None => s \in tables
                        /\ s \in Hosts!AccessSwitches(m) => m \in Hosts!FillLearnedMacs(s).access_port_macs
      BY DEF Hosts!TablesAgree
    <3>1. m \in switchMacs[s] <=> learned[m][s] # None
      BY DEF HostsInvariant, TablesOK, SameHosts
    <3>2. Hosts!FillLearnedMacs(s).access_port_macs =
              {n \in switchMacs[s] : learned[n][s] # None /\ TypeOf[learned[n][s]] \in {"access", "sequester"}}
      BY DEF Hosts!FillLearnedMacs
    <3>3. learned[m][s] # None => s \in tables
      BY DEF HostsInvariant, TablesOK, HaveTables
    <3> QED BY <3>1, <3>2, <3>3 DEF Hosts!AccessSwitches
  <2> QED BY <2>1, <2>2 DEF HostsInvariant, TablesOK, Hosts!Inv
<1> QED BY <1>1, <1>2, PTL

-----------------------------------------------------------------------------
(* The path of a host. *)

\* Where the walk to d, learned at the switch b last, is after n steps.
Towards(d, b, s) ==
    IF s # b /\ learned[d][s] \in Hosts!StackPort THEN SwitchOf[Peer[learned[d][s]]] ELSE s

Route(d, b, a) ==
    LET route[n \in 0 .. MaxHops] == IF n = 0 THEN a ELSE Towards(d, b, route[n - 1])
    IN  route

IsRoute(f, d, b, a, last) == f = [n \in 0 .. last |-> IF n = 0 THEN a ELSE Towards(d, b, f[n - 1])]

LEMMA RouteExists ==
    ASSUME NEW d, NEW a, NEW b, NEW last \in Nat
    PROVE  \E f : IsRoute(f, d, b, a, last)
<1> DEFINE Ok == {k \in Nat : \E f : f = [n \in 0 .. k |-> IF n = 0 THEN a ELSE Towards(d, b, f[n - 1])]}
<1>1. 0 \in Ok
  <2>1. [n \in 0 .. 0 |-> a] = [n \in 0 .. 0 |-> IF n = 0 THEN a ELSE Towards(d, b, [k \in 0 .. 0 |-> a][n - 1])]
    OBVIOUS
  <2> QED BY <2>1
<1>2. ASSUME NEW k \in Nat, k \in Ok PROVE k + 1 \in Ok
  <2>1. PICK f : f = [n \in 0 .. k |-> IF n = 0 THEN a ELSE Towards(d, b, f[n - 1])]
    BY <1>2
  <2> DEFINE g == [n \in 0 .. k + 1 |-> IF n = k + 1 THEN Towards(d, b, f[k]) ELSE f[n]]
  <2>2. \A n \in 0 .. k + 1 : g[n] = IF n = 0 THEN a ELSE Towards(d, b, g[n - 1])
    <3>1. \A n \in 0 .. k : f[n] = IF n = 0 THEN a ELSE Towards(d, b, f[n - 1])
      BY <2>1
    <3>2. (\A n \in 0 .. k : g[n] = f[n]) /\ g[k + 1] = Towards(d, b, f[k])
      OBVIOUS
    <3> HIDE DEF g
    <3> QED BY <3>1, <3>2
  <2>3. g = [n \in 0 .. k + 1 |-> IF n = 0 THEN a ELSE Towards(d, b, g[n - 1])]
    BY <2>2
  <2> HIDE DEF g
  <2> QED BY <2>3
<1>3. Nat \subseteq Ok
  <2> HIDE DEF Ok
  <2> QED BY <1>1, <1>2, NaturalsByInduction
<1> QED BY <1>3 DEF IsRoute

LEMMA RouteIs ==
    ASSUME MaxHops \in Nat, NEW d, NEW a, NEW b
    PROVE  \A n \in 0 .. MaxHops : Route(d, b, a)[n] = IF n = 0 THEN a ELSE Towards(d, b, Route(d, b, a)[n - 1])
<1>1. \E route : IsRoute(route, d, b, a, MaxHops)
  BY RouteExists
<1>2. Route(d, b, a) = [n \in 0 .. MaxHops |-> IF n = 0 THEN a ELSE Towards(d, b, Route(d, b, a)[n - 1])]
  BY ONLY <1>1, Zenon DEF Route, IsRoute
<1> QED BY <1>2

\* After n rounds a walk from a port has come n steps along the route, or it has ended.
InAt(src, d, b, a, n) == IF n = 0 THEN learned[src][a] ELSE Peer[learned[d][Route(d, b, a)[n - 1]]]
HostHopAt(src, d, b, a, i) ==
    Hosts!Hop(Route(d, b, a)[i - 1], InAt(src, d, b, a, i - 1), learned[d][Route(d, b, a)[i - 1]])
HostTrail(src, d, b, a, n) == [i \in 1 .. n |-> HostHopAt(src, d, b, a, i)]

HostCame(d, b, a, n) ==
    \A i \in 0 .. n - 1 : Route(d, b, a)[i] # b /\ learned[d][Route(d, b, a)[i]] \in Hosts!StackPort

HostWalking(src, d, b, a, n, w) ==
    /\ w = Walk(HostTrail(src, d, b, a, n), Route(d, b, a)[n], InAt(src, d, b, a, n))
    /\ HostCame(d, b, a, n)

HostFound(src, d, b, a, k, w) ==
    HostCame(d, b, a, k) /\ Route(d, b, a)[k] = b /\ w.path = HostTrail(src, d, b, a, k + 1)

\* What one round makes of a walk that is at the switch s.
IsHop(next, path, s, b, out, hop) ==
    \/ next.status \in {"no route", "no peer"}
    \/ s = b /\ next.status = "found" /\ next.path = Append(path, hop)
    \/ /\ s # b /\ out \in Hosts!StackPort
       /\ next = Walk(Append(path, hop), SwitchOf[Peer[out]], Peer[out])

LEMMA OneHop ==
    ASSUME NEW path, NEW s, NEW in, NEW d, NEW b,
           None \notin Port, NEW out, out = learned[d][s], out \in Port \cup {None},
           NEW w, w = Walk(path, s, in), NEW hop, hop = Hosts!Hop(s, in, out)
    PROVE  LET next == Hosts!NextHop(w, d, b)
           IN  IsHop(next, path, s, b, out, hop)
<1> USE DEF IsHop
<1>1. w.status = "walking" /\ w.path = path /\ w.switch = s /\ w.in = in
  BY DEF Walk
<1>2. CASE out = None
  <2>1. Hosts!NextHop(w, d, b) = [w EXCEPT !.status = "no route"]
    BY <1>1, <1>2 DEF Hosts!NextHop
  <2> QED BY <2>1 DEF Walk
<1>3. CASE out # None /\ s = b
  <2>1. Hosts!NextHop(w, d, b) = [w EXCEPT !.path = Append(path, hop), !.status = "found"]
    BY <1>1, <1>3 DEF Hosts!NextHop
  <2> QED BY <1>3, <2>1 DEF Walk
<1>4. CASE out # None /\ s # b /\ TypeOf[out] # "stack"
  <2>1. Hosts!NextHop(w, d, b) = [w EXCEPT !.status = "no peer"]
    BY <1>1, <1>4 DEF Hosts!NextHop
  <2> QED BY <2>1 DEF Walk
<1>5. CASE out # None /\ s # b /\ TypeOf[out] = "stack"
  <2>1. Hosts!NextHop(w, d, b) = [w EXCEPT !.path = Append(path, hop), !.switch = SwitchOf[Peer[out]], !.in = Peer[out]]
    BY <1>1, <1>5 DEF Hosts!NextHop
  <2>2. Hosts!NextHop(w, d, b) = Walk(Append(path, hop), SwitchOf[Peer[out]], Peer[out])
    BY <2>1 DEF Walk
  <2>3. out \in Hosts!StackPort
    BY <1>5 DEF Hosts!StackPort
  <2> QED BY <1>5, <2>2, <2>3
<1> QED BY <1>2, <1>3, <1>4, <1>5

LEMMA RouteStep ==
    ASSUME Hosts!ConfigAssumption, learned \in Hosts!Table, NEW d \in Mac, NEW b \in Switch, NEW s \in Switch
    PROVE  Towards(d, b, s) \in Switch /\ learned[d][s] \in Port \cup {None}
<1>1. learned[d][s] \in Port \cup {None}
  BY DEF Hosts!Table
<1>2. /\ SwitchOf \in [Port -> Switch] /\ Peer \in [Hosts!StackPort -> Hosts!StackPort]
      /\ Hosts!StackPort \subseteq Port
  BY DEF Hosts!ConfigAssumption, Hosts!StackPort
<1> QED BY <1>1, <1>2 DEF Towards

LEMMA RouteIsOfSwitches ==
    ASSUME Hosts!ConfigAssumption, learned \in Hosts!Table, NEW d \in Mac, NEW b \in Switch, NEW a \in Switch
    PROVE  \A n \in 0 .. MaxHops : Route(d, b, a)[n] \in Switch
<1> DEFINE f == Route(d, b, a)
           In == {n \in 0 .. MaxHops : f[n] \in Switch}
<1>1. MaxHops \in Nat
  BY DEF Hosts!ConfigAssumption
<1>2. 0 \in In
  <2>1. 0 \in 0 .. MaxHops /\ f[0] = a
    BY <1>1, RouteIs
  <2> HIDE DEF f
  <2> QED BY <2>1
<1>3. \A n \in 0 .. MaxHops : n \in In /\ n < MaxHops => n + 1 \in In
  <2> SUFFICES ASSUME NEW n \in 0 .. MaxHops, f[n] \in Switch, n < MaxHops
               PROVE  n + 1 \in 0 .. MaxHops /\ f[n + 1] \in Switch
    OBVIOUS
  <2>1. n + 1 \in 0 .. MaxHops /\ n + 1 # 0 /\ (n + 1) - 1 = n
    BY <1>1
  <2>2. f[n + 1] = Towards(d, b, f[n])
    BY <1>1, <2>1, RouteIs
  <2> HIDE DEF f
  <2> QED BY <2>1, <2>2, RouteStep
<1>4. 0 .. MaxHops \subseteq In
  <2> HIDE DEF In
  <2> QED BY <1>1, <1>2, <1>3, IntervalByInduction
<1> QED BY <1>4

LEMMA HostWalkGoesOn ==
    ASSUME Hosts!ConfigAssumption, learned \in Hosts!Table, NEW src \in Mac, NEW d \in Mac,
           NEW a \in Switch, NEW b \in Switch, NEW n \in 0 .. MaxHops - 1, NEW w, HostWalking(src, d, b, a, n, w)
    PROVE  \/ HostWalking(src, d, b, a, n + 1, Hosts!NextHop(w, d, b))
           \/ Hosts!NextHop(w, d, b).status \in {"no route", "no peer"}
           \/ Hosts!NextHop(w, d, b).status = "found" /\ HostFound(src, d, b, a, n, Hosts!NextHop(w, d, b))
<1> DEFINE x == Route(d, b, a)[n]
           next == Hosts!NextHop(w, d, b)
           trail == HostTrail(src, d, b, a, n)
           in == InAt(src, d, b, a, n)
           hop == HostHopAt(src, d, b, a, n + 1)
<1>1. MaxHops \in Nat /\ n \in 0 .. MaxHops /\ n + 1 \in 0 .. MaxHops /\ n + 1 # 0 /\ (n + 1) - 1 = n /\ n \in Nat
  BY DEF Hosts!ConfigAssumption
<1>2. x \in Switch /\ learned[d][x] \in Port \cup {None} /\ None \notin Port
  <2>1. x \in Switch
    BY <1>1, RouteIsOfSwitches
  <2> HIDE DEF x
  <2> QED BY <2>1, RouteStep, HostConstants
<1>3. Route(d, b, a)[n + 1] = Towards(d, b, x)
  BY <1>1, RouteIs
<1>4. hop = Hosts!Hop(x, in, learned[d][x])
  BY <1>1 DEF HostHopAt
<1>5. Append(trail, hop) = HostTrail(src, d, b, a, n + 1)
  <2> HIDE DEF hop
  <2>1. hop = HostHopAt(src, d, b, a, n + 1)
    BY DEF hop
  <2> QED BY <1>1, <2>1 DEF HostTrail
<1>6. w = Walk(trail, x, in) /\ HostCame(d, b, a, n)
  BY DEF HostWalking
<1>7. \/ next.status \in {"no route", "no peer"}
      \/ x = b /\ next.status = "found" /\ next.path = Append(trail, hop)
      \/ /\ x # b /\ learned[d][x] \in Hosts!StackPort
         /\ next = Walk(Append(trail, hop), SwitchOf[Peer[learned[d][x]]], Peer[learned[d][x]])
  <2> HIDE DEF x, trail, in, hop
  <2> DEFINE out == learned[d][x]
  <2>1. out = learned[d][x] /\ out \in Port \cup {None} /\ hop = Hosts!Hop(x, in, out)
    BY <1>2, <1>4
  <2> HIDE DEF out
  <2>2. IsHop(next, trail, x, b, out, hop)
    BY <1>2, <1>6, <2>1, OneHop
  <2> QED BY <2>1, <2>2 DEF IsHop
<1>8. CASE /\ x # b /\ learned[d][x] \in Hosts!StackPort
           /\ next = Walk(Append(trail, hop), SwitchOf[Peer[learned[d][x]]], Peer[learned[d][x]])
  <2>1. Route(d, b, a)[n + 1] = SwitchOf[Peer[learned[d][x]]] /\ InAt(src, d, b, a, n + 1) = Peer[learned[d][x]]
    BY <1>1, <1>3, <1>8 DEF Towards, InAt
  <2>2. HostCame(d, b, a, n + 1)
    BY <1>1, <1>6, <1>8 DEF HostCame
  <2> HIDE DEF x, trail, hop
  <2> QED BY <1>5, <1>8, <2>1, <2>2 DEF HostWalking
<1>9. CASE x = b /\ next.status = "found" /\ next.path = Append(trail, hop)
  BY <1>5, <1>6, <1>9 DEF HostFound
<1> QED BY <1>7, <1>8, <1>9

HostStart(src, a) == [status |-> "walking", path |-> <<>>, switch |-> a, in |-> learned[src][a]]

IsHostWalk(f, start, d, b, last) ==
    f = [n \in 0 .. last |-> IF n = 0 THEN start ELSE Hosts!NextHop(f[n - 1], d, b)]

LEMMA HostWalkExists ==
    ASSUME NEW start, NEW d, NEW b, NEW last \in Nat
    PROVE  \E f : IsHostWalk(f, start, d, b, last)
<1> DEFINE Ok == {k \in Nat : \E f : f = [n \in 0 .. k |-> IF n = 0 THEN start ELSE Hosts!NextHop(f[n - 1], d, b)]}
<1>1. 0 \in Ok
  <2>1. [n \in 0 .. 0 |-> start] =
            [n \in 0 .. 0 |-> IF n = 0 THEN start ELSE Hosts!NextHop([k \in 0 .. 0 |-> start][n - 1], d, b)]
    OBVIOUS
  <2> QED BY <2>1
<1>2. ASSUME NEW k \in Nat, k \in Ok PROVE k + 1 \in Ok
  <2>1. PICK f : f = [n \in 0 .. k |-> IF n = 0 THEN start ELSE Hosts!NextHop(f[n - 1], d, b)]
    BY <1>2
  <2> DEFINE g == [n \in 0 .. k + 1 |-> IF n = k + 1 THEN Hosts!NextHop(f[k], d, b) ELSE f[n]]
  <2>2. \A n \in 0 .. k + 1 : g[n] = IF n = 0 THEN start ELSE Hosts!NextHop(g[n - 1], d, b)
    <3>1. \A n \in 0 .. k : f[n] = IF n = 0 THEN start ELSE Hosts!NextHop(f[n - 1], d, b)
      BY <2>1
    <3>2. (\A n \in 0 .. k : g[n] = f[n]) /\ g[k + 1] = Hosts!NextHop(f[k], d, b)
      OBVIOUS
    <3> HIDE DEF g
    <3> QED BY <3>1, <3>2
  <2>3. g = [n \in 0 .. k + 1 |-> IF n = 0 THEN start ELSE Hosts!NextHop(g[n - 1], d, b)]
    BY <2>2
  <2> HIDE DEF g
  <2> QED BY <2>3
<1>3. Nat \subseteq Ok
  <2> HIDE DEF Ok
  <2> QED BY <1>1, <1>2, NaturalsByInduction
<1> QED BY <1>3 DEF IsHostWalk

LEMMA HostWalkIs ==
    ASSUME MaxHops \in Nat, NEW src, NEW d, NEW a, NEW b
    PROVE  \A n \in 0 .. MaxHops :
               Hosts!HostWalk(src, a, d, b)[n] =
                   IF n = 0 THEN HostStart(src, a) ELSE Hosts!NextHop(Hosts!HostWalk(src, a, d, b)[n - 1], d, b)
<1>1. \E walk : walk = [n \in 0 .. MaxHops |-> IF n = 0 THEN HostStart(src, a) ELSE Hosts!NextHop(walk[n - 1], d, b)]
  <2>1. \E walk : IsHostWalk(walk, HostStart(src, a), d, b, MaxHops)
    BY HostWalkExists
  <2> QED BY ONLY <2>1, Zenon DEF IsHostWalk
<1>2. Hosts!HostWalk(src, a, d, b) =
          CHOOSE walk : walk = [n \in 0 .. MaxHops |-> IF n = 0 THEN HostStart(src, a) ELSE Hosts!NextHop(walk[n - 1], d, b)]
  BY DEF Hosts!HostWalk, HostStart
<1>3. Hosts!HostWalk(src, a, d, b) =
          [n \in 0 .. MaxHops |->
              IF n = 0 THEN HostStart(src, a) ELSE Hosts!NextHop(Hosts!HostWalk(src, a, d, b)[n - 1], d, b)]
  BY ONLY <1>1, <1>2, Zenon
<1> QED BY <1>3

LEMMA HostWalkLaws ==
    ASSUME Hosts!ConfigAssumption, learned \in Hosts!Table, NEW src \in Mac, NEW d \in Mac,
           NEW a \in Switch, NEW b \in Switch
    PROVE  Hosts!HostPath(src, a, d, b).status = "found" =>
               \E k \in 0 .. MaxHops - 1 : HostFound(src, d, b, a, k, Hosts!HostPath(src, a, d, b))
<1> DEFINE f == Hosts!HostWalk(src, a, d, b)
           Right(n) == \/ HostWalking(src, d, b, a, n, f[n])
                       \/ f[n].status \in {"no route", "no peer"}
                       \/ f[n].status = "found" /\ \E k \in 0 .. MaxHops - 1 : HostFound(src, d, b, a, k, f[n])
           Ok == {n \in 0 .. MaxHops : Right(n)}
<1>1. MaxHops \in Nat
  BY DEF Hosts!ConfigAssumption
<1>2. 0 \in Ok
  <2>1. f[0] = HostStart(src, a)
    BY <1>1, HostWalkIs
  <2>2. Route(d, b, a)[0] = a /\ InAt(src, d, b, a, 0) = learned[src][a]
    BY <1>1, RouteIs DEF InAt
  <2>3. HostTrail(src, d, b, a, 0) = <<>>
    BY DEF HostTrail
  <2>4. HostStart(src, a) = Walk(<<>>, a, learned[src][a])
    BY DEF HostStart, Walk
  <2> HIDE DEF f
  <2>5. HostWalking(src, d, b, a, 0, f[0])
    BY <2>1, <2>2, <2>3, <2>4 DEF HostWalking, HostCame
  <2>6. 0 \in 0 .. MaxHops
    BY <1>1
  <2> QED BY <2>5, <2>6
<1>3. \A n \in 0 .. MaxHops : n \in Ok /\ n < MaxHops => n + 1 \in Ok
  <2> SUFFICES ASSUME NEW n \in 0 .. MaxHops, Right(n), n < MaxHops
               PROVE  n + 1 \in 0 .. MaxHops /\ Right(n + 1)
    OBVIOUS
  <2>1. n \in 0 .. MaxHops - 1 /\ n + 1 \in 0 .. MaxHops /\ n + 1 # 0 /\ (n + 1) - 1 = n
    BY ONLY <1>1, n \in 0 .. MaxHops, n < MaxHops
  <2>2. f[n + 1] = Hosts!NextHop(f[n], d, b)
    <3>1. f[n + 1] = IF n + 1 = 0 THEN HostStart(src, a) ELSE Hosts!NextHop(f[(n + 1) - 1], d, b)
      BY ONLY <1>1, <2>1, HostWalkIs, SMT
    <3> HIDE DEF f
    <3> QED BY ONLY <2>1, <3>1, Zenon
  <2> HIDE DEF f
  <2>3. CASE HostWalking(src, d, b, a, n, f[n])
    <3>1. \/ HostWalking(src, d, b, a, n + 1, f[n + 1])
          \/ f[n + 1].status \in {"no route", "no peer"}
          \/ f[n + 1].status = "found" /\ HostFound(src, d, b, a, n, f[n + 1])
      <4> DEFINE w == f[n]
                 next == f[n + 1]
      <4>1. HostWalking(src, d, b, a, n, w) /\ next = Hosts!NextHop(w, d, b)
        BY <2>2, <2>3
      <4> HIDE DEF w, next
      <4>2. \/ HostWalking(src, d, b, a, n + 1, Hosts!NextHop(w, d, b))
            \/ Hosts!NextHop(w, d, b).status \in {"no route", "no peer"}
            \/ Hosts!NextHop(w, d, b).status = "found" /\ HostFound(src, d, b, a, n, Hosts!NextHop(w, d, b))
        BY <2>1, <4>1, HostWalkGoesOn
      <4>3. \/ HostWalking(src, d, b, a, n + 1, next)
            \/ next.status \in {"no route", "no peer"}
            \/ next.status = "found" /\ HostFound(src, d, b, a, n, next)
        BY ONLY <4>1, <4>2, Zenon
      <4> QED BY <4>3 DEF next
    <3> QED BY <2>1, <3>1
  <2>4. CASE f[n].status # "walking"
    <3>1. f[n + 1] = f[n]
      BY <2>2, <2>4 DEF Hosts!NextHop
    <3>2. ~HostWalking(src, d, b, a, n, f[n])
      <4> DEFINE w == f[n]
      <4>1. w.status # "walking"
        BY <2>4
      <4> HIDE DEF w
      <4>2. ~HostWalking(src, d, b, a, n, w)
        BY ONLY <4>1 DEF HostWalking, Walk
      <4> QED BY <4>2 DEF w
    <3> QED BY <2>1, <3>1, <3>2
  <2> QED BY <2>3, <2>4
<1>4. 0 .. MaxHops \subseteq Ok
  <2> HIDE DEF Ok
  <2> QED BY <1>1, <1>2, <1>3, IntervalByInduction
<1>5. Right(MaxHops)
  <2>1. MaxHops \in 0 .. MaxHops
    BY <1>1
  <2> QED BY <1>4, <2>1
<1>6. HostWalking(src, d, b, a, MaxHops, f[MaxHops]) => f[MaxHops].status # "found"
  BY DEF HostWalking, Walk
<1> QED BY <1>5, <1>6 DEF Hosts!HostPath

\* A switch that comes twice comes again and again.
LEMMA RouteRepeats ==
    ASSUME MaxHops \in Nat, NEW d, NEW b, NEW a,
           NEW k \in 0 .. MaxHops, NEW i \in 0 .. k - 1, NEW j \in i + 1 .. k, Route(d, b, a)[i] = Route(d, b, a)[j]
    PROVE  Route(d, b, a)[i + (k - j)] = Route(d, b, a)[k]
<1> DEFINE f == Route(d, b, a)
           Ok == {n \in 0 .. k - j : f[i + n] = f[j + n]}
<1>1. k \in Nat /\ i \in Nat /\ j \in Nat /\ k - j \in Nat /\ k <= MaxHops /\ i < j
  OBVIOUS
<1>2. 0 \in Ok
  BY <1>1
<1>3. \A n \in 0 .. k - j : n \in Ok /\ n < k - j => n + 1 \in Ok
  <2> TAKE n \in 0 .. k - j
  <2> HAVE n \in Ok /\ n < k - j
  <2>1. /\ i + (n + 1) \in 0 .. MaxHops /\ i + (n + 1) # 0 /\ (i + (n + 1)) - 1 = i + n
        /\ j + (n + 1) \in 0 .. MaxHops /\ j + (n + 1) # 0 /\ (j + (n + 1)) - 1 = j + n
        /\ n + 1 \in 0 .. k - j
    BY <1>1
  <2>2. f[i + (n + 1)] = Towards(d, b, f[i + n]) /\ f[j + (n + 1)] = Towards(d, b, f[j + n])
    BY <2>1, RouteIs
  <2> QED BY <2>1, <2>2
<1>4. 0 .. k - j \subseteq Ok
  <2> HIDE DEF Ok
  <2> QED BY <1>1, <1>2, <1>3, IntervalByInduction
<1>5. k - j \in 0 .. k - j /\ j + (k - j) = k
  BY <1>1
<1> QED BY <1>4, <1>5

\* Only the last switch is that of the destination, so that none comes twice.
LEMMA NoHopTwice ==
    ASSUME MaxHops \in Nat, NEW d, NEW a, NEW b, NEW k \in 0 .. MaxHops, HostCame(d, b, a, k), Route(d, b, a)[k] = b
    PROVE  \A i, j \in 0 .. k : Route(d, b, a)[i] = Route(d, b, a)[j] => i = j
<1>1. ASSUME NEW i \in 0 .. k, NEW j \in 0 .. k, i < j, Route(d, b, a)[i] = Route(d, b, a)[j] PROVE FALSE
  <2>1. i \in 0 .. k - 1 /\ j \in i + 1 .. k /\ i + (k - j) \in 0 .. k - 1
    BY <1>1
  <2>2. Route(d, b, a)[i + (k - j)] = Route(d, b, a)[k]
    BY <1>1, <2>1, RouteRepeats
  <2> QED BY <2>1, <2>2 DEF HostCame
<1>2. \A i, j \in 0 .. k : i < j => Route(d, b, a)[i] # Route(d, b, a)[j]
  BY <1>1
<1>3. \A i, j \in 0 .. k : i < j \/ j < i \/ i = j
  OBVIOUS
<1> QED BY <1>2, <1>3

IsWalk(path, src, d, a, b) ==
    /\ path[1].in = learned[src][a]
    /\ Last(path).out = learned[d][b]
    /\ \A i \in 1 .. Len(path) - 1 : path[i].out \in Hosts!StackPort /\ Peer[path[i].out] = path[i + 1].in
    /\ Cardinality({path[i].switch : i \in 1 .. Len(path)}) = Len(path)

LEMMA HostPathIsWalk ==
    ASSUME Hosts!ConfigAssumption, learned \in Hosts!Table PROVE Hosts!PathIsWalk
<1> DEFINE Body(w, src, d, a, b) ==
               /\ w.path[1].in = learned[src][a]
               /\ Hosts!Last(w.path).out = learned[d][b]
               /\ \A i \in 1 .. Len(w.path) - 1 :
                      w.path[i].out \in Hosts!StackPort /\ Peer[w.path[i].out] = w.path[i + 1].in
               /\ Hosts!Cardinality({w.path[i].switch : i \in 1 .. Len(w.path)}) = Len(w.path)
<1> SUFFICES ASSUME NEW src \in Mac, NEW d \in Mac,
                    NEW a \in Hosts!AccessSwitches(src), NEW b \in Hosts!AccessSwitches(d),
                    Hosts!HostPath(src, a, d, b).status = "found"
             PROVE  IsWalk(Hosts!HostPath(src, a, d, b).path, src, d, a, b)
  <2>1. \A s : Hosts!Last(s) = Last(s)
    BY DEF Hosts!Last, Last
  <2>2. \A S : Hosts!Cardinality(S) = Cardinality(S)
    BY DEF Hosts!Cardinality, Cardinality
  <2>3. \A w, src, d, a, b : IsWalk(w.path, src, d, a, b) => Body(w, src, d, a, b)
    BY <2>1, <2>2 DEF IsWalk
  <2>4. (\A src, dst \in Mac : \A a \in Hosts!AccessSwitches(src), b \in Hosts!AccessSwitches(dst) :
            Hosts!HostPath(src, a, dst, b).status = "found" => Body(Hosts!HostPath(src, a, dst, b), src, dst, a, b))
        => Hosts!PathIsWalk
    BY Zenon DEF Hosts!PathIsWalk
  <2> HIDE DEF Body
  <2> QED BY <2>3, <2>4
<1> DEFINE path == Hosts!HostPath(src, a, d, b).path
<1>1. MaxHops \in Nat /\ a \in Switch /\ b \in Switch
  BY DEF Hosts!ConfigAssumption, Hosts!AccessSwitches
<1>2. PICK k \in 0 .. MaxHops - 1 : HostCame(d, b, a, k) /\ Route(d, b, a)[k] = b /\ path = HostTrail(src, d, b, a, k + 1)
  BY <1>1, HostWalkLaws DEF HostFound
<1> HIDE DEF path
<1>3. k \in Nat /\ k \in 0 .. MaxHops /\ 0 \in 0 .. MaxHops
  BY <1>1
<1>4. Len(path) = k + 1 /\ DOMAIN path = 1 .. k + 1 /\ \A i \in 1 .. k + 1 : path[i] = HostHopAt(src, d, b, a, i)
  BY <1>2, <1>3 DEF HostTrail
<1>5. \A i \in 1 .. k + 1 : /\ path[i].switch = Route(d, b, a)[i - 1]
                            /\ path[i].in = InAt(src, d, b, a, i - 1)
                            /\ path[i].out = learned[d][Route(d, b, a)[i - 1]]
  <2> TAKE i \in 1 .. k + 1
  <2>1. path[i] = Hosts!Hop(Route(d, b, a)[i - 1], InAt(src, d, b, a, i - 1), learned[d][Route(d, b, a)[i - 1]])
    BY <1>4 DEF HostHopAt
  <2> QED BY <2>1 DEF Hosts!Hop
<1>6. path[1].in = learned[src][a]
  <2>1. 1 \in 1 .. k + 1 /\ 1 - 1 = 0
    BY <1>3
  <2> QED BY <1>5, <2>1 DEF InAt
<1>7. Last(path).out = learned[d][b]
  <2>1. k + 1 \in 1 .. k + 1 /\ (k + 1) - 1 = k
    BY <1>3
  <2>2. Last(path) = path[k + 1]
    BY <1>4 DEF Last
  <2> QED BY <1>2, <1>5, <2>1, <2>2
<1>8. \A i \in 1 .. k : path[i].out \in Hosts!StackPort /\ Peer[path[i].out] = path[i + 1].in
  <2> TAKE i \in 1 .. k
  <2>1. i \in 1 .. k + 1 /\ i + 1 \in 1 .. k + 1 /\ (i + 1) - 1 = i /\ i # 0 /\ i - 1 \in 0 .. k - 1
    BY <1>3
  <2>2. path[i].out = learned[d][Route(d, b, a)[i - 1]] /\ path[i + 1].in = InAt(src, d, b, a, i)
    BY <1>5, <2>1
  <2>3. learned[d][Route(d, b, a)[i - 1]] \in Hosts!StackPort
    BY <1>2, <2>1 DEF HostCame
  <2> QED BY <2>1, <2>2, <2>3 DEF InAt
<1>9. Cardinality({path[i].switch : i \in 1 .. k + 1}) = k + 1
  <2> DEFINE visited == {path[i].switch : i \in 1 .. k + 1}
             visit == [i \in 1 .. k + 1 |-> path[i].switch]
  <2>1. \A i, j \in 1 .. k + 1 : path[i].switch = path[j].switch => i = j
    <3> SUFFICES ASSUME NEW i \in 1 .. k + 1, NEW j \in 1 .. k + 1, path[i].switch = path[j].switch PROVE i = j
      OBVIOUS
    <3>1. Route(d, b, a)[i - 1] = Route(d, b, a)[j - 1] /\ i - 1 \in 0 .. k /\ j - 1 \in 0 .. k
      BY <1>3, <1>5
    <3>2. i - 1 = j - 1
      BY <1>1, <1>2, <1>3, <3>1, NoHopTwice
    <3> QED BY <1>3, <3>2
  <2>2. visit \in Bijection(1 .. k + 1, visited)
    BY <2>1 DEF Bijection, Injection, Surjection, IsInjective
  <2>3. IsFiniteSet(1 .. k + 1) /\ Cardinality(1 .. k + 1) = k + 1
    <3>1. k + 1 \in Nat
      BY <1>3
    <3> QED BY ONLY <3>1, <1>3, FS_Interval
  <2> HIDE DEF visit, visited
  <2>4. Cardinality(visited) = k + 1
    BY <2>2, <2>3, FS_Bijection DEF ExistsBijection
  <2> QED BY <2>4 DEF visited
<1>10. Len(path) - 1 = k
  BY <1>3, <1>4
<1> QED BY <1>4, <1>6, <1>7, <1>8, <1>9, <1>10 DEF IsWalk, path

\* A path that is returned leads from the port of the source to that of the destination over
\* the links of the stack and through no switch twice, whatever the tables say of the
\* switches in between (_get_host_path).
THEOREM PathsAreWalks == ASSUME Hosts!ConfigAssumption PROVE Hosts!Spec => []Hosts!PathIsWalk
<1>1. Hosts!Inv => Hosts!PathIsWalk
  BY HostPathIsWalk DEF Hosts!Inv, Hosts!TypeOK
<1> QED BY <1>1, TablesAlwaysAgree, PTL

=============================================================================
