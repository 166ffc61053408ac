------------------------------- MODULE Dataplane -------------------------------
(***************************************************************************)
(* The dataplane in forch/faucet_state_collector.py: switches, stack links,*)
(* the topology of the stack, the egress ports and the summary of them,    *)
(* fed by the events of Faucet (FaucetEvents) or restored from its metrics.*)
(*                                                                         *)
(* What Faucet knows is external; every change there is an event in a      *)
(* queue.  A topology is not applied at once: the main loop stores it and  *)
(* a heartbeat of another thread applies it later, without a lock around   *)
(* the stored topology.                                                    *)
(***************************************************************************)
EXTENDS Integers, Sequences, FiniteSets, SequencesExt

CONSTANTS
    Switch,      \* the configured switches
    Port,        \* their stack and egress ports
    SwitchOf,    \* the switch of a port
    Peer,        \* the other end of a stack port; its domain is the stack ports
    Listed,      \* the end of each stack link that comes first in the configuration
    Lacp,        \* the pairs of LACP role and state that Faucet reports
    StackStates, \* the states of a stack port that Faucet reports
    CoalesceSec, \* stack_topo_change_coalesce_sec
    MaxChanges,  \* bound: changes in Faucet
    MaxQueue,    \* bound: Faucet changes only while the queue is no longer than this
    MaxRestores, \* bound: restorations from the metrics
    None         \* nothing known

StackPort == DOMAIN Peer
EgressPort == Port \ StackPort
NoPort == 0

\* The enumerations of shared_constants.proto, as far as they occur here.
LacpRole == {"default", "unselected", "selected", "standby"}
LacpState == {"default", "init", "active", "noact"}
LinkState == {"active", "up", "broken", "down"}
State == {"unknown", "broken", "damaged", "healthy"}

ASSUME ConfigAssumption ==
    /\ IsFiniteSet(Switch) /\ IsFiniteSet(Port)
    /\ SwitchOf \in [Port -> Switch]
    /\ Peer \in [StackPort -> StackPort] /\ StackPort \subseteq Port
    /\ \A p \in StackPort : Peer[Peer[p]] = p /\ SwitchOf[Peer[p]] # SwitchOf[p]
    /\ Listed \subseteq StackPort /\ \A p \in StackPort : (p \in Listed) # (Peer[p] \in Listed)
    /\ Lacp \subseteq [role : LacpRole, state : LacpState]
    /\ StackStates \subseteq {"init", "broken", "up"} /\ "up" \in StackStates
    /\ {CoalesceSec, MaxChanges, MaxQueue, MaxRestores} \subseteq Nat
    /\ NoPort \notin Port
    /\ None \notin Nat \cup StackStates \cup {"active", "up", "down", "CONNECTED", "DOWN"}

\* The port of each switch towards the root, one of its own (StackDp of StackTopoChange).
Hops ==
    {h \in [Switch -> StackPort \cup {NoPort}] : \A s \in Switch : h[s] # NoPort => SwitchOf[h[s]] = s}

\* StackTopoChange: the graph has the links, each by its listed end; stamp numbers the
\* topologies for the properties.
Topology == [root : Switch, links : SUBSET Listed, dps : Hops, stamp : 0 .. MaxChanges]

ASSUME NoneAssumption == None \notin Topology

\* The events of Faucet (LagChange, StackState, StackTopoChange, DpChange, ConfigChange),
\* each about a port, a switch or the topology.
Event ==
    [type : {"lag"}, port : EgressPort, value : Lacp]
    \cup [type : {"stack"}, port : StackPort, value : StackStates]
    \cup [type : {"topo"}, value : Topology]
    \cup [type : {"dp"}, switch : Switch, value : BOOLEAN]
    \cup [type : {"config"}, switch : Switch]

VARIABLES
    faucet,        \* Faucet: stack ports, LACP, switches, configuration loads, topology
    queue,         \* events on their way
    changes,       \* how often Faucet has changed
    restores,      \* how often the states have been restored
    swState,       \* SW_STATE of switch_states
    configChanges, \* CONFIG_CHANGE_COUNT of switch_states
    linksState,    \* LINKS_STATE of topo_state: the state of a stack port
    egressLinks,   \* EGRESS_LINK_MAP
    egress,        \* EGRESS_STATE and EGRESS_CHANGE_COUNT
    topo,          \* the topology in topo_state
    stackData,     \* _stack_state_data, the topology to be applied
    eventAge,      \* seconds since _stack_state_event, of no importance without stackData
    updateAge,     \* seconds since _stack_state_update, None if that is 0
    waiting,       \* seconds since the first topology that waits in stackData was stored
    heartbeat      \* heartbeat_update_stack_state: where it is, and the topology it has taken

external == <<faucet, queue, changes, restores>>
switches == <<swState, configChanges>>
lag == <<egressLinks, egress>>
timers == <<eventAge, updateAge, waiting>>
stack == <<topo, stackData, timers, heartbeat>>
vars == <<external, switches, linksState, lag, stack>>

AgeCap == 2 * CoalesceSec + 2
Older(age) == IF age = None \/ age = AgeCap THEN age ELSE age + 1
At(place) == [at |-> place, data |-> None]

-----------------------------------------------------------------------------
(* Faucet. *)

\* Both ends see each other.
LinkIsUp(state, p) == state[p] = "up" /\ state[Peer[p]] = "up"

\* Ports towards the root over links that are up: no switch that can reach the root is
\* without one, and they do not lead in a circle.
TreesOf(state, root) ==
    LET Next1(s, h) == IF h[s] = NoPort THEN s ELSE SwitchOf[Peer[h[s]]]
        Reached(h) == FoldLeft(LAMBDA at, i : [s \in Switch |-> Next1(at[s], h)],
                               [s \in Switch |-> s], [i \in 1 .. Cardinality(Switch) |-> i])
        Out(s) == {p \in StackPort : SwitchOf[p] = s /\ LinkIsUp(state, p)}
    IN  {h \in Hops :
            /\ h[root] = NoPort
            /\ \A s \in Switch : h[s] = NoPort \/ h[s] \in Out(s)
            /\ \A s \in Switch : h[Reached(h)[s]] = NoPort
            /\ \A s \in Switch : \A p \in Out(s) :
                Reached(h)[SwitchOf[Peer[p]]] = root => Reached(h)[s] = root}

GraphOf(state) == {p \in Listed : LinkIsUp(state, p)}

TopologyOf(state, root, dps, stamp) ==
    [root |-> root, links |-> GraphOf(state), dps |-> dps, stamp |-> stamp]

\* The stack ports, the root or the hops change: the topology is announced if it is new.
StackChange(state, root, dps, events) ==
    LET old == faucet.topo
        new == TopologyOf(state, root, dps, changes + 1)
        same == [new EXCEPT !.stamp = old.stamp] = old
    IN  /\ faucet' = [faucet EXCEPT !.stack = state, !.topo = IF same THEN old ELSE new]
        /\ queue' = queue \o events \o (IF same THEN <<>> ELSE <<[type |-> "topo", value |-> new]>>)

StackPortChanges(p, value) ==
    LET state == [faucet.stack EXCEPT ![p] = value]
    IN  /\ faucet.stack[p] # value
        /\ \E dps \in TreesOf(state, faucet.topo.root) :
            StackChange(state, faucet.topo.root, dps, <<[type |-> "stack", port |-> p, value |-> value]>>)

RootChanges(root) ==
    /\ root # faucet.topo.root
    /\ \E dps \in TreesOf(faucet.stack, root) : StackChange(faucet.stack, root, dps, <<>>)

LacpChanges(p, value) ==
    /\ faucet.lacp[p] # value
    /\ faucet' = [faucet EXCEPT !.lacp[p] = value]
    /\ queue' = Append(queue, [type |-> "lag", port |-> p, value |-> value])

SwitchChanges(s) ==
    /\ faucet' = [faucet EXCEPT !.connected[s] = ~ @]
    /\ queue' = Append(queue, [type |-> "dp", switch |-> s, value |-> faucet'.connected[s]])

ConfigLoads(s) ==
    /\ faucet' = [faucet EXCEPT !.loads[s] = @ + 1]
    /\ queue' = Append(queue, [type |-> "config", switch |-> s])

FaucetChanges ==
    /\ changes < MaxChanges
    /\ Len(queue) <= MaxQueue
    /\ changes' = changes + 1
    /\ \/ \E p \in StackPort, value \in StackStates : StackPortChanges(p, value)
       \/ \E root \in Switch : RootChanges(root)
       \/ \E p \in EgressPort, value \in Lacp : LacpChanges(p, value)
       \/ \E s \in Switch : SwitchChanges(s)
       \/ \E s \in Switch : ConfigLoads(s)
    /\ UNCHANGED <<restores, switches, linksState, lag, stack>>

-----------------------------------------------------------------------------
(* The egress ports. *)

LacpLinkState(value) ==
    CASE value.role = "unselected" /\ value.state \in {"noact", "active"} -> "up"
      [] value.role = "selected" /\ value.state = "active" -> "active"
      [] OTHER -> "down"

\* Mutant: one active port is enough.
EgressStateNeverDamaged(links) ==
    IF \E p \in EgressPort : links[p] = "active" THEN "healthy" ELSE "broken"

EgressState(links) ==
    LET states == {links[p] : p \in EgressPort} \ {None}
    IN  IF states \in {{"active", "up"}, {"active"}} THEN "healthy"
        ELSE IF "active" \in states THEN "damaged"
        ELSE "broken"

\* Ports that Faucet has not reported have no entry; a link is never removed.
LagLinks(links, p, value) == [links EXCEPT ![p] = LacpLinkState(value)]

ProcessLagState(p, value) ==
    /\ egressLinks' = LagLinks(egressLinks, p, value)
    /\ egress' = EgressState(egressLinks')

-----------------------------------------------------------------------------
(* The topology of the stack. *)

\* _get_base_link_state, with the state of the listed end.
BaseLinkState(state, p) ==
    CASE state[p] = "up" -> "up"
      [] state[p] = "broken" -> "broken"
      [] OTHER -> "down"

\* Mutant: every topology starts the time of the update anew.
UpdateStackTopoStateAnew(new) ==
    IF CoalesceSec = 0
    THEN /\ topo' = new
         /\ UNCHANGED <<stackData, timers>>
    ELSE /\ stackData' = new
         /\ eventAge' = 0
         /\ updateAge' = 0
         /\ waiting' = IF stackData = None THEN 0 ELSE waiting
         /\ UNCHANGED topo

\* Without coalescing a topology is applied at once.
UpdateStackTopoState(new) ==
    IF CoalesceSec = 0
    THEN /\ topo' = new
         /\ UNCHANGED <<stackData, timers>>
    ELSE /\ stackData' = new
         /\ eventAge' = 0
         /\ updateAge' = IF updateAge = None THEN 0 ELSE updateAge
         /\ waiting' = IF stackData = None THEN 0 ELSE waiting
         /\ UNCHANGED topo

ProcessStackState(p, value) == linksState' = [linksState EXCEPT ![p] = value]

ProcessDpChange(s, connected) ==
    swState' = [swState EXCEPT ![s] = IF connected THEN "CONNECTED" ELSE "DOWN"]

\* process_dp_config_change; the configuration that is read anew has the same ports.
ProcessConfigChange(s) == configChanges' = [configChanges EXCEPT ![s] = @ + 1]

\* The handlers of the events (_register_handlers).
Handle(event) ==
    \/ /\ event.type = "lag"
       /\ ProcessLagState(event.port, event.value)
       /\ UNCHANGED <<switches, linksState, topo, stackData, timers>>
    \/ /\ event.type = "stack"
       /\ ProcessStackState(event.port, event.value)
       /\ UNCHANGED <<switches, lag, topo, stackData, timers>>
    \/ /\ event.type = "topo"
       /\ UpdateStackTopoState(event.value)
       /\ UNCHANGED <<switches, linksState, lag>>
    \/ /\ event.type = "dp"
       /\ ProcessDpChange(event.switch, event.value)
       /\ UNCHANGED <<configChanges, linksState, lag, topo, stackData, timers>>
    \/ /\ event.type = "config"
       /\ ProcessConfigChange(event.switch)
       /\ UNCHANGED <<swState, linksState, lag, topo, stackData, timers>>

ProcessEvent ==
    /\ queue # <<>>
    /\ restores > 0
    /\ queue' = Tail(queue)
    /\ Handle(Head(queue))
    /\ UNCHANGED <<faucet, changes, restores, heartbeat>>

\* The links in the graph are those whose listed end is up; the hops are the metrics of
\* each switch.
RestoredTopology(state, dps) ==
    [faucet.topo EXCEPT !.links = {p \in Listed : BaseLinkState(state, p) = "up"}, !.dps = dps]

\* Mutant: the restored topology is applied at once, whatever waits.
RestoreStatesAtOnce(dps, later) ==
    /\ restores < MaxRestores
    /\ restores' = restores + 1
    /\ queue' = later
    /\ swState' = [s \in Switch |-> IF faucet.connected[s] THEN "CONNECTED" ELSE "DOWN"]
    /\ configChanges' = [s \in Switch |-> configChanges[s] + faucet.loads[s]]
    /\ linksState' = faucet.stack
    /\ egressLinks' = [p \in EgressPort |-> LacpLinkState(faucet.lacp[p])]
    /\ egress' = EgressState(egressLinks')
    /\ topo' = RestoredTopology(faucet.stack, dps)
    /\ UNCHANGED <<faucet, changes, stackData, timers, heartbeat>>

\* restore_states_from_metrics: the events up to the event horizon are ignored.  Faucet
\* may be between the hops of two switches; it then announces the topology afterwards.
RestoreStates(dps, later) ==
    /\ restores < MaxRestores
    /\ restores' = restores + 1
    /\ queue' = later
    /\ swState' = [s \in Switch |-> IF faucet.connected[s] THEN "CONNECTED" ELSE "DOWN"]
    /\ configChanges' = [s \in Switch |-> configChanges[s] + faucet.loads[s]]
    /\ linksState' = faucet.stack
    /\ egressLinks' = [p \in EgressPort |-> LacpLinkState(faucet.lacp[p])]
    /\ egress' = EgressState(egressLinks')
    /\ UpdateStackTopoState(RestoredTopology(faucet.stack, dps))
    /\ UNCHANGED <<faucet, changes, heartbeat>>

Restore ==
    \/ RestoreStates(faucet.topo.dps, <<>>)
    \/ \E s \in Switch, p \in StackPort :
        /\ SwitchOf[p] = s /\ p # faucet.topo.dps[s]
        /\ RestoreStates([faucet.topo.dps EXCEPT ![s] = p], <<[type |-> "topo", value |-> faucet.topo]>>)

-----------------------------------------------------------------------------
(* heartbeat_update_stack_state, once a second.  It reads _stack_state_data and then   *)
(* clears it; an event of the main loop can come before, between and after.  Seconds   *)
(* in which nothing waits are left out.                                                *)

\* A time of 0 is long ago.
Due == eventAge' > CoalesceSec \/ updateAge = None \/ Older(updateAge) > 2 * CoalesceSec

Tick ==
    /\ heartbeat = At("idle")
    /\ stackData # None \/ Older(updateAge) # updateAge
    /\ eventAge' = Older(eventAge)
    /\ waiting' = Older(waiting)
    /\ IF stackData # None /\ Due
       THEN updateAge' = None /\ heartbeat' = At("read")
       ELSE updateAge' = Older(updateAge) /\ UNCHANGED heartbeat
    /\ UNCHANGED <<external, switches, linksState, lag, topo, stackData>>

HeartbeatReads ==
    /\ heartbeat = At("read")
    /\ heartbeat' = [at |-> "clear", data |-> stackData]
    /\ UNCHANGED <<external, switches, linksState, lag, topo, stackData, timers>>

\* ... and _update_stack_topo_state_raw
HeartbeatApplies ==
    /\ heartbeat.at = "clear"
    /\ stackData' = None
    /\ topo' = heartbeat.data
    /\ eventAge' = AgeCap
    /\ waiting' = None
    /\ heartbeat' = At("idle")
    /\ UNCHANGED <<external, switches, linksState, lag, updateAge>>

Heartbeat == HeartbeatReads \/ HeartbeatApplies

-----------------------------------------------------------------------------
AllUp == [p \in StackPort |-> "up"]

Init ==
    /\ \E root \in Switch : \E dps \in TreesOf(AllUp, root), lacp \in [EgressPort -> Lacp] :
        faucet = [stack |-> AllUp, lacp |-> lacp, connected |-> [s \in Switch |-> TRUE], loads |-> [s \in Switch |-> 1],
                  topo |-> TopologyOf(AllUp, root, dps, 0)]
    /\ queue = <<>>
    /\ changes = 0
    /\ restores = 0
    /\ swState = [s \in Switch |-> None]
    /\ configChanges = [s \in Switch |-> 0]
    /\ linksState = [p \in StackPort |-> None]
    /\ egressLinks = [p \in EgressPort |-> None]
    /\ egress = None
    /\ topo = None
    /\ stackData = None
    /\ eventAge = AgeCap
    /\ updateAge = None
    /\ waiting = None
    /\ heartbeat = At("idle")

Next == FaucetChanges \/ ProcessEvent \/ Restore \/ Tick \/ Heartbeat

Spec == Init /\ [][Next]_vars

-----------------------------------------------------------------------------
(* What the summaries say. *)

\* _get_link_state: a link that carries the path to the root is active, else its listed end
\* decides.
ShownLinkState(p) ==
    IF topo.dps[SwitchOf[p]] = p \/ topo.dps[SwitchOf[Peer[p]]] = Peer[p] THEN "active"
    ELSE BaseLinkState(linksState, p)

\* _get_topo_map: each link once, by its listed end.
TopoMap == [p \in Listed |-> ShownLinkState(p)]

\* _get_stack_topo: without a topology there are no links.
StackTopo == IF topo = None THEN <<>> ELSE TopoMap

\* _get_switch_map: a switch may be known by its configuration only.
SwitchMap ==
    [s \in Switch |-> CASE swState[s] = None -> None
                        [] swState[s] = "CONNECTED" -> "active"
                        [] OTHER -> "down"]

\* _fill_egress_state
EgressShown == IF egress = None THEN "unknown" ELSE egress

BrokenLinks == {p \in DOMAIN StackTopo : StackTopo[p] \notin {"active", "up"}}
BrokenSwitches == {s \in Switch : SwitchMap[s] = "down"}

\* _update_dataplane_detail, in the decorator _pre_check; no rates of packets are limited.
DataplaneState ==
    IF restores = 0 \/ BrokenSwitches # {} \/ BrokenLinks # {} THEN "broken" ELSE EgressShown

\* _get_switch_raw: what the overview and the state of a switch say may differ, for a switch
\* known by its configuration only.
SwitchShown(s) ==
    [sw_state |-> IF swState[s] = "CONNECTED" THEN "active" ELSE "down", restart_event_count |-> configChanges[s]]

\* _get_switch_state and _build_switch_state_result, when the metrics of Gauge can be read.
SwitchState(metrics) ==
    IF ~metrics THEN "unknown"
    ELSE IF \E s \in Switch : SwitchShown(s).sw_state # "active" THEN "broken"
    ELSE "healthy"

SwitchSummary(metrics) == IF restores = 0 THEN "broken" ELSE SwitchState(metrics)

-----------------------------------------------------------------------------
(* get_switch_egress_path. *)

\* _populate_hop: the other end of the port, if the graph has the link.
Across(p) == IF {p, Peer[p]} \cap topo.links = {} THEN NoPort ELSE Peer[p]

\* Mutant: the hops are not remembered.
PopulatePathForEver(w) ==
    LET out == topo.dps[w.switch]
        hop == [switch |-> w.switch, in |-> w.in, out |-> out]
        next == Across(out)
    IN  IF w.status # "walking" THEN w
        ELSE IF out = NoPort
             THEN [w EXCEPT !.status = IF w.switch = topo.root THEN "healthy" ELSE "absent",
                            !.path = IF w.switch = topo.root THEN Append(@, hop) ELSE @]
        ELSE IF next = NoPort
             THEN [w EXCEPT !.status = "absent", !.path = Append(@, hop)]
        ELSE [w EXCEPT !.path = Append(@, hop), !.switch = SwitchOf[next], !.in = next]

\* One round of _populate_path, from the hop [switch, in].
PopulatePath(w) ==
    LET out == topo.dps[w.switch]
        hop == [switch |-> w.switch, in |-> w.in, out |-> out]
        next == Across(out)
    IN  IF w.status # "walking" THEN w
        ELSE IF out = NoPort
             THEN [w EXCEPT !.status = IF w.switch = topo.root THEN "healthy" ELSE "absent",
                            !.path = IF w.switch = topo.root THEN Append(@, hop) ELSE @]
        ELSE IF \E i \in DOMAIN w.path : w.path[i] = hop
             THEN [w EXCEPT !.status = "loop", !.path = Append(@, hop)]
        ELSE IF next = NoPort
             THEN [w EXCEPT !.status = "absent", !.path = Append(@, hop)]
        ELSE [w EXCEPT !.path = Append(@, hop), !.switch = SwitchOf[next], !.in = next]

\* A hop can come at most once with each port it may have been entered by, and then once
\* more.
MaxRounds == Cardinality(StackPort) + Cardinality(Switch) + 1

\* The walk from a switch, round by round.
EgressWalk(s) ==
    LET start == [status |-> IF topo.links = {} THEN "no links" ELSE "walking",
                  path |-> <<>>, switch |-> s, in |-> NoPort]
        walk[n \in 0 .. MaxRounds] == IF n = 0 THEN start ELSE PopulatePath(walk[n - 1])
    IN  walk

EgressPath(s) == EgressWalk(s)[MaxRounds]

-----------------------------------------------------------------------------
(* Properties. *)

\* The types of all variables.
TypeOK ==
    /\ faucet \in [stack : [StackPort -> StackStates], lacp : [EgressPort -> Lacp],
                   connected : [Switch -> BOOLEAN],
                   loads : [Switch -> 1 .. MaxChanges + 1], topo : Topology]
    /\ queue \in Seq(Event)
    /\ changes \in 0 .. MaxChanges
    /\ restores \in 0 .. MaxRestores
    /\ swState \in [Switch -> {"CONNECTED", "DOWN", None}]
    /\ configChanges \in [Switch -> Nat]
    /\ linksState \in [StackPort -> StackStates \cup {None}]
    /\ egressLinks \in [EgressPort -> LinkState \cup {None}]
    /\ egress \in (State \ {"unknown"}) \cup {None}
    /\ topo \in Topology \cup {None}
    /\ stackData \in Topology \cup {None}
    /\ eventAge \in 0 .. AgeCap
    /\ {updateAge, waiting} \subseteq 0 .. AgeCap \cup {None}
    /\ heartbeat.at \in {"idle", "read", "clear"}
    /\ heartbeat.data \in IF heartbeat.at = "clear" THEN Topology ELSE {None}

\* The events so far are handled, and the topology Faucet announced last is applied.
Settled == restores > 0 /\ queue = <<>> /\ topo = faucet.topo

\* What can be said of a dataplane: a link works if both of its ends see it up, and the
\* egress is as good as its ports.
Carries(p) == faucet.lacp[p] = [role |-> "selected", state |-> "active"]
StandsBy(p) == faucet.lacp[p].role = "unselected" /\ faucet.lacp[p].state \in {"noact", "active"}
EgressQuality ==
    IF \A p \in EgressPort : ~Carries(p) THEN "broken"
    ELSE IF \E p \in EgressPort : ~Carries(p) /\ ~StandsBy(p) THEN "damaged"
    ELSE "healthy"
WorkingLinks == {p \in Listed : LinkIsUp(faucet.stack, p)}

\* When everything is handled the summary neither raises a false alarm, nor misses a switch
\* or a link whose listed end is not up, and it knows how good the egress is - whatever
\* order events, restorations and the heartbeat come in (get_dataplane_state).
SummaryIsRight ==
    Settled =>
        /\ BrokenLinks \cap WorkingLinks = {}
        /\ \A p \in Listed : faucet.stack[p] # "up" => p \in BrokenLinks
        /\ BrokenSwitches = {s \in Switch : ~faucet.connected[s]}
        /\ egress = EgressQuality
        /\ DataplaneState = "healthy" => SwitchSummary(TRUE) = "healthy"
        /\ \A metrics \in BOOLEAN : SwitchSummary(metrics) = "healthy" => BrokenSwitches = {}

\* The invariant of the dataplane: the types, and a summary that is right.
Inv == TypeOK /\ SummaryIsRight

\* The path of each switch that is found leads to the root over links of the graph and
\* comes through no switch twice; and it is found whenever the hops lead there
\* (_populate_path, which also ends when the hops lead in a circle).
LeadsTo(s) == IF topo.dps[s] = NoPort \/ Across(topo.dps[s]) = NoPort THEN s ELSE SwitchOf[Across(topo.dps[s])]
Led(s) ==
    LET led[n \in 0 .. Cardinality(Switch)] == IF n = 0 THEN s ELSE LeadsTo(led[n - 1])
    IN  led
Reaches(s) == topo.dps[topo.root] = NoPort /\ Led(s)[Cardinality(Switch)] = topo.root
PathIsRight ==
    topo # None =>
        \A s \in Switch :
            LET w == EgressPath(s)
            IN  /\ w.status # "walking"
                /\ w.status = "healthy" <=> (Reaches(s) /\ topo.links # {})
                /\ w.status = "healthy" =>
                    /\ w.path[1].switch = s /\ Last(w.path).switch = topo.root
                    /\ \A i \in 1 .. Len(w.path) - 1 : w.path[i + 1].in = Peer[w.path[i].out]
                    /\ Cardinality({w.path[i].switch : i \in DOMAIN w.path}) = Len(w.path)

\* An older topology never takes the place of a newer one, though topologies are stored by
\* one thread and applied by another (heartbeat_update_stack_state).
TopologyNeverReverts ==
    [][topo # None => topo'.stamp >= topo.stamp]_topo

\* However often the stack changes, a topology is applied no later than two coalescing
\* times and a second after the first that waits: no stream of events postpones it
\* (update_delta in heartbeat_update_stack_state).
ChangesAreNotPostponed ==
    stackData # None /\ heartbeat = At("idle") => waiting <= 2 * CoalesceSec

\* Not promised by the code (README, section 4.2).
AllHandled == restores > 0 /\ queue = <<>> /\ stackData = None /\ heartbeat = At("idle")
TopologyIsApplied == AllHandled => topo.stamp = faucet.topo.stamp
GraphIsRestored == AllHandled /\ topo.stamp = faucet.topo.stamp => topo.links = faucet.topo.links
BothEndsCount == Settled => \A p \in Listed : p \notin BrokenLinks => p \in WorkingLinks
ReloadsAreCounted == Settled => configChanges = faucet.loads

=============================================================================
