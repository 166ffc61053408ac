------------------------------ MODULE SystemState ------------------------------
(***************************************************************************)
(* How the state of the system comes about that get_system_state shows:    *)
(*   the pings of the control plane network (forch/cpn_state_collector.py, *)
(*   forch/ping_manager.py), with the peer controller among the nodes;     *)
(*   the local checks of the processes and of the VRRP state               *)
(*   (forch/local_state_collector.py), which decide whether this           *)
(*   controller is active and clear the collectors when it is not;         *)
(*   the summary over all of them (forch/forchestrator.py).                *)
(*                                                                         *)
(* Each of the two collectors has a periodic thread that sets the timer of *)
(* its next round at the end of a round: an exception ends it for good.    *)
(* A round is one step: it changes its state under the collector's lock.   *)
(***************************************************************************)
EXTENDS Naturals, Sequences, FiniteSets, SequencesExt

CONSTANTS
    Controller, \* site.controllers
    Self,       \* CONTROLLER_NAME
    Node,       \* the nodes of cpn.yaml
    Proc,       \* the processes to look for
    MinHealthy, \* min_consecutive_ping_healthy
    MinDown,    \* min_consecutive_ping_down
    None        \* nothing known yet

\* The states that the VRRP check may record.
VrrpState == {"MASTER", "BACKUP", "FAULT", "ERROR"}

ASSUME ConfigAssumption ==
    /\ IsFiniteSet(Controller) /\ IsFiniteSet(Node) /\ Node # {}
    /\ MinHealthy \in Nat \ {0} /\ MinDown \in Nat \ {0}
    /\ None \notin Controller \cup Node
    /\ None \notin BOOLEAN
    /\ None \notin VrrpState

\* State.State, as far as these parts use it.
State == {"unknown", "broken", "active", "damaged", "down", "healthy", "inactive", "initializing", "split"}

\* What a look at the data of keepalived may give: its state, none at all, or an error.
Look == {"MASTER", "BACKUP", "FAULT", "no state", "no file"}
VrrpDetail == {"no state", "no file", "fault"}

\* What a look for the processes of one name may find: as many as there should be, another
\* number of them, or processes whose statistics cannot be read.
Found == {"all", "other number", "no stats"}

VARIABLES
    checkVrrp,   \* check_vrrp is set
    pings,       \* the latest pings of each node, answered or not: history, for the properties
    lastPing,    \* PING_STATE of each node
    consecutive, \* PING_STATE_CONSECUTIVE_COUNT, up to the larger threshold
    nodeState,   \* NODE_STATE of each node
    cpnState,    \* CPN_STATE
    pingLoop,    \* the thread of the ping manager
    vrrp,        \* _vrrp_state: the state and its detail
    activeState, \* _active_state of the forchestrator
    broken,      \* the processes that were not as they should be
    localLoop,   \* the thread of the local state collector
    hosts,       \* whether the state collector has learned hosts
    dataplane,   \* the summary of dataplane and switches
    connected,   \* event_socket_connected
    rounds       \* whether the rounds of each loop are even: so that a round is a step always

cpn == <<pings, lastPing, consecutive, nodeState, cpnState, pingLoop>>
local == <<vrrp, activeState, broken, localLoop>>
faucet == <<dataplane, connected>>
vars == <<checkVrrp, cpn, local, hosts, faucet, rounds>>

Round(loop) == rounds' = [rounds EXCEPT ![loop] = ~@]

Larger == IF MinHealthy > MinDown THEN MinHealthy ELSE MinDown

-----------------------------------------------------------------------------
(* The control plane network. *)

\* _get_node_state, after a ping: the first one of a kind counts as none.
NodeStateAfter(answered, count) ==
    IF answered /\ count >= MinHealthy THEN "healthy"
    ELSE IF ~answered /\ count >= MinDown THEN "down"
    ELSE "damaged"

\* Mutant: the count goes on when the pings change from lost to answered.
CountAfterNotReset(n, answered) ==
    IF lastPing[n] # answered THEN consecutive[n]
    ELSE IF consecutive[n] = Larger THEN Larger ELSE consecutive[n] + 1

CountAfter(n, answered) ==
    IF lastPing[n] # answered THEN 0
    ELSE IF consecutive[n] = Larger THEN Larger ELSE consecutive[n] + 1

\* _get_cpn_state
CpnStateOf(states) ==
    LET unhealthy == {n \in Node : states[n] # "healthy"}
    IN  IF unhealthy = {} THEN "healthy" ELSE IF unhealthy = Node THEN "down" ELSE "damaged"

\* A round of pings and _handle_ping_result; `answers' are the nodes that answer.
PingHosts(answers) ==
    /\ pingLoop = "running"
    /\ LET answered(n) == n \in answers
           keep == Larger + 1
       IN  /\ pings' = [n \in Node |->
                  LET all == Append(pings[n], answered(n))
                  IN  IF Len(all) > keep THEN Tail(all) ELSE all]
           /\ lastPing' = [n \in Node |-> answered(n)]
           /\ consecutive' = [n \in Node |-> CountAfter(n, answered(n))]
           /\ nodeState' = [n \in Node |-> NodeStateAfter(answered(n), consecutive'[n])]
    /\ cpnState' = CpnStateOf(nodeState')
    /\ Round("pings")
    /\ UNCHANGED <<checkVrrp, pingLoop, local, hosts, faucet>>

\* A ping cannot be started: no round follows.
PingsFail ==
    /\ pingLoop = "running"
    /\ pingLoop' = "ended"
    /\ UNCHANGED <<checkVrrp, pings, lastPing, consecutive, nodeState, cpnState, local, hosts, faucet, rounds>>

-----------------------------------------------------------------------------
(* The local checks. *)

StateOf(look) == IF look \in VrrpState THEN look ELSE "ERROR"
ErrorDetail(look) == IF look \in VrrpState THEN None ELSE look

\* The handler of the forchestrator, for a state that is new.
ActiveStateOf(state) ==
    CASE state = "MASTER" -> "active" [] state = "BACKUP" -> "inactive" [] OTHER -> "broken"

HandleActiveState(state) == activeState' = state

\* cleanup: the learned hosts are forgotten; their forgetting in steps is in LearnedHosts.
Cleanup == hosts' = FALSE

\* Mutant: only the details are compared.
HandleVrrpStateByDetail(look) ==
    IF ~checkVrrp \/ ErrorDetail(look) = vrrp.detail THEN UNCHANGED <<vrrp, activeState, hosts>>
    ELSE /\ vrrp' = [state |-> StateOf(look),
                     detail |-> IF look = "FAULT" THEN "fault" ELSE ErrorDetail(look)]
         /\ HandleActiveState(ActiveStateOf(StateOf(look)))
         /\ IF look = "MASTER" THEN UNCHANGED hosts ELSE Cleanup

\* Mutant: the collectors are cleared for a controller that is known to be inactive only.
HandleVrrpStateKeepsHosts(look) ==
    IF ~checkVrrp \/ (StateOf(look) = vrrp.state /\ ErrorDetail(look) = vrrp.detail)
    THEN UNCHANGED <<vrrp, activeState, hosts>>
    ELSE /\ vrrp' = [state |-> StateOf(look),
                     detail |-> IF look = "FAULT" THEN "fault" ELSE ErrorDetail(look)]
         /\ HandleActiveState(ActiveStateOf(StateOf(look)))
         /\ IF look # "BACKUP" THEN UNCHANGED hosts ELSE Cleanup

\* _check_vrrp_info and _handle_vrrp_state.  A fault is stored with a detail that it is
\* not compared with: each further check takes it for a change.
HandleVrrpState(look) ==
    IF ~checkVrrp \/ (StateOf(look) = vrrp.state /\ ErrorDetail(look) = vrrp.detail)
    THEN UNCHANGED <<vrrp, activeState, hosts>>
    ELSE /\ vrrp' = [state |-> StateOf(look),
                     detail |-> IF look = "FAULT" THEN "fault" ELSE ErrorDetail(look)]
         /\ HandleActiveState(ActiveStateOf(StateOf(look)))
         /\ IF look = "MASTER" THEN UNCHANGED hosts ELSE Cleanup

\* _extract_process_state: an error among the statistics is a broken process.
ExtractProcessState(found) == IF found = "all" THEN "healthy" ELSE "broken"

CheckProcessInfo(found) == broken' = {p \in Proc : ExtractProcessState(found[p]) = "broken"}

\* _periodic_check_local_state
LocalCheck(found, look) ==
    /\ localLoop = "running"
    /\ CheckProcessInfo(found)
    /\ HandleVrrpState(look)
    /\ Round("local")
    /\ UNCHANGED <<checkVrrp, cpn, localLoop, faucet>>

\* A process that goes away while it is looked at raises an exception.
LocalCheckFails ==
    /\ localLoop = "running"
    /\ localLoop' = "ended"
    /\ UNCHANGED <<checkVrrp, cpn, vrrp, activeState, broken, hosts, faucet, rounds>>

-----------------------------------------------------------------------------
(* What the other parts report: FaucetEvents, LearnedHosts, Dataplane. *)

HostIsLearned ==
    /\ ~hosts
    /\ hosts' = TRUE
    /\ UNCHANGED <<checkVrrp, cpn, local, faucet, rounds>>

\* Everything is broken until the states have been restored.
FaucetChanges ==
    /\ dataplane' \in {"healthy", "damaged", "broken"}
    /\ connected' \in BOOLEAN
    /\ UNCHANGED <<checkVrrp, cpn, local, hosts, rounds>>

\* CPNStateCollector.initialize: cpn.yaml may be missing or name no nodes.
CpnInit ==
    /\ pings = [n \in Node |-> <<>>]
    /\ lastPing = [n \in Node |-> None]
    /\ consecutive = [n \in Node |-> 0]
    /\ nodeState = [n \in Node |-> "unknown"]
    /\ \/ cpnState = "initializing" /\ pingLoop = "running"
       \/ cpnState = "broken" /\ pingLoop = "no nodes"

\* LocalStateCollector.initialize: without VRRP the controller is active at once.
LocalInit ==
    /\ checkVrrp \in BOOLEAN
    /\ vrrp = [state |-> None, detail |-> None]
    /\ activeState = IF checkVrrp THEN "initializing" ELSE "active"
    /\ broken = {None}
    /\ localLoop = "running"

\* Forchestrator.initialize: the collectors are there before Faucet has been heard of.
Init ==
    /\ LocalInit
    /\ CpnInit
    /\ hosts = FALSE
    /\ dataplane = "broken"
    /\ connected = FALSE
    /\ rounds = [loop \in {"pings", "local"} |-> TRUE]

Next ==
    \/ \E answers \in SUBSET Node : PingHosts(answers)
    \/ PingsFail
    \/ \E found \in [Proc -> Found], look \in Look : LocalCheck(found, look)
    \/ LocalCheckFails
    \/ HostIsLearned
    \/ FaucetChanges

Spec == Init /\ [][Next]_vars

\* The timers of the two loops fire.
FairSpec ==
    /\ Spec
    /\ WF_vars(\E answers \in SUBSET Node : PingHosts(answers))
    /\ WF_vars(\E found \in [Proc -> Found], look \in Look : LocalCheck(found, look))

-----------------------------------------------------------------------------
(* The summaries, and the state of the system. *)

\* get_process_summary: unknown before the first check.
ProcessState ==
    IF broken = {None} THEN "unknown" ELSE IF broken = {} THEN "healthy" ELSE "broken"

\* get_vrrp_summary
VrrpSummary ==
    CASE ~checkVrrp -> "healthy"
      [] checkVrrp /\ vrrp.state = None -> "initializing"
      [] checkVrrp /\ vrrp.state \in {"MASTER", "BACKUP"} -> "healthy"
      [] OTHER -> "broken"

\* get_cpn_state: without a configuration there are no nodes to be shown.
CpnNodes == [n \in IF pingLoop = "no nodes" THEN {} ELSE Node |-> nodeState[n]]

\* get_cpn_summary
CpnSummary == cpnState

\* _get_system_summary; listing hosts and switches fails with the dataplane.
SummarySources == {CpnSummary, ProcessState, dataplane, VrrpSummary}

\* _get_peer_controller_name: there is one of exactly two.
Peers == IF Self \in Controller /\ Cardinality(Controller) = 2 THEN Controller \ {Self} ELSE {}

PeerIsHealthy == \E peer \in Peers \cap DOMAIN CpnNodes : CpnNodes[peer] = "healthy"

\* _get_controller_state: a broken VRRP is left to its summary.
ControllerState ==
    CASE activeState \in {"initializing", "inactive"} -> activeState
      [] activeState \notin {"initializing", "inactive"} /\ cpnState = "initializing" -> "initializing"
      [] OTHER -> IF PeerIsHealthy THEN "active" ELSE "split"

\* Mutant: what is not known yet is no trouble.
CombinedSummaryOptimistic ==
    CASE SummarySources \cap {"down", "broken"} # {} \/ ~connected -> "broken"
      [] OTHER -> IF "damaged" \in SummarySources THEN "damaged" ELSE "healthy"

\* _get_combined_summary of an active controller; nothing adds to _system_errors.
CombinedSummary ==
    CASE SummarySources \cap {"down", "broken"} # {} \/ ~connected -> "broken"
      [] OTHER -> IF SummarySources = {"healthy"} THEN "healthy" ELSE "damaged"

SystemStateShown == IF ControllerState = "active" THEN CombinedSummary ELSE ControllerState

-----------------------------------------------------------------------------
(* Properties. *)

\* The types of all variables.
TypeOK ==
    /\ checkVrrp \in BOOLEAN
    /\ pings \in [Node -> BoundedSeq(BOOLEAN, Larger + 1)]
    /\ lastPing \in [Node -> BOOLEAN \cup {None}]
    /\ consecutive \in [Node -> 0 .. Larger]
    /\ nodeState \in [Node -> {"unknown", "healthy", "damaged", "down"}]
    /\ cpnState \in {"initializing", "broken", "healthy", "damaged", "down"}
    /\ pingLoop \in {"no nodes", "running", "ended"}
    /\ vrrp \in [state : VrrpState \cup {None}, detail : VrrpDetail \cup {None}]
    /\ activeState \in {"initializing", "active", "inactive", "broken"}
    /\ broken \in (SUBSET Proc) \cup {{None}}
    /\ localLoop \in {"running", "ended"}
    /\ hosts \in BOOLEAN
    /\ dataplane \in {"healthy", "damaged", "broken"}
    /\ connected \in BOOLEAN
    /\ rounds \in [{"pings", "local"} -> BOOLEAN]

\* The hysteresis, against the pings themselves: a node is healthy (down) just if the last
\* pings were all answered (lost), one more than the number configured, because the first
\* of a kind is not counted; the network is down if no node is healthy (_get_node_state).
\* This is what the code counts; what its configuration documents is EnoughPings.
AllOf(n, answered, count) ==
    /\ Len(pings[n]) >= count
    /\ \A i \in Len(pings[n]) - count + 1 .. Len(pings[n]) : pings[n][i] = answered
NodeStateIsRight ==
    \A n \in Node : pings[n] # <<>> =>
        /\ nodeState[n] = "healthy" <=> AllOf(n, TRUE, MinHealthy + 1)
        /\ nodeState[n] = "down" <=> AllOf(n, FALSE, MinDown + 1)
        /\ cpnState = "healthy" <=> \A m \in Node : AllOf(m, TRUE, MinHealthy + 1)
        /\ cpnState = "down" <=> \A m \in Node : ~AllOf(m, TRUE, MinHealthy + 1)

\* The forchestrator is active just if the VRRP state last recorded is MASTER, although it
\* is only told of changes (_handle_vrrp_state, handle_active_state).
ActiveStateFollowsVrrp ==
    activeState = IF ~checkVrrp THEN "active"
                  ELSE IF vrrp.state = None THEN "initializing"
                  ELSE ActiveStateOf(vrrp.state)

\* The invariant of the two collectors: the types, the hysteresis and the active state.
Inv == TypeOK /\ NodeStateIsRight /\ ActiveStateFollowsVrrp

\* The system is healthy only if the processes were all there, VRRP was MASTER and every
\* node had answered for a while (_get_combined_summary, _get_controller_state).
HealthyIsTrue ==
    SystemStateShown = "healthy" =>
        /\ broken = {}
        /\ checkVrrp => vrrp.state = "MASTER"
        /\ \A n \in Node : AllOf(n, TRUE, MinHealthy + 1)
        /\ dataplane = "healthy" /\ connected

\* A change to MASTER keeps the hosts that have been learned, and every other change of the
\* VRRP state forgets them (cleanup).
HostsFollowVrrp ==
    [][vrrp'.state # vrrp.state => (hosts' <=> hosts /\ vrrp'.state = "MASTER")]_vars

\* If from some time on every ping is answered, every process is there, VRRP is MASTER and
\* Faucet is well, the system becomes healthy and stays so; unless a loop has ended, or
\* there is no peer to be seen (the two periodic threads).
Fine ==
    \/ PingHosts(Node)
    \/ LocalCheck([p \in Proc |-> "all"], "MASTER")
    \/ HostIsLearned
    \/ PingsFail
    \/ LocalCheckFails
LoopsRun == pingLoop = "running" /\ localLoop = "running"

HealthIsReported ==
    <>[][Fine]_vars /\ <>[](dataplane = "healthy" /\ connected)
        => <>[](SystemStateShown = "healthy" \/ ~LoopsRun \/ ~(Peers # {} /\ Peers \subseteq Node))

\* Not promised by the code (README, section 4.2).
LoopsGoOn == [](pingLoop # "ended" /\ localLoop # "ended")
CleanupsAreChanges == [][hosts /\ ~hosts' => vrrp'.state # vrrp.state]_vars
StandbyHasNoHosts == activeState = "inactive" => ~hosts

\* As many consecutive pings as are configured determine the state of a node
\* (min_consecutive_ping_healthy and min_consecutive_ping_down of the configuration, "minimum
\* count of consecutive successful pings to determine healthy state").  Refuted: the first
\* ping of a kind sets the count to 0.
EnoughPings ==
    \A n \in Node :
        /\ AllOf(n, TRUE, MinHealthy) => nodeState[n] = "healthy"
        /\ AllOf(n, FALSE, MinDown) => nodeState[n] = "down"

=============================================================================
