----------------------------- MODULE LearnedHosts -----------------------------
(***************************************************************************)
(* The hosts in forch/faucet_state_collector.py: where each MAC has been   *)
(* learned, the RADIUS result shown with it, and who may change this.      *)
(*                                                                         *)
(*  - event: the main loop, with the learn and expire events of Faucet and *)
(*    the restoration of the hosts from its metrics;                       *)
(*  - radius: the thread of a RADIUS result, which takes no lock;          *)
(*  - http: requests, in a decorator that holds _lock;                     *)
(*  - local: the cleanup when the controller is not VRRP master.           *)
(*                                                                         *)
(* What a thread does under `lock` is one step, except where it can meet a *)
(* thread that does not take it.  The calls to the placement callback and  *)
(* the device reporter, which change nothing here, are inputs of           *)
(* PortStateManager and TestingService.                                    *)
(***************************************************************************)
EXTENDS Naturals, Sequences, FiniteSets, SequencesExt

CONSTANTS
    Mac,       \* the hosts
    Switch,    \* the switches
    Port,      \* the ports of all switches
    SwitchOf,  \* the switch of a port
    TypeOf,    \* port_attr['type'] of a port
    Peer,      \* the port at the other end of a stack port
    Access,    \* the values of a RADIUS result
    MaxHops,   \* max_hops of _get_host_path
    Snapshots, \* bound: the hosts in the metrics of Faucet at a restoration
    MaxResults,\* bound: RADIUS results
    None       \* no such entry

PortType == {"access", "stack", "egress", "sequester"}
StackPort == {p \in Port : TypeOf[p] = "stack"}

\* A MAC has a port on each switch that has learned it.
Table == [Mac -> [Switch -> Port \cup {None}]]
Nowhere == [m \in Mac |-> [s \in Switch |-> None]]

ASSUME ConfigAssumption ==
    /\ SwitchOf \in [Port -> Switch]
    /\ TypeOf \in [Port -> PortType]
    /\ Peer \in [StackPort -> StackPort]
    /\ \A p \in StackPort : Peer[Peer[p]] = p /\ SwitchOf[Peer[p]] # SwitchOf[p]
    /\ Snapshots \subseteq Table
    /\ MaxHops \in Nat
    /\ MaxResults \in Nat
    /\ None \notin Port \cup Mac \cup Access \cup Switch
    /\ None \notin {"event", "http", "local"}

VARIABLES
    learned,       \* learned_macs: the port of a MAC on each switch
    switchMacs,    \* LEARNED_MACS of switch_states
    tables,        \* the switches that have such a table: some host was learned there once
    radiusResults, \* radius_results
    macResult,     \* MAC_RADIUS_RESULT of the entry of a MAC
    lock,          \* the owner of self.lock
    summaryLock,   \* the owner of self._lock
    event,         \* the main loop: what it is doing, and with what
    radius,        \* the RADIUS thread
    http,          \* the thread of a request
    local,         \* the thread of the local state collector
    results        \* how many RADIUS results there have been

hosts == <<learned, switchMacs, tables, macResult>>
threads == <<event, radius, http, local>>
vars == <<hosts, radiusResults, lock, summaryLock, threads, results>>

Idle == [at |-> "idle"]

Init ==
    /\ learned = Nowhere
    /\ switchMacs = [s \in Switch |-> {}]
    /\ tables = {}
    /\ radiusResults = [m \in Mac |-> None]
    /\ macResult = [m \in Mac |-> None]
    /\ lock = None
    /\ summaryLock = None
    /\ event = Idle
    /\ radius = Idle
    /\ http = Idle
    /\ local = Idle
    /\ results = 0

Entry(m) == \E s \in Switch : learned[m][s] # None

-----------------------------------------------------------------------------
(* What the handlers do under `lock`. *)

\* process_port_learn, up to the look at the RADIUS result.
AddEntry(m, p) ==
    /\ learned' = [learned EXCEPT ![m][SwitchOf[p]] = p]
    /\ switchMacs' = [switchMacs EXCEPT ![SwitchOf[p]] = @ \cup {m}]
    /\ tables' = tables \cup {SwitchOf[p]}
    /\ UNCHANGED macResult

\* Mutant: the entries of the switches are not removed.
RemoveEntriesKeepsSwitch(pairs) ==
    LET left == [m \in Mac |-> [s \in Switch |-> IF <<m, s>> \in pairs THEN None ELSE learned[m][s]]]
    IN  /\ learned' = left
        /\ macResult' = [m \in Mac |-> IF \A s \in Switch : left[m][s] = None THEN None ELSE macResult[m]]
        /\ UNCHANGED <<switchMacs, tables>>

\* process_port_expire, for a set of pairs of a MAC and a switch; the entry of a MAC
\* goes with its last switch.
RemoveEntries(pairs) ==
    LET left == [m \in Mac |-> [s \in Switch |-> IF <<m, s>> \in pairs THEN None ELSE learned[m][s]]]
    IN  /\ learned' = left
        /\ switchMacs' = [s \in Switch |-> {m \in switchMacs[s] : <<m, s>> \notin pairs}]
        /\ macResult' = [m \in Mac |-> IF \A s \in Switch : left[m][s] = None THEN None ELSE macResult[m]]
        /\ UNCHANGED tables

\* Everything _cleanup_learned_macs finds in its copy of learned_macs.
AllEntries == {entry \in Mac \X Switch : learned[entry[1]][entry[2]] # None}

-----------------------------------------------------------------------------
(* The main loop. *)

LearnAt(m, p, rest) == [at |-> "result", mac |-> m, port |-> p, rest |-> rest]

Learn(m, p) ==
    /\ event = Idle
    /\ lock = None
    /\ lock' = "event"
    /\ AddEntry(m, p)
    /\ event' = LearnAt(m, p, Nowhere)
    /\ UNCHANGED <<radiusResults, summaryLock, radius, http, local, results>>

\* The result is read, and then stored, or the entry asserted to be without one.
ReadResult ==
    /\ event.at = "result"
    /\ event' = [at |-> "store", mac |-> event.mac, port |-> event.port, rest |-> event.rest,
                 result |-> radiusResults[event.mac]]
    /\ UNCHANGED <<hosts, radiusResults, lock, summaryLock, radius, http, local,
                   results>>

\* Mutant: acquire and release without finally: the failed assertion keeps the lock.
StoreResultKeepsLock ==
    /\ event.at = "store"
    /\ LET asserted == event.result # None \/ macResult[event.mac] = None
       IN  /\ lock' = IF asserted THEN None ELSE lock
           /\ macResult' = IF event.result # None THEN [macResult EXCEPT ![event.mac] = event.result]
                           ELSE macResult
           /\ event' = IF ~asserted THEN [at |-> "ended"]
                       ELSE IF event.rest = Nowhere THEN Idle
                       ELSE [at |-> "relearn", rest |-> event.rest]
    /\ UNCHANGED <<learned, switchMacs, tables, radiusResults, summaryLock, radius, http, local, results>>

StoreResult ==
    /\ event.at = "store"
    /\ lock' = None
    /\ LET m == event.mac
           asserted == event.result # None \/ macResult[m] = None
       IN  /\ macResult' = IF event.result # None THEN [macResult EXCEPT ![m] = event.result]
                           ELSE macResult
           /\ event' = IF ~asserted THEN [at |-> "ended"]
                       ELSE IF event.rest = Nowhere THEN Idle
                       ELSE [at |-> "relearn", rest |-> event.rest]
    /\ UNCHANGED <<learned, switchMacs, tables, radiusResults, summaryLock, radius, http, local, results>>

\* An entry that a table does not have is logged; a switch without a table raises KeyError,
\* which ends the main loop.
Expire(m, s) ==
    /\ event = Idle
    /\ lock = None
    /\ IF s \in tables THEN RemoveEntries({<<m, s>>}) /\ UNCHANGED event
                       ELSE event' = [at |-> "ended"] /\ UNCHANGED hosts
    /\ UNCHANGED <<radiusResults, lock, summaryLock, radius, http, local, results>>

\* _restore_l2_learn_state_from_samples takes _lock, and then lock for each entry.
RestoreBegins ==
    /\ event = Idle
    /\ summaryLock = None
    /\ summaryLock' = "event"
    /\ \E snapshot \in Snapshots : event' = [at |-> "cleanup", rest |-> snapshot]
    /\ UNCHANGED <<hosts, radiusResults, lock, radius, http, local, results>>

RestoreCleans ==
    /\ event.at = "cleanup"
    /\ lock = None
    /\ RemoveEntries(AllEntries)
    /\ summaryLock' = None
    /\ event' = IF event.rest = Nowhere THEN Idle ELSE [event EXCEPT !.at = "relearn"]
    /\ UNCHANGED <<radiusResults, lock, radius, http, local, results>>

\* Mutant: a sample is taken up again and again.
RestoreLearnsAgain ==
    /\ event.at = "relearn"
    /\ lock = None
    /\ lock' = "event"
    /\ \E m \in Mac, s \in Switch :
        /\ event.rest[m][s] # None
        /\ AddEntry(m, event.rest[m][s])
        /\ event' = LearnAt(m, event.rest[m][s], event.rest)
    /\ UNCHANGED <<radiusResults, summaryLock, radius, http, local, results>>

RestoreLearns ==
    /\ event.at = "relearn"
    /\ lock = None
    /\ lock' = "event"
    /\ \E m \in Mac, s \in Switch :
        /\ event.rest[m][s] # None
        /\ AddEntry(m, event.rest[m][s])
        /\ event' = LearnAt(m, event.rest[m][s], [event.rest EXCEPT ![m][s] = None])
    /\ UNCHANGED <<radiusResults, summaryLock, radius, http, local, results>>

\* The events: a learned host at a port, which is one of a switch, and a host forgotten.
L2Learn == [eth_src : Mac, port_no : Port]
L2Expire == [eth_src : Mac, dp_name : Switch]

MainLoop ==
    \/ \E e \in L2Learn : Learn(e.eth_src, e.port_no)
    \/ \E e \in L2Expire : Expire(e.eth_src, e.dp_name)
    \/ RestoreBegins

Continue == ReadResult \/ StoreResult \/ RestoreCleans \/ RestoreLearns

-----------------------------------------------------------------------------
(* The RADIUS thread: update_radius_result, without a lock. *)

SetResult(m, a) ==
    /\ radius = Idle
    /\ results < MaxResults
    /\ results' = results + 1
    /\ radiusResults' = [radiusResults EXCEPT ![m] = a]
    /\ radius' = [at |-> "store", mac |-> m, result |-> a]
    /\ UNCHANGED <<hosts, lock, summaryLock, event, http, local>>

\* If the MAC is not learned the result is only kept in radius_results.
ShowResult ==
    /\ radius.at = "store"
    /\ macResult' = IF Entry(radius.mac) THEN [macResult EXCEPT ![radius.mac] = radius.result]
                    ELSE macResult
    /\ radius' = Idle
    /\ UNCHANGED <<learned, switchMacs, tables, radiusResults, lock, summaryLock, event,
                   http, local, results>>

-----------------------------------------------------------------------------
(* HTTP requests, in the decorator _pre_check. *)

Learnt == {m \in Mac : Entry(m)}

Request ==
    /\ http = Idle
    /\ summaryLock = None
    /\ summaryLock' = "http"
    /\ http' \in {[at |-> "summary"], [at |-> "switch", left |-> Switch],
                  [at |-> "list", size |-> Cardinality(Learnt), seen |-> {}]}
    /\ UNCHANGED <<hosts, radiusResults, lock, event, radius, local, results>>

\* get_host_summary, like the other summaries, takes lock as well.
HostSummary ==
    /\ http.at = "summary"
    /\ lock = None
    /\ summaryLock' = None
    /\ http' = Idle
    /\ UNCHANGED <<hosts, radiusResults, lock, event, radius, local, results>>

\* get_switch_state takes lock again for each switch.
GetSwitch(s) ==
    /\ http.at = "switch"
    /\ s \in http.left
    /\ lock = None
    /\ http' = [http EXCEPT !.left = @ \ {s}]
    /\ UNCHANGED <<hosts, radiusResults, lock, summaryLock, event, radius, local, results>>

SwitchesEnd ==
    /\ http.at = "switch"
    /\ http.left = {}
    /\ summaryLock' = None
    /\ http' = Idle
    /\ UNCHANGED <<hosts, radiusResults, lock, event, radius, local, results>>

\* _fill_switch_vlan_behavior, _fill_port_behavior, _fill_acls_behavior: without the metric
\* of Gauge, for a rule without a cookie or for a port that is not configured, the request
\* ends with what the decorator makes of it.
FillBehaviorFails ==
    /\ http.at \in {"list", "switch"}
    /\ http.at = "switch" => lock = None /\ http.left # {}
    /\ Learnt # {}
    /\ summaryLock' = None
    /\ http' = Idle
    /\ UNCHANGED <<hosts, radiusResults, lock, event, radius, local, results>>

\* get_list_hosts iterates over learned_macs without lock; a change of size ends the
\* iteration by an exception, which the decorator turns into a broken summary.
ListHost ==
    /\ http.at = "list"
    /\ http.size = Cardinality(Learnt)
    /\ \E m \in Learnt \ http.seen : http' = [http EXCEPT !.seen = @ \cup {m}]
    /\ UNCHANGED <<hosts, radiusResults, lock, summaryLock, event, radius, local,
                   results>>

ListEnds ==
    /\ http.at = "list"
    /\ http.size # Cardinality(Learnt) \/ Learnt \subseteq http.seen
    /\ summaryLock' = None
    /\ http' = Idle
    /\ UNCHANGED <<hosts, radiusResults, lock, event, radius, local, results>>

GetSwitches == SwitchesEnd \/ \E s \in Switch : GetSwitch(s)

Serve == HostSummary \/ GetSwitches \/ FillBehaviorFails \/ ListHost \/ ListEnds

-----------------------------------------------------------------------------
(* The local state collector: cleanup takes lock, and then _lock. *)

Cleanup ==
    /\ local = Idle
    /\ lock = None
    /\ lock' = "local"
    /\ local' = [at |-> "cleanup"]
    /\ UNCHANGED <<hosts, radiusResults, summaryLock, event, radius, http, results>>

CleanupLearnedMacs ==
    /\ local.at = "cleanup"
    /\ summaryLock = None
    /\ RemoveEntries(AllEntries)
    /\ lock' = None
    /\ local' = Idle
    /\ UNCHANGED <<radiusResults, summaryLock, event, radius, http, results>>

-----------------------------------------------------------------------------
Next ==
    \/ MainLoop
    \/ Continue
    \/ \E m \in Mac, a \in Access : SetResult(m, a)
    \/ ShowResult
    \/ Request
    \/ Serve
    \/ Cleanup
    \/ CleanupLearnedMacs

Spec == Init /\ [][Next]_vars

\* Every thread runs; a lock that is free again and again is given to one that waits.
Fairness ==
    /\ WF_vars(ReadResult \/ StoreResult)
    /\ SF_vars(RestoreCleans)
    /\ SF_vars(RestoreLearns)
    /\ WF_vars(ShowResult)
    /\ SF_vars(HostSummary)
    /\ SF_vars(GetSwitches)
    /\ WF_vars(ListHost \/ ListEnds)
    /\ SF_vars(CleanupLearnedMacs)

FairSpec == Spec /\ Fairness

-----------------------------------------------------------------------------
(* What requests show: _fill_learned_macs, _get_access_switch and _get_host_path. *)

\* The hosts of a switch in its state, by the type of their port.
FillLearnedMacs(s) ==
    LET at(types) == {m \in switchMacs[s] : learned[m][s] # None /\ TypeOf[learned[m][s]] \in types}
    IN  [access_port_macs |-> at({"access", "sequester"}), stacking_port_macs |-> at({"stack"}),
         egress_port_macs |-> at({"egress"})]

\* The switches at which a MAC is at an access port; the code takes the one learned first.
AccessSwitches(m) == {s \in Switch : learned[m][s] # None /\ TypeOf[learned[m][s]] = "access"}

Hop(s, in, out) == [switch |-> s, in |-> in, out |-> out]

\* Mutant: any port outside the stack ends the path.
NextHopStopsAtAccess(w, dst, dstSwitch) ==
    LET out == learned[dst][w.switch]
        walked == Append(w.path, Hop(w.switch, w.in, out))
    IN  IF w.status # "walking" THEN w
        ELSE IF out = None THEN [w EXCEPT !.status = "no route"]
        ELSE IF TypeOf[out] # "stack" THEN [w EXCEPT !.path = walked, !.status = "found"]
        ELSE [w EXCEPT !.path = walked, !.switch = SwitchOf[Peer[out]], !.in = Peer[out]]

\* One round of the loop: the port towards the destination, and the switch behind it.
NextHop(w, dst, dstSwitch) ==
    LET out == learned[dst][w.switch]
        walked == Append(w.path, Hop(w.switch, w.in, out))
    IN  IF w.status # "walking" THEN w
        ELSE IF out = None THEN [w EXCEPT !.status = "no route"]
        ELSE IF w.switch = dstSwitch THEN [w EXCEPT !.path = walked, !.status = "found"]
        ELSE IF TypeOf[out] # "stack" THEN [w EXCEPT !.status = "no peer"]
        ELSE [w EXCEPT !.path = walked, !.switch = SwitchOf[Peer[out]], !.in = Peer[out]]

\* Still "walking" after MaxHops rounds is the exception "Forwarding loop detected".
HostWalk(src, srcSwitch, dst, dstSwitch) ==
    LET start == [status |-> "walking", path |-> <<>>, switch |-> srcSwitch, in |-> learned[src][srcSwitch]]
        walk[n \in 0 .. MaxHops] == IF n = 0 THEN start ELSE NextHop(walk[n - 1], dst, dstSwitch)
    IN  walk

HostPath(src, srcSwitch, dst, dstSwitch) == HostWalk(src, srcSwitch, dst, dstSwitch)[MaxHops]

-----------------------------------------------------------------------------
(* Properties. *)

\* The types of all variables; the locks are held by the threads that are inside them.
TypeOK ==
    /\ learned \in Table
    /\ \A m \in Mac, s \in Switch : learned[m][s] # None => SwitchOf[learned[m][s]] = s
    /\ switchMacs \in [Switch -> SUBSET Mac]
    /\ tables \subseteq Switch
    /\ radiusResults \in [Mac -> Access \cup {None}]
    /\ macResult \in [Mac -> Access \cup {None}]
    /\ (lock = "event") = (event.at \in {"result", "store"})
    /\ (lock = "local") = (local.at = "cleanup")
    /\ lock \in {"event", "local", None}
    /\ (summaryLock = "event") = (event.at = "cleanup")
    /\ (summaryLock = "http") = (http.at \in {"summary", "switch", "list"})
    /\ summaryLock \in {"event", "http", None}
    /\ results \in 0 .. MaxResults

\* The table of each switch and the table of each host say the same (process_port_learn,
\* process_port_expire, _cleanup_learned_macs), whoever interrupts whom: a host of the list
\* of hosts is among those that the state of its switch shows at access ports.  A cleanup,
\* which expires what it finds in the one, finds all of it in the other, and raises nothing.
TablesAgree ==
    \A m \in Mac, s \in Switch :
        /\ m \in switchMacs[s] <=> learned[m][s] # None
        /\ learned[m][s] # None => s \in tables
        /\ s \in AccessSwitches(m) => m \in FillLearnedMacs(s).access_port_macs

\* A host that is not learned shows no RADIUS result (process_port_expire).
NoResultWithoutHost == \A m \in Mac : macResult[m] # None => Entry(m)

\* The invariant of the tables: their types, their agreement, and results of hosts only.
Inv == TypeOK /\ TablesAgree /\ NoResultWithoutHost

\* A path that is returned leads from the access port of the source to that of the
\* destination over the links of the stack, and visits no switch twice (_get_host_path).
PathIsWalk ==
    \A src, dst \in Mac : \A a \in AccessSwitches(src), b \in AccessSwitches(dst) :
        LET w == HostPath(src, a, dst, b)
            path == w.path
        IN  w.status = "found" =>
                /\ path[1].in = learned[src][a]
                /\ Last(path).out = learned[dst][b]
                /\ \A i \in 1 .. Len(path) - 1 : path[i].out \in StackPort /\ Peer[path[i].out] = path[i + 1].in
                /\ Cardinality({path[i].switch : i \in 1 .. Len(path)}) = Len(path)

\* cleanup holds lock and waits for _lock, whose owner waits for lock.
Deadlocked ==
    /\ local.at = "cleanup"
    /\ event.at = "cleanup" \/ http.at = "summary" \/ (http.at = "switch" /\ http.left # {})

\* A request is answered, and a restoration ends, unless the two locks have been taken in
\* opposite orders: the cleanup of a controller that is no longer master is the only
\* thread that can block the others for ever (the lock order of _pre_check and cleanup).
RequestsAreServed == http # Idle ~> (http = Idle \/ Deadlocked)
RestorationEnds == event.at = "cleanup" ~> (event \in {Idle, [at |-> "ended"]} \/ Deadlocked)

\* Not promised by the code (README, section 4.2).
NoDeadlock == ~Deadlocked
ResultsAgree == radius = Idle /\ event = Idle => \A m \in Learnt : macResult[m] = radiusResults[m]

\* The assertion of process_port_learn: without a result for the MAC, the entry of the
\* MAC has none either.
ResultAsserted ==
    event.at = "store" => event.result # None \/ macResult[event.mac] = None

\* Whatever host Faucet forgets, the main loop goes on.
ExpiryIsHandled == [][event.at = "idle" => event'.at # "ended"]_vars

=============================================================================
