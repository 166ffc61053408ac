---------------------------- MODULE TestingService ----------------------------
(***************************************************************************)
(* The sessions of sequestered devices with the testing service            *)
(* (forch/device_report_client.py) and the tap ports of their tunnels      *)
(* (forch/endpoint_handler.py).                                            *)
(*                                                                         *)
(* Each session has a thread that takes the progress of the test from a    *)
(* stream.  `disconnect` cancels the session of a MAC and frees its tap    *)
(* port; it is called when a port goes down, when the sequestering has     *)
(* lasted too long, and by each thread at its end.  The methods under      *)
(* _lock, and those of the endpoint handler under its lock, are one step;  *)
(* a thread takes a message, handles it and configures the tunnel in       *)
(* steps of its own.                                                       *)
(***************************************************************************)
EXTENDS Naturals, FiniteSets, FiniteSetsExt

CONSTANTS
    Mac,         \* the devices
    Port,        \* the access ports they are learned at
    DeviceVlan,  \* the VLANs a device may be in
    SegmentVlan, \* the VLANs of the segments devices are assigned to
    UnauthVlan,  \* unauthenticated_vlan
    Results,     \* the results the testing service sends
    BasePort,    \* BASE_T1SW_PORT, the first tap port
    MaxSessions, \* bound: sessions whose thread has not ended
    MaxMessages, \* bound: messages of a session
    None         \* no device, session, port or VLAN

ASSUME ConfigAssumption ==
    /\ IsFiniteSet(Mac)
    /\ Results \subseteq {"PENDING", "STARTED", "ERROR", "PASSED", "FAILED"}
    /\ BasePort \in Nat \ {0}
    /\ MaxSessions \in Nat
    /\ MaxMessages \in Nat
    /\ None \notin Mac \cup DeviceVlan \cup SegmentVlan \cup Nat

Session == 1 .. MaxSessions

\* SessionResult.ResultCode and the behaviour it is given to the port state manager as;
\* there the last two are the end of the test.
Terminal(result) == result \in {"PASSED", "FAILED"}

\* A message has a result or the endpoint of a tunnel; PENDING is no result at all.
Progress == Results \cup {"endpoint"}

VARIABLES
    dpMac,        \* _dp_mac_map: the device learned last at a port
    deviceVlan,   \* _mac_device_vlan_map
    assignedVlan, \* _mac_assigned_vlan_map
    macSession,   \* _mac_sessions
    session,      \* those whose thread runs: device, VLANs, whether the stream is open, where it is
    macTapPort,   \* _mac_tap_port
    freedPorts,   \* _freed_tap_ports
    nextPort,     \* _next_tap_port
    tapConfig,    \* the TAP interfaces in the structural configuration file
    vxlan,        \* the endpoint server: whose tunnel ends at a tap port
    mainLoop      \* whether the main loop runs

reports == <<dpMac, deviceVlan, assignedVlan>>
taps == <<macTapPort, freedPorts, nextPort, tapConfig>>
vars == <<reports, macSession, session, taps, vxlan, mainLoop>>

Allocated == {macTapPort[m] : m \in Mac} \ {None}

Init ==
    /\ dpMac = [p \in Port |-> None]
    /\ deviceVlan = [m \in Mac |-> None]
    /\ assignedVlan = [m \in Mac |-> None]
    /\ macSession = [m \in Mac |-> None]
    /\ session = [i \in {} |-> None]
    /\ macTapPort = [m \in Mac |-> None]
    /\ freedPorts = {}
    /\ nextPort = BasePort
    /\ tapConfig = {}
    /\ vxlan = [p \in {} |-> None]
    /\ mainLoop = "running"

-----------------------------------------------------------------------------
(* The tap ports. *)

\* Mutant: freed ports are never used again.
AllocateTapPortAnew(m) ==
    IF macTapPort[m] # None THEN UNCHANGED taps
    ELSE /\ macTapPort' = [macTapPort EXCEPT ![m] = nextPort]
         /\ nextPort' = nextPort + 1
         /\ tapConfig' = tapConfig \cup {nextPort}
         /\ UNCHANGED freedPorts

\* _allocate_tap_port: a device keeps its port; the highest free port goes first.
AllocateTapPort(m) ==
    IF macTapPort[m] # None THEN UNCHANGED taps
    ELSE LET port == IF freedPorts = {} THEN nextPort ELSE Max(freedPorts)
         IN  /\ macTapPort' = [macTapPort EXCEPT ![m] = port]
             /\ freedPorts' = freedPorts \ {port}
             /\ nextPort' = IF freedPorts = {} THEN nextPort + 1 ELSE nextPort
             /\ tapConfig' = tapConfig \cup {port}

\* _remove_interface of the endpoint server, whose commands may all fail: they do when there
\* is no such interface.
RemoveInterface(port) == [p \in DOMAIN vxlan \ {port} |-> vxlan[p]]

\* The call fails without an effect when the server cannot be reached.
CleanupInterface(port, cleaned) == vxlan' = IF cleaned THEN RemoveInterface(port) ELSE vxlan

\* free_endpoint: if the ports from this one on are all free the counter goes back.  The
\* call of the endpoint server at the end can fail.
FreeEndpoint(m, cleaned) ==
    LET port == macTapPort[m]
        freed == freedPorts \cup {port}
        tail == port .. nextPort - 1
    IN  IF port = None THEN UNCHANGED <<taps, vxlan>>
        ELSE /\ macTapPort' = [macTapPort EXCEPT ![m] = None]
             /\ tapConfig' = tapConfig \ {port}
             /\ freedPorts' = IF tail \subseteq freed THEN freed \ tail ELSE freed
             /\ nextPort' = IF tail \subseteq freed THEN port ELSE nextPort
             /\ CleanupInterface(port, cleaned)

-----------------------------------------------------------------------------
(* The sessions. *)

\* Mutant: the device is forgotten and the stream of its session is not cancelled.
DisconnectSilently(m, cleaned) ==
    IF macSession[m] = None THEN UNCHANGED <<macSession, session, taps, vxlan>>
    ELSE /\ macSession' = [macSession EXCEPT ![m] = None]
         /\ FreeEndpoint(m, cleaned)
         /\ UNCHANGED session

\* disconnect: only a device with a session has its tap port freed.
Disconnect(m, cleaned) ==
    IF macSession[m] = None THEN UNCHANGED <<macSession, session, taps, vxlan>>
    ELSE /\ session' = [session EXCEPT ![macSession[m]].open = FALSE]
         /\ macSession' = [macSession EXCEPT ![m] = None]
         /\ FreeEndpoint(m, cleaned)

\* _process_session_ready, with the VLANs as they are now known.
GoodVlans(device, assigned) ==
    device # None /\ assigned # None /\ device \notin {UnauthVlan, assigned}

SessionReady(m, device, assigned) ==
    IF macSession[m] # None \/ ~GoodVlans(device, assigned) THEN UNCHANGED <<macSession, session>>
    ELSE /\ DOMAIN session # Session
         /\ LET i == Min(Session \ DOMAIN session)
            IN  /\ macSession' = [macSession EXCEPT ![m] = i]
                /\ session' = [j \in DOMAIN session \cup {i} |->
                                 IF j # i THEN session[j]
                                 ELSE [mac |-> m, device |-> device, assigned |-> assigned, open |-> TRUE,
                                       tap |-> None, at |-> "stream", progress |-> None, messages |-> 0]]

\* The main loop: the device is learned at an access port.
ProcessPortLearn(p, m, vlan) ==
    /\ mainLoop = "running"
    /\ dpMac' = [dpMac EXCEPT ![p] = m]
    /\ deviceVlan' = [deviceVlan EXCEPT ![m] = vlan]
    /\ SessionReady(m, vlan, assignedVlan[m])
    /\ UNCHANGED <<assignedVlan, taps, vxlan, mainLoop>>

\* A flush of the faucetizer.
ProcessPortAssign(m, device, assigned) ==
    /\ deviceVlan' = [deviceVlan EXCEPT ![m] = device]
    /\ assignedVlan' = [assignedVlan EXCEPT ![m] = assigned]
    /\ SessionReady(m, device, assigned)
    /\ UNCHANGED <<dpMac, taps, vxlan, mainLoop>>

\* The main loop: an access port goes down; a port that comes up changes nothing.  If the
\* endpoint server fails the exception ends the loop.
ProcessPortDown(p) ==
    /\ mainLoop = "running"
    /\ dpMac[p] # None
    /\ \E cleaned \in BOOLEAN :
        /\ Disconnect(dpMac[p], cleaned)
        /\ cleaned \/ macTapPort[dpMac[p]] # macTapPort'[dpMac[p]]
        /\ mainLoop' = IF cleaned THEN mainLoop ELSE "ended"
    /\ UNCHANGED reports

\* The sequestering of the device has lasted too long (PortStateManager).
SequesteringTimeout(m) ==
    /\ \E cleaned \in BOOLEAN : Disconnect(m, cleaned)
    /\ UNCHANGED <<reports, mainLoop>>

-----------------------------------------------------------------------------
(* The thread of a session: _process_progress. *)

Go(i, place) == session' = [session EXCEPT ![i].at = place]

\* The stream is external.
Receive(i) ==
    /\ session[i].at = "stream"
    /\ session[i].open
    /\ session[i].messages < MaxMessages
    /\ \E progress \in Progress :
        session' = [session EXCEPT ![i].at = "handle", ![i].progress = progress, ![i].messages = @ + 1]
    /\ UNCHANGED <<reports, macSession, taps, vxlan, mainLoop>>

\* The stream ends, is cancelled or raises an error.
StreamEnds(i) ==
    /\ session[i].at = "stream"
    /\ Go(i, "disconnect")
    /\ UNCHANGED <<reports, macSession, taps, vxlan, mainLoop>>

\* _convert_and_handle: a result goes to the port state manager, which ends the stream by
\* the result of the test; an endpoint gets a tap port.
HandleResult(i) ==
    /\ session[i].at = "handle"
    /\ session[i].progress # "endpoint"
    /\ session' = [session EXCEPT ![i].at = IF Terminal(session[i].progress) THEN "disconnect" ELSE "stream",
                                  ![i].progress = None]
    /\ UNCHANGED <<reports, macSession, taps, vxlan, mainLoop>>

HandleEndpoint(i) ==
    /\ session[i].at = "handle"
    /\ session[i].progress = "endpoint"
    /\ AllocateTapPort(session[i].mac)
    /\ session' = [session EXCEPT ![i].at = "configure", ![i].progress = None, ![i].tap = macTapPort'[session[i].mac]]
    /\ UNCHANGED <<reports, macSession, vxlan, mainLoop>>

\* The call of the endpoint server, without a lock.  A tunnel that ends at the port already
\* is removed first; an error, of the call or of a command, ends the stream.
ConfigureInterface(i) ==
    /\ session[i].at = "configure"
    /\ LET port == session[i].tap
       IN  \/ /\ vxlan' = [p \in DOMAIN vxlan \cup {port} |-> IF p = port THEN session[i].mac ELSE vxlan[p]]
              /\ Go(i, "stream")
           \/ /\ vxlan' \in {vxlan, RemoveInterface(port)}
              /\ Go(i, "disconnect")
    /\ UNCHANGED <<reports, macSession, taps, mainLoop>>

\* Mutant: the thread frees the tap port of its device whoever's session it is, and cancels
\* no other session.
ThreadEndsAlone(i) ==
    /\ session[i].at = "disconnect"
    /\ session' = [j \in DOMAIN session \ {i} |-> session[j]]
    /\ macSession' = [macSession EXCEPT ![session[i].mac] = IF @ = i THEN None ELSE @]
    /\ \E cleaned \in BOOLEAN : FreeEndpoint(session[i].mac, cleaned)
    /\ UNCHANGED <<reports, mainLoop>>

\* The last thing the thread does, whichever session the device has by then.
ThreadEnds(i) ==
    /\ session[i].at = "disconnect"
    /\ LET m == session[i].mac
           current == macSession[m]
       IN  /\ session' = [j \in DOMAIN session \ {i} |->
                              IF j = current THEN [session[j] EXCEPT !.open = FALSE] ELSE session[j]]
           /\ macSession' = [macSession EXCEPT ![m] = None]
           /\ IF current = None THEN UNCHANGED <<taps, vxlan>>
              ELSE \E cleaned \in BOOLEAN : FreeEndpoint(m, cleaned)
    /\ UNCHANGED <<reports, mainLoop>>

-----------------------------------------------------------------------------
Thread(i) ==
    Receive(i) \/ StreamEnds(i) \/ HandleResult(i) \/ HandleEndpoint(i) \/ ConfigureInterface(i) \/ ThreadEnds(i)

Next ==
    \/ \E p \in Port, m \in Mac, vlan \in DeviceVlan : ProcessPortLearn(p, m, vlan)
    \/ \E m \in Mac, device \in DeviceVlan, assigned \in SegmentVlan : ProcessPortAssign(m, device, assigned)
    \/ \E p \in Port : ProcessPortDown(p)
    \/ \E m \in Mac : SequesteringTimeout(m)
    \/ \E i \in DOMAIN session : Thread(i)

Spec == Init /\ [][Next]_vars

-----------------------------------------------------------------------------
(* Properties. *)

\* The types of all variables.
TypeOK ==
    /\ dpMac \in [Port -> Mac \cup {None}]
    /\ deviceVlan \in [Mac -> DeviceVlan \cup {None}]
    /\ assignedVlan \in [Mac -> SegmentVlan \cup {None}]
    /\ DOMAIN session \subseteq Session
    /\ session \in [DOMAIN session ->
                       [mac : Mac, device : DeviceVlan, assigned : SegmentVlan, open : BOOLEAN, tap : Nat \cup {None},
                        at : {"stream", "handle", "configure", "disconnect"},
                        progress : Progress \cup {None}, messages : 0 .. MaxMessages]]
    /\ macSession \in [Mac -> DOMAIN session \cup {None}]
    /\ macTapPort \in [Mac -> Nat \cup {None}]
    /\ freedPorts \in SUBSET Nat
    /\ nextPort \in Nat
    /\ tapConfig \in SUBSET Nat
    /\ DOMAIN vxlan \in SUBSET Nat /\ \A p \in DOMAIN vxlan : vxlan[p] \in Mac
    /\ mainLoop \in {"running", "ended"}

\* No tap port is handed out twice or lost, however allocations and releases follow one
\* another, and there are never more than devices; the configuration file has just those
\* that are in use (_allocate_tap_port, free_endpoint).
TapPortsDistinct == \A m, n \in Mac : macTapPort[m] # None /\ macTapPort[m] = macTapPort[n] => m = n
TapPortsConserved ==
    /\ TapPortsDistinct
    /\ Allocated \cap freedPorts = {}
    /\ Allocated \cup freedPorts = BasePort .. nextPort - 1
    /\ tapConfig = Allocated
TapPortsBounded == nextPort <= BasePort + Cardinality(Mac)

\* The invariant of the tap ports: the types, and that ports are neither lost nor shared.
Inv == TypeOK /\ TapPortsConserved /\ TapPortsBounded

\* A device has at most one open session, and `disconnect` reaches it, although the thread
\* of every earlier session ends with a disconnect of its own (_process_progress).
OneOpenSession == \A i \in DOMAIN session : session[i].open => macSession[session[i].mac] = i

\* While a session is open nobody takes the tap port its tunnel was given
\* (process_endpoint, free_endpoint).
TapPortIsKept ==
    \A i \in DOMAIN session :
        session[i].open /\ session[i].tap # None => macTapPort[session[i].mac] = session[i].tap

\* Not promised by the code (README, section 4.2).
Busy(m) == \E i \in DOMAIN session : session[i].mac = m
NoTapPortWithoutSession == \A m \in Mac : macTapPort[m] # None => Busy(m)
TunnelIsOwn == \A p \in DOMAIN vxlan : \A m \in Mac : macTapPort[m] = p => vxlan[p] = m \/ Busy(m)
OnlyOwnSessionEnds ==
    [][\A i \in DOMAIN session : ThreadEnds(i) =>
        \A j \in DOMAIN session \ {i} : session'[j] = session[j]]_vars
SessionVlansAreCurrent ==
    \A i \in DOMAIN session : session[i].open =>
        session[i].device = deviceVlan[session[i].mac] /\ session[i].assigned = assignedVlan[session[i].mac]
MainLoopRuns == mainLoop = "running"

=============================================================================
