--------------------------- MODULE PortStateManager ---------------------------
(***************************************************************************)
(* The port state manager of forch/port_state_manager.py: one state       *)
(* machine per learned device, the static and dynamic behaviours          *)
(* (authorisations) kept for it, the sequester timers, and what the       *)
(* manager has told the device state manager (the faucetizer) about the   *)
(* device.                                                                 *)
(*                                                                         *)
(* A test result and a sequester timer do more than their transition,     *)
(* which takes the manager's lock: they look for the timer in the         *)
(* dictionary, cancel it and delete it without the lock, each in a step   *)
(* of its own.  Every other handler is one step here.  What the threads   *)
(* do to each other inside those is the subject of PortStateRaces.         *)
(***************************************************************************)
CONSTANTS
    Mac,                  \* the devices
    Port,                 \* the access ports (switch and port number)
    StaticSegment,        \* the segments that the behaviour file names
    DynamicSegment,       \* the segments that authentication results name
    SequesterSegment,     \* sequester_config.sequester_segment
    DefaultAutoSequester, \* sequester_config.auto_sequestering = enabled
    SequesterTimeout,     \* sequester_config.sequester_timeout_sec > 0
    TestResultState,      \* the sequestered row of the transition table
    Tester,               \* the threads that deliver test results
    Tested,               \* bound: the devices that get behaviours and test results
    None                  \* the key is not in the dictionary, or no device

State == {"unauthenticated", "sequestered", "operational", "infracted"}
ResultCode == {"PASSED", "FAILED"}
Segment == StaticSegment \cup DynamicSegment

\* A behaviour given to the device state manager (DeviceBehavior and its type).
Behavior == [segment : Segment \cup {SequesterSegment},
             assigned : Segment \cup {None}, static : BOOLEAN]

ASSUME NoneAssumption ==
    /\ None \notin Mac \cup Port \cup Segment \cup {SequesterSegment} \cup State
    /\ None \notin Behavior

\* test_result_device_states may redirect a result, but not back to sequestered.
ASSUME ConfigAssumption ==
    /\ DefaultAutoSequester \in BOOLEAN
    /\ SequesterTimeout \in BOOLEAN
    /\ Tested \subseteq Mac
    /\ TestResultState \in [ResultCode -> State \ {"sequestered"}]

(***************************************************************************)
(* device[m] collects what the manager's dictionaries hold for m:          *)
(*   state      _state_machines[m], None without a state machine           *)
(*   static     _static_device_behaviors[m]: the segment, or None          *)
(*   dynamic    _dynamic_device_behaviors[m]                               *)
(*   auto       _auto_sequester[m], the default if there is no entry       *)
(*   timer      _sequester_timer[m]: no entry, a timer that runs, or one   *)
(*              that was cancelled or is over                               *)
(*   orphan     a sequester timer of m runs that the dictionary has lost,  *)
(*              or is over and has not looked for its entry yet             *)
(*   found      a timer that is over has found an entry and will delete it *)
(*   failing    a timer that is over will fail the device                  *)
(*   scheduled  _scheduled_sequester_timer[m] is set                       *)
(*   applied    the last behaviour given to the device state manager       *)
(* and, for the properties only,                                           *)
(*   lost       a test result that came before this sequestering has taken *)
(*              its timer away                                              *)
(* The numbers of orphans and of timers that have found an entry or will   *)
(* fail the device are abstracted to "none" or "some": whether others are  *)
(* left when one goes on is a choice.                                       *)
(***************************************************************************)
VARIABLES
    device,
    placementToMac,    \* _placement_to_mac: the device at a port, or None
    dynamicPlacement,  \* the port the device state manager was told by learning
    tester             \* where each thread is in handle_testing_result, and for which device

placementVars == <<placementToMac, dynamicPlacement>>
vars == <<device, placementVars, tester>>

Device == [state : State \cup {None},
           static : Segment \cup {None}, dynamic : Segment \cup {None},
           auto : BOOLEAN, timer : {"none", "running", "over"}, orphan : BOOLEAN,
           found : BOOLEAN, failing : BOOLEAN, lost : BOOLEAN,
           scheduled : BOOLEAN, applied : Behavior \cup {None}]

\* A thread has nothing to do, has made the transition, has found a timer, or has
\* cancelled it.
Testing == [pc : {"idle", "look", "cancel", "delete"}, mac : Mac \cup {None}]
Idle == [pc |-> "idle", mac |-> None]

-----------------------------------------------------------------------------
(* The state machine: transitions and the callbacks of the states. *)

\* The segment a device is authorised for: a static behaviour comes first.
Authorized(d) == IF d.static # None THEN d.static ELSE d.dynamic

\* Mutant: the sequestered row has no entry for deauthenticated.
NextStateKeepsSequestered(state, event) ==
    CASE state = "unauthenticated" /\ event = "cleared"        -> "operational"
      [] state = "unauthenticated" /\ event = "sequestered"    -> "sequestered"
      [] state = "sequestered" /\ event \in ResultCode         -> TestResultState[event]
      [] state = "operational" /\ event = "cleared"            -> "operational"
      [] state = "operational" /\ event = "deauthenticated"    -> "unauthenticated"
      [] state = "operational" /\ event = "manual_sequestered" -> "sequestered"
      [] OTHER                                                 -> None

\* Mutant: a sequestered device is released by a repeated authentication.
NextStateClearsSequestered(state, event) ==
    CASE state \in {"unauthenticated", "sequestered", "operational"}
         /\ event = "cleared"                                 -> "operational"
      [] state = "unauthenticated" /\ event = "sequestered"    -> "sequestered"
      [] state = "sequestered" /\ event = "sequestered"        -> "operational"
      [] state \in {"sequestered", "operational"}
         /\ event = "deauthenticated"                         -> "unauthenticated"
      [] state = "sequestered" /\ event \in ResultCode         -> TestResultState[event]
      [] state = "operational" /\ event = "manual_sequestered" -> "sequestered"
      [] OTHER                                                 -> None

NextState(state, event) ==
    CASE state = "unauthenticated" /\ event = "cleared"        -> "operational"
      [] state = "unauthenticated" /\ event = "sequestered"    -> "sequestered"
      [] state = "sequestered" /\ event = "deauthenticated"    -> "unauthenticated"
      [] state = "sequestered" /\ event \in ResultCode         -> TestResultState[event]
      [] state = "operational" /\ event = "cleared"            -> "operational"
      [] state = "operational" /\ event = "deauthenticated"    -> "unauthenticated"
      [] state = "operational" /\ event = "manual_sequestered" -> "sequestered"
      [] OTHER                                                 -> None

\* Mutant: no timer is started while the dictionary has an entry.
SetPortSequesteredOnce(d) ==
    [d EXCEPT !.applied = [segment |-> SequesterSegment,
                           assigned |-> Authorized(d), static |-> FALSE],
              !.timer = IF SequesterTimeout /\ @ = "none" THEN "running" ELSE @,
              !.lost = FALSE]

\* _set_port_sequestered: starting a timer forgets, and does not cancel, the
\* one the dictionary holds.
SetPortSequestered(d) ==
    [d EXCEPT !.applied = [segment |-> SequesterSegment,
                           assigned |-> Authorized(d), static |-> FALSE],
              !.timer = IF SequesterTimeout THEN "running" ELSE @,
              !.orphan = @ \/ (d.timer = "running" /\ SequesterTimeout),
              !.lost = FALSE]

SetPortOperational(d) ==
    [d EXCEPT !.applied = [segment |-> Authorized(d), assigned |-> None,
                           static |-> d.static # None]]

HandleInfractedState(d) == [d EXCEPT !.applied = None]

\* _handle_current_state; the unauthenticated callback only reports the state.
HandleCurrentState(d) ==
    CASE d.state = "sequestered" -> SetPortSequestered(d)
      [] d.state = "operational" -> SetPortOperational(d)
      [] d.state = "infracted"   -> HandleInfractedState(d)
      [] OTHER                   -> d

Transition(d, event) ==
    IF NextState(d.state, event) = None THEN d
    ELSE HandleCurrentState([d EXCEPT !.state = NextState(d.state, event)])

-----------------------------------------------------------------------------
(* What the handlers do to one device. *)

Authenticate(d, segment, static) ==
    LET known == IF static THEN [d EXCEPT !.static = segment]
                           ELSE [d EXCEPT !.dynamic = segment]
    IN  Transition(known, IF d.auto THEN "sequestered" ELSE "cleared")

\* Mutant: an ignored deauthentication still clears the behaviour applied.
DeauthenticateAlwaysClears(d, static) ==
    LET known == IF static THEN [d EXCEPT !.static = None]
                           ELSE [d EXCEPT !.dynamic = None]
    IN  IF (~static /\ known.static # None) \/ d.state = None
        THEN [known EXCEPT !.applied = None]
        ELSE [Transition(known, "deauthenticated") EXCEPT !.applied = None]

\* Mutant: the state machine is told, the device state manager is not.
DeauthenticateKeepsApplied(d, static) ==
    LET known == IF static THEN [d EXCEPT !.static = None]
                           ELSE [d EXCEPT !.dynamic = None]
    IN  IF (~static /\ known.static # None) \/ d.state = None THEN known
        ELSE Transition(known, "deauthenticated")

\* The loss of a dynamic behaviour is ignored while there is a static one.
Deauthenticate(d, static) ==
    LET known == IF static THEN [d EXCEPT !.static = None]
                           ELSE [d EXCEPT !.dynamic = None]
    IN  IF (~static /\ known.static # None) \/ d.state = None THEN known
        ELSE [Transition(known, "deauthenticated") EXCEPT !.applied = None]

HandleBehavior(d, segment, static) ==
    IF segment # None THEN Authenticate(d, segment, static)
                      ELSE Deauthenticate(d, static)

\* A new state machine applies the behaviour known for the device, if any.
AddStateMachine(d) ==
    LET new == [d EXCEPT !.state = "unauthenticated"]
    IN  IF d.state # None THEN d
        ELSE IF Authorized(d) = None THEN new
        ELSE Authenticate(new, Authorized(d), d.static # None)

RemoveStateMachine(d) == [d EXCEPT !.state = None]

StaticBehavior(d, segment, auto, scheduled) ==
    LET flagged == [d EXCEPT !.auto = auto]
        handled == IF segment # None THEN HandleBehavior(flagged, segment, TRUE)
                                     ELSE flagged
    IN  [handled EXCEPT !.scheduled = scheduled]

\* What a terminal result does to the timer that the dictionary holds at that time: cancel,
\* which does nothing to one that is over, and del, of an entry that may be a newer one or
\* gone (KeyError).  A timer that has found the entry fails to delete it, and ends.
CancelTimer(d) ==
    IF d.timer = "running"
    THEN [d EXCEPT !.timer = "over", !.lost = @ \/ d.state = "sequestered"] ELSE d

DeleteTimer(d) ==
    [d EXCEPT !.timer = "none",
              !.orphan = @ \/ d.timer = "running",
              !.lost = @ \/ (d.state = "sequestered" /\ d.found /\ d.timer = "over")]

\* A timer is over, unless it was cancelled.
FireTimer(d) == [d EXCEPT !.timer = "over", !.orphan = TRUE]

\* Mutant: a timer that the dictionary does not have any more does not fail the device.
LookForTimerOrReturn(d, others) ==
    [d EXCEPT !.orphan = others, !.found = @ \/ d.timer # "none"]

\* _handle_sequestering_timeout: it looks for an entry,
LookForTimer(d, others) ==
    IF d.timer # "none" THEN [d EXCEPT !.orphan = others, !.found = TRUE]
                        ELSE [d EXCEPT !.orphan = others, !.failing = TRUE]

\* deletes it, which may be another, still running, timer, or fails to (KeyError),
DropTimer(d, others) ==
    IF d.timer = "none" THEN [d EXCEPT !.found = others]
    ELSE [d EXCEPT !.timer = "none", !.orphan = @ \/ d.timer = "running",
                   !.found = others, !.failing = TRUE]

\* and fails the device.
SequesteringTimeout(d, others) == Transition([d EXCEPT !.failing = others], "FAILED")

ScheduledSequestering(d) ==
    Transition([d EXCEPT !.scheduled = FALSE], "manual_sequestered")

-----------------------------------------------------------------------------
(* The handlers. *)

NewDevice == [state |-> None, static |-> None, dynamic |-> None,
              auto |-> DefaultAutoSequester, timer |-> "none", orphan |-> FALSE,
              found |-> FALSE, failing |-> FALSE, lost |-> FALSE,
              scheduled |-> FALSE, applied |-> None]

Init ==
    /\ device = [m \in Mac |-> NewDevice]
    /\ placementToMac = [p \in Port |-> None]
    /\ dynamicPlacement = [m \in Mac |-> None]
    /\ tester = [t \in Tester |-> Idle]

\* Mutant: the device known at p before is not disconnected.
HandleLearnedDeviceKeepsStale(m, p, static) ==
    /\ placementToMac' = [placementToMac EXCEPT ![p] = m]
    /\ dynamicPlacement' = IF static THEN dynamicPlacement
                           ELSE [dynamicPlacement EXCEPT ![m] = p]
    /\ device' = [device EXCEPT ![m] = AddStateMachine(@)]
    /\ UNCHANGED tester

\* A device is learned at p, or placed there by the static placement file, which the device
\* state manager is told apart; a different device known at p is disconnected first.
HandleLearnedDevice(m, p, static) ==
    LET stale == IF placementToMac[p] = m THEN None ELSE placementToMac[p]
        unplaced == [x \in Mac |-> IF x = stale THEN None ELSE dynamicPlacement[x]]
    IN  /\ placementToMac' = [placementToMac EXCEPT ![p] = m]
        /\ dynamicPlacement' = IF static THEN unplaced
                               ELSE [unplaced EXCEPT ![m] = p]
        /\ device' = [x \in Mac |->
                        CASE x = m     -> AddStateMachine(device[m])
                          [] x = stale -> RemoveStateMachine(device[x])
                          [] OTHER     -> device[x]]
        /\ UNCHANGED tester

\* A port goes down: whatever device it was last seen with is disconnected.
HandleDisconnectedDevice(p) ==
    LET m == placementToMac[p] IN
    /\ m # None
    /\ placementToMac' = [placementToMac EXCEPT ![p] = None]
    /\ dynamicPlacement' = [dynamicPlacement EXCEPT ![m] = None]
    /\ device' = [device EXCEPT ![m] = RemoveStateMachine(@)]
    /\ UNCHANGED tester

UpdateDevice(m, d) ==
    /\ device' = [device EXCEPT ![m] = d]
    /\ UNCHANGED <<placementVars, tester>>

\* An authentication result: a segment, or None when access is denied.
HandleDeviceBehavior(m, segment) ==
    UpdateDevice(m, HandleBehavior(device[m], segment, FALSE))

HandleStaticDeviceBehavior(m, segment, auto, scheduled) ==
    UpdateDevice(m, StaticBehavior(device[m], segment, auto, scheduled))

ClearStaticDeviceBehavior(m) ==
    /\ device[m].static # None
    /\ UpdateDevice(m, Deauthenticate(device[m], TRUE))

\* A terminal result: the transition, under the lock; then, in three steps without it, the
\* timer, as the thread finds it by then.
HandleTestingResult(t, m, code) ==
    /\ tester[t] = Idle
    /\ tester' = [tester EXCEPT ![t] = [pc |-> "look", mac |-> m]]
    /\ device' = [device EXCEPT ![m] = Transition(@, code)]
    /\ UNCHANGED placementVars

ResultLooksForTimer(t) ==
    /\ tester[t].pc = "look"
    /\ tester' = [tester EXCEPT ![t] = IF device[@.mac].timer = "none"
                                      THEN Idle ELSE [@ EXCEPT !.pc = "cancel"]]
    /\ UNCHANGED <<device, placementVars>>

ResultCancelsTimer(t) ==
    LET m == tester[t].mac IN
    /\ tester[t].pc = "cancel"
    /\ tester' = [tester EXCEPT ![t] = IF device[m].timer = "none"
                                      THEN Idle ELSE [@ EXCEPT !.pc = "delete"]]
    /\ device' = [device EXCEPT ![m] = CancelTimer(@)]
    /\ UNCHANGED placementVars

ResultDeletesTimer(t) ==
    LET m == tester[t].mac IN
    /\ tester[t].pc = "delete"
    /\ tester' = [tester EXCEPT ![t] = Idle]
    /\ device' = [device EXCEPT ![m] = DeleteTimer(@)]
    /\ UNCHANGED placementVars

\* A sequester timer, in four steps of which only the last takes the lock.
SequesterTimerFires(m) ==
    /\ device[m].timer = "running"
    /\ UpdateDevice(m, FireTimer(device[m]))

TimeoutLooksForTimer(m) ==
    /\ device[m].orphan
    /\ \E others \in BOOLEAN : UpdateDevice(m, LookForTimer(device[m], others))

TimeoutDropsTimer(m) ==
    /\ device[m].found
    /\ \E others \in BOOLEAN : UpdateDevice(m, DropTimer(device[m], others))

HandleSequesteringTimeout(m) ==
    /\ device[m].failing
    /\ \E others \in BOOLEAN : UpdateDevice(m, SequesteringTimeout(device[m], others))

HandleScheduledSequestering(m) ==
    /\ device[m].scheduled
    /\ UpdateDevice(m, ScheduledSequestering(device[m]))

Next ==
    \/ \E m \in Mac, p \in Port, static \in BOOLEAN : HandleLearnedDevice(m, p, static)
    \/ \E p \in Port : HandleDisconnectedDevice(p)
    \/ \E m \in Tested, segment \in DynamicSegment \cup {None} :
           HandleDeviceBehavior(m, segment)
    \/ \E m \in Tested, segment \in StaticSegment \cup {None}, auto, scheduled \in BOOLEAN :
           HandleStaticDeviceBehavior(m, segment, auto, scheduled)
    \/ \E m \in Mac : ClearStaticDeviceBehavior(m)
    \/ \E t \in Tester, m \in Tested, code \in ResultCode : HandleTestingResult(t, m, code)
    \/ \E t \in Tester : ResultLooksForTimer(t)
    \/ \E t \in Tester : ResultCancelsTimer(t)
    \/ \E t \in Tester : ResultDeletesTimer(t)
    \/ \E m \in Mac : SequesterTimerFires(m)
    \/ \E m \in Mac : TimeoutLooksForTimer(m)
    \/ \E m \in Mac : TimeoutDropsTimer(m)
    \/ \E m \in Mac : HandleSequesteringTimeout(m)
    \/ \E m \in Mac : HandleScheduledSequestering(m)

Spec == Init /\ [][Next]_vars

\* A threading.Timer that is not cancelled fires, and its thread goes on.  Only a device that
\* gets behaviours ever has one.
FairSpec ==
    /\ Spec
    /\ \A m \in Tested :
          /\ WF_vars(SequesterTimerFires(m))
          /\ WF_vars(TimeoutLooksForTimer(m))
          /\ WF_vars(TimeoutDropsTimer(m))
          /\ WF_vars(HandleSequesteringTimeout(m))

-----------------------------------------------------------------------------
(* Properties. *)

TypeOK ==
    /\ device \in [Mac -> Device]
    /\ placementToMac \in [Port -> Mac \cup {None}]
    /\ dynamicPlacement \in [Mac -> Port \cup {None}]
    /\ tester \in [Tester -> Testing]

\* A sequestered or operational device is authorised: what the assertion
\* "assert device_behavior" of _set_port_operational relies on, and the read of
\* operational_behavior.segment in _set_port_sequestered.
AuthorizedWhileServed ==
    \A m \in Mac : device[m].state \in {"sequestered", "operational"}
                   => Authorized(device[m]) # None

\* get_dva_state: what is shown of a port, with or without a VLAN for unauthenticated devices.
DvaState(p, unauthenticatedVlan) ==
    LET m == placementToMac[p] IN
    CASE m = None -> IF unauthenticatedVlan THEN "unauthenticated" ELSE "initial"
      [] m # None /\ device[m].state = None -> "initial"
      [] m # None /\ device[m].state = "operational" ->
             IF device[m].static # None THEN "static_operational" ELSE "dynamic_operational"
      [] OTHER -> device[m].state

\* The state of a device says what access it has: a sequestered one is confined
\* to the sequester segment, an operational one is out of it, an infracted one
\* has none.
AccessOfState ==
    \A m \in Mac : LET d == device[m] IN
        /\ d.state = "sequestered" =>
              d.applied # None /\ d.applied.segment = SequesterSegment
                              /\ d.applied.assigned # None
        /\ d.state = "operational" =>
              d.applied # None /\ d.applied.assigned = None
        /\ d.state = "infracted" => d.applied = None

\* So does what is shown of the port where a device was seen last (get_dva_state).
AccessIsShown ==
    \A p \in Port, vlan \in BOOLEAN :
        LET shown == DvaState(p, vlan)
            applied == device[placementToMac[p]].applied
        IN  /\ shown \in {"sequestered", "static_operational", "dynamic_operational"} =>
                  applied # None /\ (applied.assigned # None <=> shown = "sequestered")
            /\ shown = "infracted" => applied = None

\* Both: the access given to a device is that of its state, which its port shows.
AccessMatchesState == AccessOfState /\ AccessIsShown

\* A learned device that nothing authorises has no access: it is in the VLAN for
\* unauthenticated devices.
UnauthorizedHasNoAccess ==
    \A m \in Mac : device[m].state # None /\ Authorized(device[m]) = None
                   => device[m].applied = None

\* A timer will fail the device: the one that the dictionary holds, one that it has lost, or
\* one that is over and will get as far as that.
WillTimeOut(d) ==
    d.timer = "running" \/ d.orphan \/ d.failing \/ (d.found /\ d.timer = "over")

\* With a timeout configured a device is never sequestered without a timer that will fail
\* it, whatever timers of earlier sequesterings were forgotten, cancelled or deleted by each
\* other: but for one that a test result takes away which came before the device was
\* sequestered again (handle_testing_result, _handle_sequestering_timeout).
SequesteredIsTimed ==
    \A m \in Mac : SequesterTimeout /\ device[m].state = "sequestered"
                   => device[m].lost \/ WillTimeOut(device[m])

\* Not guaranteed: the same without that exception.
SequesteredIsAlwaysTimed ==
    \A m \in Mac : SequesterTimeout /\ device[m].state = "sequestered" => WillTimeOut(device[m])

\* A device with a state machine is known at some port, so that the port going
\* down disconnects it.
SessionIsPlaced ==
    \A m \in Mac : device[m].state # None => \E p \in Port : placementToMac[p] = m

\* The device state manager is told a port for a device only while the manager
\* holds that device for that port: no two devices are placed on one port.
PlacementAgrees ==
    \A m \in Mac : \A p \in Port :
        dynamicPlacement[m] = p => placementToMac[p] = m

\* Access is only handed out on a behaviour that stands after the step, the
\* static one first, or as sequestering for it.
GrantIsAuthorized ==
    [][\A m \in Mac : LET new == device[m]'.applied
                          segment == Authorized(device[m]') IN
           new # device[m].applied /\ new # None =>
               /\ segment # None
               /\ \/ new.segment = segment /\ new.assigned = None
                  \/ new.segment = SequesterSegment /\ new.assigned = segment]_vars

\* A learned device that loses its last behaviour loses its access in that step.
DeauthenticationRevokes ==
    [][\A m \in Mac :
           Authorized(device[m]) # None /\ Authorized(device[m]') = None
           /\ device[m].state # None => device[m]'.applied = None]_vars

\* A device that failed its tests gets nothing until it is disconnected, however
\* often it is authenticated, released or tested.
InfractedUntilDisconnected ==
    [][\A m \in Mac : device[m].state = "infracted" =>
           device[m]'.state \in {"infracted", None} /\ device[m]'.applied = None]_vars

\* While auto-sequestering is on for a device, nothing but the result of its
\* tests (or their timeout, if so configured) makes it operational.
AutoSequesterEnforced ==
    [][\A m \in Mac :
           device[m]'.state = "operational" /\ device[m].state # "operational"
           /\ device[m]'.auto =>
               \/ \E t \in Tester, code \in ResultCode : HandleTestingResult(t, m, code)
               \/ HandleSequesteringTimeout(m)]_vars

\* Both: access is given and withdrawn with the behaviours of the device, whatever comes
\* between (_set_port_operational, _handle_deauthenticated_device).
AccessFollowsAuthorization == GrantIsAuthorized /\ DeauthenticationRevokes

\* Both: no detour leads round the tests of a device (_transitions).
SequesteringIsRespected == InfractedUntilDisconnected /\ AutoSequesterEnforced

\* With a timeout configured no device stays sequestered for ever, though the testing
\* service may never answer, unless an earlier answer took its timer away.
SequesteringEnds ==
    SequesterTimeout => \A m \in Tested :
        device[m].state = "sequestered" ~> device[m].state # "sequestered" \/ device[m].lost

=============================================================================
