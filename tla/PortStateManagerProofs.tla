------------------------ MODULE PortStateManagerProofs ------------------------
(***************************************************************************)
(* What PortStateManager promises for any devices, ports, segments and    *)
(* test-result configuration.                                              *)
(* The last section is about the handlers at the grain of PortStateRaces,  *)
(* for any choice of its threads.                                          *)
(*                                                                         *)
(* The dictionaries of a device only change together, in the operators on *)
(* one record, so the invariant of the records is proved operator by      *)
(* operator (lemmas), and then lifted to the specification handler by     *)
(* handler.                                                                *)
(***************************************************************************)
EXTENDS PortStateManager, TLAPS

\* What has to hold of one device: the parts of the invariants of
\* PortStateManager that speak of it.
Served(d) == d.state \in {"sequestered", "operational"} => Authorized(d) # None

Access(d) ==
    /\ d.state = "sequestered" =>
          d.applied # None /\ d.applied.segment = SequesterSegment
                          /\ d.applied.assigned # None
    /\ d.state = "operational" =>
          d.applied # None /\ d.applied.assigned = None
    /\ d.state = "infracted" => d.applied = None

Timed(d) == SequesterTimeout /\ d.state = "sequestered" => d.lost \/ WillTimeOut(d)

DeviceInv(d) == d \in Device /\ Served(d) /\ Access(d) /\ Timed(d)

Inv == \A m \in Mac : DeviceInv(device[m])

-----------------------------------------------------------------------------
(* The operators on one device. *)

\* The callbacks establish what the state they are entered in promises.
LEMMA SequesteredEstablishes ==
    ASSUME NEW d \in Device, Served(d), d.state = "sequestered"
    PROVE  DeviceInv(SetPortSequestered(d))
<1>. DEFINE e == SetPortSequestered(d)
            b == [segment |-> SequesterSegment, assigned |-> Authorized(d),
                  static |-> FALSE]
<1>1. Authorized(d) \in Segment /\ Authorized(d) # None
  BY NoneAssumption DEF Authorized, Served, Device
<1>2. b \in Behavior
  BY <1>1 DEF Behavior
<1>3. /\ e.state = "sequestered" /\ e.static = d.static /\ e.dynamic = d.dynamic
      /\ e.applied = b
  BY DEF SetPortSequestered, Device
<1>4. e \in Device
  <2>. DEFINE orphan == d.orphan \/ (d.timer = "running" /\ SequesterTimeout)
             timer == IF SequesterTimeout THEN "running" ELSE d.timer
  <2>1. orphan \in BOOLEAN
    OBVIOUS
  <2>2. timer \in {"none", "running", "over"}
    BY DEF Device
  <2>3. e = [d EXCEPT !.applied = b, !.timer = timer, !.orphan = orphan, !.lost = FALSE]
    BY DEF SetPortSequestered
  <2>. HIDE DEF e, b, orphan, timer
  <2>. QED
    BY <1>2, <2>1, <2>2, <2>3 DEF Device
<1>5. Served(e)
  BY <1>1, <1>3 DEF Served, Authorized
<1>6. Access(e)
  <2>1. b # None
    BY <1>2, NoneAssumption
  <2>2. b.segment = SequesterSegment /\ b.assigned = Authorized(d)
    OBVIOUS
  <2>3. b.assigned # None
    BY <1>1, <2>2
  <2>. HIDE DEF b
  <2>. QED
    BY <1>3, <2>1, <2>2, <2>3 DEF Access
<1>7. Timed(e)
  <2>1. SUFFICES ASSUME SequesterTimeout PROVE e.timer = "running"
    BY DEF Timed, WillTimeOut
  <2>. QED
    BY <2>1 DEF SetPortSequestered, Device
<1>. QED
  BY <1>4, <1>5, <1>6, <1>7 DEF DeviceInv

\* ... or applies the behaviour the device is authorised for;
LEMMA OperationalEstablishes ==
    ASSUME NEW d \in Device, Served(d), d.state = "operational"
    PROVE  DeviceInv(SetPortOperational(d))
<1>. DEFINE e == SetPortOperational(d)
            b == [segment |-> Authorized(d), assigned |-> None,
                  static |-> d.static # None]
<1>1. Authorized(d) \in Segment /\ Authorized(d) # None
  BY NoneAssumption DEF Authorized, Served, Device
<1>2. b \in Behavior
  BY <1>1 DEF Behavior
<1>3. /\ e.state = "operational" /\ e.static = d.static /\ e.dynamic = d.dynamic
      /\ e.applied = b
  BY DEF SetPortOperational, Device
<1>4. e \in Device
  BY <1>2 DEF SetPortOperational, Device
<1>5. Served(e) /\ Timed(e)
  BY <1>1, <1>3 DEF Served, Timed, Authorized
<1>6. Access(e)
  <2>1. b # None /\ b.assigned = None
    BY <1>2, NoneAssumption
  <2>. HIDE DEF b
  <2>. QED
    BY <1>3, <2>1 DEF Access
<1>. QED
  BY <1>4, <1>5, <1>6 DEF DeviceInv

\* ... or takes everything away.
LEMMA InfractedEstablishes ==
    ASSUME NEW d \in Device, d.state = "infracted"
    PROVE  DeviceInv(HandleInfractedState(d))
<1>1. HandleInfractedState(d) \in Device
  BY DEF HandleInfractedState, Device
<1>2. HandleInfractedState(d).state = "infracted" /\ HandleInfractedState(d).applied = None
  BY DEF HandleInfractedState, Device
<1>. QED
  BY <1>1, <1>2 DEF DeviceInv, Served, Access, Timed

\* A state without promises has nothing to establish.
LEMMA IdleState ==
    ASSUME NEW d \in Device, d.state \in {"unauthenticated", None}
    PROVE  DeviceInv(d)
BY NoneAssumption DEF DeviceInv, Served, Access, Timed, State

LEMMA CallbackEstablishes ==
    ASSUME NEW d \in Device, Served(d)
    PROVE  DeviceInv(HandleCurrentState(d))
<1>1. CASE d.state = "sequestered"
  BY <1>1, SequesteredEstablishes DEF HandleCurrentState
<1>2. CASE d.state = "operational"
  BY <1>2, OperationalEstablishes DEF HandleCurrentState
<1>3. CASE d.state = "infracted"
  BY <1>3, InfractedEstablishes DEF HandleCurrentState
<1>4. CASE d.state \in {"unauthenticated", None}
  BY <1>4, IdleState, NoneAssumption DEF HandleCurrentState, State
<1>. QED
  BY <1>1, <1>2, <1>3, <1>4 DEF Device, State

LEMMA NextStateType ==
    ASSUME NEW state, NEW event
    PROVE  NextState(state, event) \in State \cup {None}
BY ConfigAssumption DEF NextState, State, ResultCode

\* A state that serves the device is only entered from one that does, unless
\* an authentication brings the device there.
LEMMA NextStateServed ==
    ASSUME NEW state, NEW event,
           event \notin {"cleared", "sequestered"},
           NextState(state, event) \in {"sequestered", "operational"}
    PROVE  state \in {"sequestered", "operational"}
BY NoneAssumption DEF NextState, State

LEMMA TransitionInv ==
    ASSUME NEW d, DeviceInv(d), NEW event,
           Authorized(d) # None \/ event \notin {"cleared", "sequestered"}
    PROVE  DeviceInv(Transition(d, event))
<1>. DEFINE next == NextState(d.state, event)
            x == [d EXCEPT !.state = next]
<1>1. CASE next = None
  BY <1>1 DEF Transition
<1>2. CASE next # None
  <2>1. next \in State
    BY <1>2, NextStateType
  <2>2. d \in Device /\ Served(d)
    BY DEF DeviceInv
  <2>3. x \in Device /\ x.state = next /\ Authorized(x) = Authorized(d)
    BY <2>1, <2>2 DEF Device, Authorized
  <2>4. Served(x)
    BY <2>2, <2>3, NextStateServed DEF Served
  <2>. QED
    BY <1>2, <2>3, <2>4, CallbackEstablishes DEF Transition
<1>. QED
  BY <1>1, <1>2

LEMMA DeauthenticatedState ==
    ASSUME NEW state \in State
    PROVE  \/ NextState(state, "deauthenticated") = "unauthenticated"
           \/ /\ state \in {"unauthenticated", "infracted"}
              /\ NextState(state, "deauthenticated") = None
BY DEF NextState, State, ResultCode

LEMMA AuthenticateInv ==
    ASSUME NEW d, DeviceInv(d), NEW segment \in Segment, NEW static \in BOOLEAN
    PROVE  DeviceInv(Authenticate(d, segment, static))
<1>. DEFINE known == IF static THEN [d EXCEPT !.static = segment]
                               ELSE [d EXCEPT !.dynamic = segment]
<1>1. known \in Device
  BY DEF DeviceInv, Device
<1>2. Authorized(known) # None
  BY NoneAssumption DEF DeviceInv, Device, Authorized
<1>3. /\ known.state = d.state /\ known.applied = d.applied
      /\ known.timer = d.timer /\ known.orphan = d.orphan /\ known.found = d.found
      /\ known.failing = d.failing /\ known.lost = d.lost /\ known.auto = d.auto
  BY DEF DeviceInv, Device
<1>4. DeviceInv(known)
  BY <1>1, <1>2, <1>3 DEF DeviceInv, Served, Access, Timed, WillTimeOut
<1>. HIDE DEF known
<1>5. DeviceInv(Transition(known, IF d.auto THEN "sequestered" ELSE "cleared"))
  BY <1>2, <1>4, TransitionInv
<1>. QED
  BY <1>5 DEF Authenticate, known

LEMMA DeauthenticateInv ==
    ASSUME NEW d, DeviceInv(d), NEW static \in BOOLEAN
    PROVE  DeviceInv(Deauthenticate(d, static))
<1>. DEFINE known == IF static THEN [d EXCEPT !.static = None]
                               ELSE [d EXCEPT !.dynamic = None]
            told == Transition(known, "deauthenticated")
<1>1. known \in Device
  BY DEF DeviceInv, Device
<1>2. /\ known.state = d.state /\ known.applied = d.applied
      /\ known.timer = d.timer /\ known.orphan = d.orphan /\ known.found = d.found
      /\ known.failing = d.failing /\ known.lost = d.lost
      /\ ~static => known.static = d.static
  BY DEF DeviceInv, Device
<1>3. CASE ~static /\ known.static # None
  <2>1. Authorized(known) # None
    BY <1>3 DEF Authorized
  <2>2. DeviceInv(known)
    BY <1>1, <1>2, <2>1 DEF DeviceInv, Served, Access, Timed, WillTimeOut
  <2>. QED
    BY <1>3, <2>2 DEF Deauthenticate
<1>4. CASE d.state = None
  <2>1. DeviceInv(known)
    BY <1>1, <1>2, <1>4, IdleState
  <2>. QED
    BY <1>4, <2>1 DEF Deauthenticate
<1>5. CASE ~(~static /\ known.static # None) /\ d.state # None
  <2>1. Deauthenticate(d, static) = [told EXCEPT !.applied = None]
    BY <1>5 DEF Deauthenticate
  <2>2. told \in Device /\ told.state \in {"unauthenticated", "infracted"}
    <3>1. d.state \in State
      BY <1>5 DEF DeviceInv, Device
    <3>2. CASE NextState(d.state, "deauthenticated") = "unauthenticated"
      <4>1. told = [known EXCEPT !.state = "unauthenticated"]
        BY <1>1, <1>2, <3>2, NoneAssumption
        DEF Transition, HandleCurrentState, Device, State
      <4>. HIDE DEF known
      <4>. QED
        BY <4>1, <1>1 DEF Device, State
    <3>3. CASE /\ d.state \in {"unauthenticated", "infracted"}
               /\ NextState(d.state, "deauthenticated") = None
      BY <1>1, <1>2, <3>3 DEF Transition
    <3>. QED
      BY <3>1, <3>2, <3>3, DeauthenticatedState
  <2>. HIDE DEF told
  <2>3. [told EXCEPT !.applied = None] \in Device
        /\ [told EXCEPT !.applied = None].state = told.state
        /\ [told EXCEPT !.applied = None].applied = None
    BY <2>2 DEF Device
  <2>. QED
    BY <2>1, <2>2, <2>3 DEF DeviceInv, Served, Access, Timed
<1>. QED
  BY <1>2, <1>3, <1>4, <1>5

LEMMA HandleBehaviorInv ==
    ASSUME NEW d, DeviceInv(d), NEW segment \in Segment \cup {None}, NEW static \in BOOLEAN
    PROVE  DeviceInv(HandleBehavior(d, segment, static))
BY AuthenticateInv, DeauthenticateInv DEF HandleBehavior

LEMMA AddStateMachineInv ==
    ASSUME NEW d, DeviceInv(d)
    PROVE  DeviceInv(AddStateMachine(d))
<1>. DEFINE new == [d EXCEPT !.state = "unauthenticated"]
<1>1. DeviceInv(new)
  <2>1. new \in Device /\ new.state = "unauthenticated"
    BY DEF DeviceInv, Device, State
  <2>. QED
    BY <2>1, IdleState
<1>2. CASE Authorized(d) # None
  <2>1. Authorized(d) \in Segment /\ (d.static # None) \in BOOLEAN
    BY <1>2 DEF DeviceInv, Device, Authorized
  <2>2. DeviceInv(Authenticate(new, Authorized(d), d.static # None))
    BY <1>1, <2>1, AuthenticateInv
  <2>. QED
    BY <1>2, <2>2 DEF AddStateMachine
<1>3. CASE Authorized(d) = None
  BY <1>1, <1>3 DEF AddStateMachine
<1>. QED
  BY <1>2, <1>3

LEMMA RemoveStateMachineInv ==
    ASSUME NEW d, DeviceInv(d)
    PROVE  DeviceInv(RemoveStateMachine(d))
<1>1. RemoveStateMachine(d) \in Device /\ RemoveStateMachine(d).state = None
  BY DEF RemoveStateMachine, DeviceInv, Device
<1>. QED
  BY <1>1, IdleState

\* A change of what DeviceInv does not speak of.
LEMMA OtherFields ==
    ASSUME NEW d, DeviceInv(d), NEW e \in Device,
           e.state = d.state, e.static = d.static, e.dynamic = d.dynamic,
           e.applied = d.applied, e.timer = d.timer, e.orphan = d.orphan,
           e.found = d.found, e.failing = d.failing, e.lost = d.lost
    PROVE  DeviceInv(e)
BY DEF DeviceInv, Served, Access, Timed, WillTimeOut, Authorized

LEMMA StaticBehaviorInv ==
    ASSUME NEW d, DeviceInv(d), NEW segment \in Segment \cup {None},
           NEW auto \in BOOLEAN, NEW scheduled \in BOOLEAN
    PROVE  DeviceInv(StaticBehavior(d, segment, auto, scheduled))
<1>. DEFINE flagged == [d EXCEPT !.auto = auto]
            handled == IF segment # None THEN HandleBehavior(flagged, segment, TRUE)
                                         ELSE flagged
<1>1. DeviceInv(flagged)
  <2>1. /\ flagged \in Device
        /\ flagged.state = d.state /\ flagged.static = d.static
        /\ flagged.dynamic = d.dynamic /\ flagged.applied = d.applied
        /\ flagged.timer = d.timer /\ flagged.orphan = d.orphan /\ flagged.found = d.found
        /\ flagged.failing = d.failing /\ flagged.lost = d.lost
    BY DEF DeviceInv, Device
  <2>. QED
    BY <2>1, OtherFields
<1>2. DeviceInv(handled)
  BY <1>1, HandleBehaviorInv
<1>. HIDE DEF handled
<1>3. DeviceInv([handled EXCEPT !.scheduled = scheduled])
  <2>. DEFINE e == [handled EXCEPT !.scheduled = scheduled]
  <2>1. /\ e \in Device
        /\ e.state = handled.state /\ e.static = handled.static
        /\ e.dynamic = handled.dynamic /\ e.applied = handled.applied
        /\ e.timer = handled.timer /\ e.orphan = handled.orphan /\ e.found = handled.found
        /\ e.failing = handled.failing /\ e.lost = handled.lost
    BY <1>2 DEF DeviceInv, Device
  <2>. QED
    BY <1>2, <2>1, OtherFields
<1>. QED
  BY <1>3 DEF StaticBehavior, handled

\* A result, or a timeout, ends the sequestering that it finds.
LEMMA ResultState ==
    ASSUME NEW state \in State \cup {None}, NEW code \in ResultCode
    PROVE  IF state = "sequestered"
           THEN NextState(state, code) \in State \ {"sequestered"}
           ELSE NextState(state, code) = None
BY NoneAssumption, ConfigAssumption DEF NextState, State, ResultCode

LEMMA CallbackKeepsState ==
    ASSUME NEW d \in Device
    PROVE  HandleCurrentState(d).state = d.state
BY DEF HandleCurrentState, SetPortSequestered, SetPortOperational,
       HandleInfractedState, Device

LEMMA ResultInv ==
    ASSUME NEW d \in Device, Served(d), Access(d), NEW code \in ResultCode
    PROVE  DeviceInv(Transition(d, code)) /\ Transition(d, code).state # "sequestered"
<1>. DEFINE next == NextState(d.state, code)
            x == [d EXCEPT !.state = next]
<1>0. d.state \in State \cup {None}
  BY DEF Device
<1>1. CASE d.state = "sequestered"
  <2>1. next \in State \ {"sequestered"} /\ next # None
    BY <1>0, <1>1, ResultState, NoneAssumption
  <2>2. x \in Device /\ x.state = next /\ Authorized(x) = Authorized(d)
    BY <2>1 DEF Device, Authorized
  <2>3. Served(x)
    BY <1>1, <2>2 DEF Served
  <2>4. Transition(d, code) = HandleCurrentState(x)
    BY <2>1 DEF Transition
  <2>. QED
    BY <2>1, <2>2, <2>3, <2>4, CallbackEstablishes, CallbackKeepsState
<1>2. CASE d.state # "sequestered"
  <2>1. Transition(d, code) = d
    BY <1>0, <1>2, ResultState DEF Transition
  <2>. QED
    BY <1>2, <2>1 DEF DeviceInv, Timed
<1>. QED
  BY <1>1, <1>2

\* The steps that only concern the timers of a device.
TimerStep(d, e) ==
    \/ e = CancelTimer(d)
    \/ e = DeleteTimer(d)
    \/ e = FireTimer(d)
    \/ \E others \in BOOLEAN : d.orphan /\ e = LookForTimer(d, others)
    \/ \E others \in BOOLEAN : d.found /\ e = DropTimer(d, others)

LEMMA TimerStepFields ==
    ASSUME NEW d \in Device, NEW e, TimerStep(d, e)
    PROVE  /\ e \in Device
           /\ e.state = d.state /\ e.static = d.static /\ e.dynamic = d.dynamic
           /\ e.applied = d.applied /\ e.auto = d.auto
<1>1. CASE e = CancelTimer(d) \/ e = DeleteTimer(d) \/ e = FireTimer(d)
  BY <1>1 DEF CancelTimer, DeleteTimer, FireTimer, Device
<1>2. ASSUME NEW others \in BOOLEAN, e = LookForTimer(d, others)
      PROVE  /\ e \in Device
             /\ e.state = d.state /\ e.static = d.static /\ e.dynamic = d.dynamic
             /\ e.applied = d.applied /\ e.auto = d.auto
  BY <1>2 DEF LookForTimer, Device
<1>3. ASSUME NEW others \in BOOLEAN, e = DropTimer(d, others)
      PROVE  /\ e \in Device
             /\ e.state = d.state /\ e.static = d.static /\ e.dynamic = d.dynamic
             /\ e.applied = d.applied /\ e.auto = d.auto
  <2>1. CASE d.timer = "none"
    BY <1>3, <2>1 DEF DropTimer, Device
  <2>2. CASE d.timer # "none"
    <3>1. (d.orphan \/ d.timer = "running") \in BOOLEAN
      OBVIOUS
    <3>. QED
      BY <1>3, <2>2, <3>1 DEF DropTimer, Device
  <2>. QED
    BY <2>1, <2>2
<1>. QED
  BY <1>1, <1>2, <1>3 DEF TimerStep

\* Whatever a thread takes away, it or another timer fails the device, or the device has
\* lost its timer to a result.
LEMMA TimerStepTimed ==
    ASSUME NEW d \in Device, Timed(d), NEW e, TimerStep(d, e)
    PROVE  Timed(e)
<1>. SUFFICES ASSUME SequesterTimeout, d.state = "sequestered", d.lost \/ WillTimeOut(d)
              PROVE  e.lost \/ WillTimeOut(e)
  BY TimerStepFields DEF Timed
<1>1. CASE e = CancelTimer(d)
  BY <1>1 DEF CancelTimer, WillTimeOut, Device
<1>2. CASE e = DeleteTimer(d)
  BY <1>2 DEF DeleteTimer, WillTimeOut, Device
<1>3. CASE e = FireTimer(d)
  BY <1>3 DEF FireTimer, WillTimeOut, Device
<1>4. ASSUME NEW others \in BOOLEAN, e = LookForTimer(d, others)
      PROVE  e.lost \/ WillTimeOut(e)
  BY <1>4 DEF LookForTimer, WillTimeOut, Device
<1>5. ASSUME NEW others \in BOOLEAN, e = DropTimer(d, others)
      PROVE  e.lost \/ WillTimeOut(e)
  BY <1>5 DEF DropTimer, WillTimeOut, Device
<1>. QED
  BY <1>1, <1>2, <1>3, <1>4, <1>5 DEF TimerStep

LEMMA TimerStepInv ==
    ASSUME NEW d, DeviceInv(d), NEW e, TimerStep(d, e)
    PROVE  DeviceInv(e)
BY TimerStepFields, TimerStepTimed DEF DeviceInv, Served, Access, Authorized

LEMMA SequesteringTimeoutInv ==
    ASSUME NEW d, DeviceInv(d), NEW others \in BOOLEAN
    PROVE  DeviceInv(SequesteringTimeout(d, others))
<1>. DEFINE e == [d EXCEPT !.failing = others]
<1>1. /\ e \in Device
      /\ e.state = d.state /\ e.static = d.static /\ e.dynamic = d.dynamic
      /\ e.applied = d.applied
  BY DEF DeviceInv, Device
<1>2. Served(e) /\ Access(e)
  BY <1>1 DEF DeviceInv, Served, Access, Authorized
<1>3. DeviceInv(Transition(e, "FAILED"))
  BY <1>1, <1>2, ResultInv DEF ResultCode
<1>. QED
  BY <1>3 DEF SequesteringTimeout

LEMMA ScheduledSequesteringInv ==
    ASSUME NEW d, DeviceInv(d)
    PROVE  DeviceInv(ScheduledSequestering(d))
<1>. DEFINE e == [d EXCEPT !.scheduled = FALSE]
<1>1. /\ e \in Device
      /\ e.state = d.state /\ e.static = d.static /\ e.dynamic = d.dynamic
      /\ e.applied = d.applied /\ e.timer = d.timer /\ e.orphan = d.orphan
      /\ e.found = d.found /\ e.failing = d.failing /\ e.lost = d.lost
  BY DEF DeviceInv, Device
<1>2. DeviceInv(e)
  BY <1>1, OtherFields
<1>3. DeviceInv(Transition(e, "manual_sequestered"))
  BY <1>2, TransitionInv
<1>. QED
  BY <1>3 DEF ScheduledSequestering

-----------------------------------------------------------------------------
(* The specification. *)

\* The handlers of one device replace its record by one with the invariant.
LEMMA UpdateKeepsInv ==
    ASSUME Inv, device \in [Mac -> Device], NEW m \in Mac, NEW d, DeviceInv(d),
           device' = [device EXCEPT ![m] = d]
    PROVE  Inv'
BY DEF Inv

LEMMA InitInv == Init => Inv /\ device \in [Mac -> Device]
<1>1. NewDevice \in Device /\ NewDevice.state = None
  BY NoneAssumption, ConfigAssumption DEF NewDevice, Device
<1>2. DeviceInv(NewDevice)
  BY <1>1, IdleState
<1>. QED
  BY <1>1, <1>2 DEF Init, Inv

\* A thread of a test result or of a timer that is over goes on.
TimersTurn ==
    \/ \E t \in Tester :
          ResultLooksForTimer(t) \/ ResultCancelsTimer(t) \/ ResultDeletesTimer(t)
    \/ \E m \in Mac :
          SequesterTimerFires(m) \/ TimeoutLooksForTimer(m) \/ TimeoutDropsTimer(m)

LEMMA TimersStep ==
    ASSUME device \in [Mac -> Device], TimersTurn
    PROVE  /\ UNCHANGED placementVars
           /\ \/ device' = device
              \/ \E m \in Mac : \E e : TimerStep(device[m], e) /\ device' = [device EXCEPT ![m] = e]
<1>1. ASSUME NEW t \in Tester, ResultLooksForTimer(t)
      PROVE  UNCHANGED placementVars /\ device' = device
  BY <1>1 DEF ResultLooksForTimer
<1>2. ASSUME NEW t \in Tester, NEW e, NEW m, UNCHANGED placementVars,
             device' = [device EXCEPT ![m] = e], TimerStep(device[m], e)
      PROVE  /\ UNCHANGED placementVars
             /\ \/ device' = device
                \/ \E x \in Mac : \E f : TimerStep(device[x], f) /\ device' = [device EXCEPT ![x] = f]
  <2>1. CASE m \notin Mac
    BY <1>2, <2>1
  <2>. QED
    BY <1>2, <2>1
<1>3. ASSUME NEW t \in Tester, ResultCancelsTimer(t)
      PROVE  \E m, e : /\ UNCHANGED placementVars /\ device' = [device EXCEPT ![m] = e]
                       /\ TimerStep(device[m], e)
  BY <1>3 DEF ResultCancelsTimer, TimerStep
<1>4. ASSUME NEW t \in Tester, ResultDeletesTimer(t)
      PROVE  \E m, e : /\ UNCHANGED placementVars /\ device' = [device EXCEPT ![m] = e]
                       /\ TimerStep(device[m], e)
  BY <1>4 DEF ResultDeletesTimer, TimerStep
<1>5. ASSUME NEW m \in Mac, SequesterTimerFires(m) \/ TimeoutLooksForTimer(m) \/ TimeoutDropsTimer(m)
      PROVE  /\ UNCHANGED placementVars
             /\ \E e : TimerStep(device[m], e) /\ device' = [device EXCEPT ![m] = e]
  <2>1. CASE SequesterTimerFires(m)
    BY <2>1 DEF SequesterTimerFires, UpdateDevice, TimerStep
  <2>2. CASE TimeoutLooksForTimer(m)
    BY <2>2 DEF TimeoutLooksForTimer, UpdateDevice, TimerStep
  <2>3. CASE TimeoutDropsTimer(m)
    BY <2>3 DEF TimeoutDropsTimer, UpdateDevice, TimerStep
  <2>. QED
    BY <1>5, <2>1, <2>2, <2>3
<1>. QED
  BY <1>1, <1>2, <1>3, <1>4, <1>5 DEF TimersTurn

\* The steps of the specification, those of the timers taken together and the bounds on
\* behaviours and results left out.
LEMMA NextSteps ==
    ASSUME [Next]_vars
    PROVE  \/ \E m \in Mac, p \in Port, static \in BOOLEAN : HandleLearnedDevice(m, p, static)
           \/ \E p \in Port : HandleDisconnectedDevice(p)
           \/ \E m \in Mac, segment \in Segment \cup {None} : HandleDeviceBehavior(m, segment)
           \/ \E m \in Mac, segment \in Segment \cup {None}, auto, scheduled \in BOOLEAN :
                 HandleStaticDeviceBehavior(m, segment, auto, scheduled)
           \/ \E m \in Mac : ClearStaticDeviceBehavior(m)
           \/ \E m \in Mac, t \in Tester, code \in ResultCode : HandleTestingResult(t, m, code)
           \/ TimersTurn
           \/ \E m \in Mac : HandleSequesteringTimeout(m)
           \/ \E m \in Mac : HandleScheduledSequestering(m)
           \/ UNCHANGED vars
<1>1. Tested \subseteq Mac /\ StaticSegment \subseteq Segment /\ DynamicSegment \subseteq Segment
  BY ConfigAssumption DEF Segment
<1>2. CASE \E m \in Tested, segment \in DynamicSegment \cup {None} : HandleDeviceBehavior(m, segment)
  BY <1>1, <1>2
<1>3. CASE \E m \in Tested, segment \in StaticSegment \cup {None}, auto, scheduled \in BOOLEAN :
               HandleStaticDeviceBehavior(m, segment, auto, scheduled)
  BY <1>1, <1>3
<1>4. CASE \E t \in Tester, m \in Tested, code \in ResultCode : HandleTestingResult(t, m, code)
  BY <1>1, <1>4
<1>. QED
  BY <1>2, <1>3, <1>4 DEF Next, TimersTurn

LEMMA NextInv ==
    ASSUME Inv, device \in [Mac -> Device], [Next]_vars
    PROVE  Inv' /\ (device \in [Mac -> Device])'
<1>0. \A m \in Mac : DeviceInv(device[m])
  BY DEF Inv
<1>1. ASSUME NEW m \in Mac, NEW p \in Port, NEW static \in BOOLEAN,
             HandleLearnedDevice(m, p, static)
      PROVE  Inv' /\ (device \in [Mac -> Device])'
  <2>. DEFINE stale == IF placementToMac[p] = m THEN None ELSE placementToMac[p]
              new(x) == CASE x = m     -> AddStateMachine(device[m])
                          [] x = stale -> RemoveStateMachine(device[x])
                          [] OTHER     -> device[x]
  <2>1. device' = [x \in Mac |-> new(x)]
    BY <1>1 DEF HandleLearnedDevice
  <2>2. \A x \in Mac : DeviceInv(new(x))
    BY <1>0, AddStateMachineInv, RemoveStateMachineInv
  <2>. HIDE DEF new
  <2>. QED
    BY <2>1, <2>2 DEF Inv, DeviceInv
<1>2. ASSUME NEW p \in Port, HandleDisconnectedDevice(p)
      PROVE  Inv' /\ (device \in [Mac -> Device])'
  <2>1. PICK m : m = placementToMac[p]
    OBVIOUS
  <2>2. device' = [device EXCEPT ![m] = RemoveStateMachine(device[m])]
    BY <1>2, <2>1 DEF HandleDisconnectedDevice
  <2>3. CASE m \in Mac
    <3>1. DeviceInv(RemoveStateMachine(device[m]))
      BY <1>0, <2>3, RemoveStateMachineInv
    <3>. QED
      BY <2>2, <2>3, <3>1 DEF Inv, DeviceInv
  <2>4. CASE m \notin Mac
    BY <1>0, <2>2, <2>4 DEF Inv
  <2>. QED
    BY <2>3, <2>4
<1>3. ASSUME NEW m \in Mac, NEW d, DeviceInv(d), UpdateDevice(m, d)
      PROVE  Inv' /\ (device \in [Mac -> Device])'
  BY <1>3 DEF UpdateDevice, Inv, DeviceInv
<1>4. ASSUME NEW m \in Mac, NEW segment \in Segment \cup {None},
             HandleDeviceBehavior(m, segment)
      PROVE  Inv' /\ (device \in [Mac -> Device])'
  BY <1>0, <1>3, <1>4, HandleBehaviorInv DEF HandleDeviceBehavior
<1>5. ASSUME NEW m \in Mac, NEW segment \in Segment \cup {None},
             NEW auto \in BOOLEAN, NEW scheduled \in BOOLEAN,
             HandleStaticDeviceBehavior(m, segment, auto, scheduled)
      PROVE  Inv' /\ (device \in [Mac -> Device])'
  BY <1>0, <1>3, <1>5, StaticBehaviorInv DEF HandleStaticDeviceBehavior
<1>6. ASSUME NEW m \in Mac, ClearStaticDeviceBehavior(m)
      PROVE  Inv' /\ (device \in [Mac -> Device])'
  BY <1>0, <1>3, <1>6, DeauthenticateInv DEF ClearStaticDeviceBehavior
<1>7. ASSUME NEW m \in Mac, NEW t \in Tester, NEW code \in ResultCode, HandleTestingResult(t, m, code)
      PROVE  Inv' /\ (device \in [Mac -> Device])'
  <2>1. DeviceInv(Transition(device[m], code))
    BY <1>0, ResultInv DEF DeviceInv
  <2>. QED
    BY <1>0, <1>7, <2>1 DEF HandleTestingResult, Inv, DeviceInv
<1>8. ASSUME TimersTurn
      PROVE  Inv' /\ (device \in [Mac -> Device])'
  <2>1. CASE device' = device
    BY <2>1 DEF Inv
  <2>2. ASSUME NEW m \in Mac, NEW e, TimerStep(device[m], e), device' = [device EXCEPT ![m] = e]
        PROVE  Inv' /\ (device \in [Mac -> Device])'
    <3>1. DeviceInv(e)
      BY <1>0, <2>2, TimerStepInv
    <3>. QED
      BY <2>2, <3>1 DEF Inv, DeviceInv
  <2>. QED
    BY <1>8, <2>1, <2>2, TimersStep
<1>11. ASSUME NEW m \in Mac, HandleSequesteringTimeout(m)
       PROVE  Inv' /\ (device \in [Mac -> Device])'
  <2>1. PICK others \in BOOLEAN : UpdateDevice(m, SequesteringTimeout(device[m], others))
    BY <1>11 DEF HandleSequesteringTimeout
  <2>. QED
    BY <1>0, <1>3, <2>1, SequesteringTimeoutInv
<1>9. ASSUME NEW m \in Mac, HandleScheduledSequestering(m)
      PROVE  Inv' /\ (device \in [Mac -> Device])'
  BY <1>0, <1>3, <1>9, ScheduledSequesteringInv DEF HandleScheduledSequestering
<1>10. CASE UNCHANGED vars
  BY <1>10 DEF vars, Inv
<1>. QED
  BY <1>1, <1>2, <1>4, <1>5, <1>6, <1>7, <1>8, <1>9, <1>10, <1>11, NextSteps

DevicesOK == Inv /\ device \in [Mac -> Device]

LEMMA DevicesCorrect == Spec => []DevicesOK
<1>1. Init => DevicesOK
  BY InitInv DEF DevicesOK
<1>2. DevicesOK /\ [Next]_vars => DevicesOK'
  BY NextInv DEF DevicesOK
<1>. QED
  BY <1>1, <1>2, PTL DEF Spec

\* Every dictionary of the manager, and what it has told the device state
\* manager, holds values of its type.
THEOREM TypeCorrect == Spec => []TypeOK
<1>1. Init => TypeOK
  BY InitInv DEF Init, TypeOK, Testing, Idle
<1>2. TypeOK /\ DevicesOK' /\ [Next]_vars => TypeOK'
  <2>. SUFFICES ASSUME TypeOK, DevicesOK', [Next]_vars
                PROVE  TypeOK'
    OBVIOUS
  <2>1. ASSUME NEW m \in Mac, NEW p \in Port, NEW static \in BOOLEAN,
               HandleLearnedDevice(m, p, static)
        PROVE  TypeOK'
    <3>. DEFINE stale == IF placementToMac[p] = m THEN None ELSE placementToMac[p]
                unplaced == [x \in Mac |-> IF x = stale THEN None ELSE dynamicPlacement[x]]
    <3>1. unplaced \in [Mac -> Port \cup {None}]
      BY DEF TypeOK
    <3>. HIDE DEF unplaced
    <3>2. dynamicPlacement' \in {unplaced, [unplaced EXCEPT ![m] = p]}
      BY <2>1 DEF HandleLearnedDevice, unplaced
    <3>3. dynamicPlacement' \in [Mac -> Port \cup {None}]
      BY <3>1, <3>2
    <3>. QED
      BY <2>1, <3>3 DEF HandleLearnedDevice, TypeOK, DevicesOK
  <2>2. ASSUME NEW p \in Port, HandleDisconnectedDevice(p)
        PROVE  TypeOK'
    BY <2>2 DEF HandleDisconnectedDevice, TypeOK, DevicesOK
  <2>3. ASSUME NEW m \in Mac, NEW d, UpdateDevice(m, d)
        PROVE  TypeOK'
    BY <2>3 DEF UpdateDevice, placementVars, TypeOK, DevicesOK
  <2>4. ASSUME NEW t \in Tester, UNCHANGED placementVars,
               \E l \in Testing : tester' = [tester EXCEPT ![t] = l]
        PROVE  TypeOK'
    BY <2>4 DEF placementVars, TypeOK, DevicesOK
  <2>5. ASSUME NEW m \in Mac, NEW t \in Tester, NEW code \in ResultCode, HandleTestingResult(t, m, code)
        PROVE  TypeOK'
    <3>1. [pc |-> "look", mac |-> m] \in Testing
      BY DEF Testing
    <3>. QED
      BY <2>4, <2>5, <3>1 DEF HandleTestingResult
  <2>6. ASSUME NEW t \in Tester,
               ResultLooksForTimer(t) \/ ResultCancelsTimer(t) \/ ResultDeletesTimer(t)
        PROVE  TypeOK'
    <3>0. tester[t] \in Testing
      BY DEF TypeOK
    <3>1. Idle \in Testing
      BY DEF Idle, Testing
    <3>2. \A pc \in {"cancel", "delete"} : [tester[t] EXCEPT !.pc = pc] \in Testing
      BY <3>0 DEF Testing
    <3>3. UNCHANGED placementVars /\ \E l \in Testing : tester' = [tester EXCEPT ![t] = l]
      BY <2>6, <3>1, <3>2 DEF ResultLooksForTimer, ResultCancelsTimer, ResultDeletesTimer
    <3>. QED
      BY <2>4, <3>3
  <2>7. CASE UNCHANGED vars
    BY <2>7 DEF vars, placementVars, TypeOK
  <2>. QED
    BY <2>1, <2>2, <2>3, <2>5, <2>6, <2>7, NextSteps
    DEF HandleDeviceBehavior, HandleStaticDeviceBehavior, ClearStaticDeviceBehavior, TimersTurn,
        SequesterTimerFires, TimeoutLooksForTimer, TimeoutDropsTimer,
        HandleSequesteringTimeout, HandleScheduledSequestering
<1>. QED
  BY <1>1, <1>2, DevicesCorrect, PTL DEF Spec

\* The assertion of _set_port_operational holds when the handlers are atomic.
THEOREM ServedDevicesAreAuthorized == Spec => []AuthorizedWhileServed
<1>1. DevicesOK => AuthorizedWhileServed
  BY DEF DevicesOK, Inv, DeviceInv, Served, AuthorizedWhileServed
<1>. QED
  BY <1>1, DevicesCorrect, PTL

\* The access a device was given is the one of its state, and the one that is shown
\* of its port.
THEOREM AccessCorrect == Spec => []AccessMatchesState
<1>1. DevicesOK => AccessOfState
  BY DEF DevicesOK, Inv, DeviceInv, Access, AccessOfState
<1>2. AccessOfState /\ TypeOK => AccessIsShown
  <2>. SUFFICES ASSUME AccessOfState, TypeOK, NEW p \in Port, NEW vlan \in BOOLEAN
                PROVE  LET shown == DvaState(p, vlan)
                           applied == device[placementToMac[p]].applied
                       IN  /\ shown \in {"sequestered", "static_operational", "dynamic_operational"} =>
                                 applied # None /\ (applied.assigned # None <=> shown = "sequestered")
                           /\ shown = "infracted" => applied = None
    BY DEF AccessIsShown
  <2>. DEFINE m == placementToMac[p]
  <2>1. CASE m = None \/ device[m].state = None
    <3>1. CASE m = None
      <4>1. DvaState(p, vlan) = IF vlan THEN "unauthenticated" ELSE "initial"
        BY <3>1 DEF DvaState
      <4>. QED
        BY <4>1
    <3>2. CASE m # None
      <4>1. DvaState(p, vlan) = "initial"
        BY <2>1, <3>2, NoneAssumption DEF DvaState, State
      <4>. QED
        BY <4>1
    <3>. QED
      BY <3>1, <3>2
  <2>2. CASE m # None /\ device[m].state # None
    <3>1. m \in Mac
      BY <2>2 DEF TypeOK
    <3>2. CASE device[m].state = "operational"
      <4>. DvaState(p, vlan) \in {"static_operational", "dynamic_operational"}
        BY <2>2, <3>2 DEF DvaState
      <4>. QED
        BY <3>1, <3>2 DEF AccessOfState
    <3>3. CASE device[m].state # "operational"
      <4>1. DvaState(p, vlan) = device[m].state
        BY <2>2, <3>3 DEF DvaState
      <4>2. device[m].state \in State
        BY <2>2, <3>1 DEF TypeOK, Device
      <4>. QED
        BY <3>1, <3>3, <4>1, <4>2 DEF AccessOfState, State
    <3>. QED
      BY <3>2, <3>3
  <2>. QED
    BY <2>1, <2>2
<1>. QED
  BY <1>1, <1>2, TypeCorrect, DevicesCorrect, PTL DEF AccessMatchesState

\* With a timeout, whatever timers the threads of results and of older timers take from each
\* other, a sequestered device has one that will fail it, but for one that a result has taken
\* which came before the sequestering.
THEOREM SequesteringIsTimed == Spec => []SequesteredIsTimed
<1>1. DevicesOK => SequesteredIsTimed
  BY DEF DevicesOK, Inv, DeviceInv, Timed, SequesteredIsTimed
<1>. QED
  BY <1>1, DevicesCorrect, PTL

-----------------------------------------------------------------------------
(* State machines and placements. *)

\* No event creates a state machine.
LEMMA TransitionAbsent ==
    ASSUME NEW d, d.state = None, NEW event
    PROVE  Transition(d, event) = d
BY NoneAssumption DEF Transition, NextState, State

LEMMA BehaviorAbsent ==
    ASSUME NEW d \in Device, d.state = None, NEW segment, NEW static \in BOOLEAN
    PROVE  HandleBehavior(d, segment, static).state = None
<1>. DEFINE set(s) == IF static THEN [d EXCEPT !.static = s]
                                ELSE [d EXCEPT !.dynamic = s]
<1>1. \A s : set(s).state = None
  BY DEF Device
<1>. HIDE DEF set
<1>2. \A s, event : Transition(set(s), event) = set(s)
  BY <1>1, TransitionAbsent
<1>3. Authenticate(d, segment, static) = set(segment)
  <2>1. \A event : Transition(set(segment), event) = set(segment)
    BY <1>2
  <2>. QED
    BY <2>1 DEF Authenticate, set
<1>4. Deauthenticate(d, static) = set(None)
  BY DEF Deauthenticate, set
<1>. QED
  BY <1>1, <1>3, <1>4 DEF HandleBehavior

LEMMA StaticAbsent ==
    ASSUME NEW d \in Device, d.state = None, NEW segment,
           NEW auto \in BOOLEAN, NEW scheduled \in BOOLEAN,
           StaticBehavior(d, segment, auto, scheduled) \in Device
    PROVE  StaticBehavior(d, segment, auto, scheduled).state = None
<1>. DEFINE flagged == [d EXCEPT !.auto = auto]
            handled == IF segment # None THEN HandleBehavior(flagged, segment, TRUE)
                                         ELSE flagged
<1>1. flagged \in Device /\ flagged.state = None
  BY DEF Device
<1>2. handled.state = None
  BY <1>1, BehaviorAbsent
<1>. HIDE DEF handled
<1>3. StaticBehavior(d, segment, auto, scheduled) = [handled EXCEPT !.scheduled = scheduled]
  BY DEF StaticBehavior, handled
<1>. QED
  BY <1>2, <1>3 DEF Device

\* Only learning a device creates its state machine.
LEMMA StateMachineCreated ==
    ASSUME TypeOK, Inv, [Next]_vars, NEW x \in Mac,
           device[x].state = None, device'[x].state # None
    PROVE  \E p \in Port, static \in BOOLEAN : HandleLearnedDevice(x, p, static)
<1>0. \A m \in Mac : device[m] \in Device /\ DeviceInv(device[m])
  BY DEF Inv, DeviceInv
<1>1. ASSUME NEW m \in Mac, NEW p \in Port, NEW static \in BOOLEAN,
             HandleLearnedDevice(m, p, static), m # x
      PROVE  FALSE
  <2>. DEFINE stale == IF placementToMac[p] = m THEN None ELSE placementToMac[p]
  <2>1. device'[x] = IF x = stale THEN RemoveStateMachine(device[x]) ELSE device[x]
    BY <1>1 DEF HandleLearnedDevice
  <2>2. RemoveStateMachine(device[x]).state = None
    BY <1>0 DEF RemoveStateMachine, Device
  <2>. QED
    BY <2>1, <2>2
<1>2. ASSUME NEW p \in Port, HandleDisconnectedDevice(p)
      PROVE  FALSE
  <2>1. device'[x] \in {device[x], RemoveStateMachine(device[x])}
    BY <1>2 DEF HandleDisconnectedDevice, TypeOK
  <2>2. RemoveStateMachine(device[x]).state = None
    BY <1>0 DEF RemoveStateMachine, Device
  <2>. QED
    BY <2>1, <2>2
<1>3. ASSUME NEW m \in Mac, NEW d, UpdateDevice(m, d),
             device[m].state = None => d.state = None
      PROVE  FALSE
  BY <1>3 DEF UpdateDevice, TypeOK
<1>4. ASSUME NEW m \in Mac, NEW segment \in Segment \cup {None},
             HandleDeviceBehavior(m, segment)
      PROVE  FALSE
  BY <1>0, <1>3, <1>4, BehaviorAbsent DEF HandleDeviceBehavior
<1>5. ASSUME NEW m \in Mac, NEW segment \in Segment \cup {None},
             NEW auto \in BOOLEAN, NEW scheduled \in BOOLEAN,
             HandleStaticDeviceBehavior(m, segment, auto, scheduled)
      PROVE  FALSE
  <2>1. StaticBehavior(device[m], segment, auto, scheduled) \in Device
    BY <1>0, StaticBehaviorInv DEF DeviceInv
  <2>. QED
    BY <1>0, <1>3, <1>5, <2>1, StaticAbsent DEF HandleStaticDeviceBehavior
<1>6. ASSUME NEW m \in Mac, ClearStaticDeviceBehavior(m)
      PROVE  FALSE
  <2>1. Deauthenticate(device[m], TRUE) = HandleBehavior(device[m], None, TRUE)
    BY DEF HandleBehavior
  <2>. QED
    BY <1>0, <1>3, <1>6, <2>1, BehaviorAbsent DEF ClearStaticDeviceBehavior
<1>7. ASSUME NEW m \in Mac, NEW t \in Tester, NEW code \in ResultCode, HandleTestingResult(t, m, code)
      PROVE  FALSE
  <2>1. device[m].state = None => Transition(device[m], code) = device[m]
    BY TransitionAbsent
  <2>2. device' = [device EXCEPT ![m] = Transition(device[m], code)]
    BY <1>7 DEF HandleTestingResult
  <2>. QED
    BY <2>1, <2>2 DEF TypeOK
<1>8. ASSUME NEW m \in Mac, HandleSequesteringTimeout(m)
      PROVE  FALSE
  <2>1. PICK others \in BOOLEAN : UpdateDevice(m, SequesteringTimeout(device[m], others))
    BY <1>8 DEF HandleSequesteringTimeout
  <2>. DEFINE e == [device[m] EXCEPT !.failing = others]
  <2>2. e.state = device[m].state
    BY <1>0 DEF Device
  <2>3. device[m].state = None => SequesteringTimeout(device[m], others) = e
    BY <2>2, TransitionAbsent DEF SequesteringTimeout
  <2>. QED
    BY <1>3, <2>1, <2>2, <2>3
<1>11. ASSUME TimersTurn PROVE FALSE
  <2>0. PICK m \in Mac : \E e : TimerStep(device[m], e) /\ device' = [device EXCEPT ![m] = e]
    BY <1>11, TimersStep DEF TypeOK
  <2>1. PICK e : TimerStep(device[m], e) /\ device' = [device EXCEPT ![m] = e]
    BY <2>0
  <2>2. e.state = device[m].state
    BY <1>0, <2>1, TimerStepFields
  <2>. QED
    BY <2>1, <2>2 DEF TypeOK
<1>9. ASSUME NEW m \in Mac, HandleScheduledSequestering(m)
      PROVE  FALSE
  <2>. DEFINE e == [device[m] EXCEPT !.scheduled = FALSE]
  <2>1. e.state = device[m].state
    BY <1>0 DEF Device
  <2>2. device[m].state = None => ScheduledSequestering(device[m]) = e
    BY <2>1, TransitionAbsent DEF ScheduledSequestering
  <2>. QED
    BY <1>3, <1>9, <2>1, <2>2 DEF HandleScheduledSequestering
<1>10. CASE UNCHANGED vars
  BY <1>10 DEF vars
<1>. QED
  BY <1>1, <1>2, <1>4, <1>5, <1>6, <1>7, <1>8, <1>9, <1>10, <1>11, NextSteps

\* Handlers other than those of placements leave the placements alone.
LEMMA PlacementsChange ==
    ASSUME [Next]_vars
    PROVE  \/ UNCHANGED placementVars
           \/ \E m \in Mac, p \in Port, static \in BOOLEAN :
                 HandleLearnedDevice(m, p, static)
           \/ \E p \in Port : HandleDisconnectedDevice(p)
BY NextSteps
   DEF TimersTurn, ResultLooksForTimer, ResultCancelsTimer, ResultDeletesTimer,
       SequesterTimerFires, TimeoutLooksForTimer, TimeoutDropsTimer,
       HandleDeviceBehavior, HandleStaticDeviceBehavior, ClearStaticDeviceBehavior,
       HandleTestingResult, HandleSequesteringTimeout, HandleScheduledSequestering,
       UpdateDevice, placementVars, vars

\* A device with a state machine can be disconnected: it is known at a port.
THEOREM SessionsArePlaced == Spec => []SessionIsPlaced
<1>1. Init => SessionIsPlaced
  BY DEF Init, SessionIsPlaced, NewDevice
<1>2. SessionIsPlaced /\ TypeOK /\ DevicesOK /\ [Next]_vars => SessionIsPlaced'
  <2>. SUFFICES ASSUME SessionIsPlaced, TypeOK, DevicesOK, [Next]_vars,
                       NEW x \in Mac, device'[x].state # None
                PROVE  \E q \in Port : placementToMac'[q] = x
    BY DEF SessionIsPlaced
  <2>0. device[x] \in Device
    BY DEF TypeOK
  <2>1. CASE device[x].state = None
    <3>1. PICK p \in Port, static \in BOOLEAN : HandleLearnedDevice(x, p, static)
      BY <2>1, StateMachineCreated DEF DevicesOK
    <3>2. placementToMac'[p] = x
      BY <3>1 DEF HandleLearnedDevice, TypeOK
    <3>. QED
      BY <3>2
  <2>2. CASE device[x].state # None
    <3>1. PICK q \in Port : placementToMac[q] = x
      BY <2>2 DEF SessionIsPlaced
    <3>2. ASSUME NEW m \in Mac, NEW p \in Port, NEW static \in BOOLEAN,
                 HandleLearnedDevice(m, p, static)
          PROVE  placementToMac'[q] = x \/ placementToMac'[p] = x
      <4>1. CASE q # p \/ m = x
        BY <3>1, <3>2, <4>1 DEF HandleLearnedDevice, TypeOK
      <4>2. CASE q = p /\ m # x
        <5>1. device'[x] = RemoveStateMachine(device[x])
          BY <3>1, <3>2, <4>2 DEF HandleLearnedDevice
        <5>. QED
          BY <2>0, <5>1 DEF RemoveStateMachine, Device
      <4>. QED
        BY <4>1, <4>2
    <3>3. ASSUME NEW p \in Port, HandleDisconnectedDevice(p)
          PROVE  placementToMac'[q] = x
      <4>1. CASE q # p
        BY <3>1, <3>3, <4>1 DEF HandleDisconnectedDevice, TypeOK
      <4>2. CASE q = p
        <5>1. device'[x] = RemoveStateMachine(device[x])
          BY <3>1, <3>3, <4>2 DEF HandleDisconnectedDevice, TypeOK
        <5>. QED
          BY <2>0, <5>1 DEF RemoveStateMachine, Device
      <4>. QED
        BY <4>1, <4>2
    <3>. QED
      BY <3>1, <3>2, <3>3, PlacementsChange DEF placementVars
  <2>. QED
    BY <2>1, <2>2
<1>. QED
  BY <1>1, <1>2, DevicesCorrect, TypeCorrect, PTL DEF Spec

\* The device state manager places a device only where the manager knows it, so
\* it never has two devices for one port.
THEOREM PlacementsAgree == Spec => []PlacementAgrees
<1>1. Init => PlacementAgrees
  BY NoneAssumption DEF Init, PlacementAgrees
<1>2. PlacementAgrees /\ TypeOK /\ [Next]_vars => PlacementAgrees'
  <2>. SUFFICES ASSUME PlacementAgrees, TypeOK, [Next]_vars,
                       NEW x \in Mac, NEW q \in Port, dynamicPlacement'[x] = q
                PROVE  placementToMac'[q] = x
    BY DEF PlacementAgrees
  <2>1. ASSUME NEW m \in Mac, NEW p \in Port, NEW static \in BOOLEAN,
               HandleLearnedDevice(m, p, static)
        PROVE  placementToMac'[q] = x
    <3>. DEFINE stale == IF placementToMac[p] = m THEN None ELSE placementToMac[p]
                unplaced == [y \in Mac |-> IF y = stale THEN None ELSE dynamicPlacement[y]]
    <3>1. /\ placementToMac' = [placementToMac EXCEPT ![p] = m]
          /\ dynamicPlacement' = IF static THEN unplaced ELSE [unplaced EXCEPT ![m] = p]
      BY <2>1 DEF HandleLearnedDevice
    <3>2. CASE x = m /\ q = p
      BY <3>1, <3>2 DEF TypeOK
    <3>3. CASE ~(x = m /\ q = p)
      <4>1. dynamicPlacement'[x] = unplaced[x]
        BY <3>1, <3>3
      <4>2. x # stale /\ dynamicPlacement[x] = q
        BY <4>1, NoneAssumption
      <4>3. placementToMac[q] = x
        BY <4>2 DEF PlacementAgrees
      <4>4. q # p
        BY <3>3, <4>2, <4>3
      <4>. QED
        BY <3>1, <4>3, <4>4 DEF TypeOK
    <3>. QED
      BY <3>2, <3>3
  <2>2. ASSUME NEW p \in Port, HandleDisconnectedDevice(p)
        PROVE  placementToMac'[q] = x
    <3>1. PICK m : m = placementToMac[p]
      OBVIOUS
    <3>2. /\ placementToMac' = [placementToMac EXCEPT ![p] = None]
          /\ dynamicPlacement' = [dynamicPlacement EXCEPT ![m] = None]
      BY <2>2, <3>1 DEF HandleDisconnectedDevice
    <3>3. x # m /\ dynamicPlacement[x] = q
      BY <3>2, NoneAssumption DEF TypeOK
    <3>4. placementToMac[q] = x
      BY <3>3 DEF PlacementAgrees
    <3>. QED
      BY <3>1, <3>2, <3>3, <3>4 DEF TypeOK
  <2>3. CASE UNCHANGED placementVars
    BY <2>3 DEF placementVars, PlacementAgrees
  <2>. QED
    BY <2>1, <2>2, <2>3, PlacementsChange
<1>. QED
  BY <1>1, <1>2, TypeCorrect, PTL DEF Spec

-----------------------------------------------------------------------------
(* Access, behaviours and tests, from step to step. *)

\* The three action properties of PortStateManager, of the record of one device before and
\* after a step.
Granted(d, e) ==
    e.applied # d.applied /\ e.applied # None =>
        /\ Authorized(e) # None
        /\ \/ e.applied.segment = Authorized(e) /\ e.applied.assigned = None
           \/ e.applied.segment = SequesterSegment /\ e.applied.assigned = Authorized(e)

Revoked(d, e) ==
    Authorized(d) # None /\ Authorized(e) = None /\ d.state # None => e.applied = None

Barred(d, e) == d.state = "infracted" => e.state \in {"infracted", None} /\ e.applied = None

Respected(d, e) == Granted(d, e) /\ Revoked(d, e) /\ Barred(d, e)

\* No way round the tests.
NotReleased(d, e) == e.state = "operational" /\ e.auto => d.state = "operational"

\* What a transition changes: the state, by the table, and the access with it.
Effect(d, event, e) ==
    /\ e.static = d.static /\ e.dynamic = d.dynamic /\ e.auto = d.auto
    /\ e.state = IF NextState(d.state, event) = None THEN d.state ELSE NextState(d.state, event)
    /\ Granted(d, e)
    /\ NextState(d.state, event) = None => e.applied = d.applied

LEMMA CallbackGrants ==
    ASSUME NEW d \in Device, Served(d), NEW e, e = HandleCurrentState(d)
    PROVE  /\ e.state = d.state /\ e.static = d.static /\ e.dynamic = d.dynamic /\ e.auto = d.auto
           /\ Granted(d, e)
<1>1. CASE d.state = "sequestered"
  <2>1. e = SetPortSequestered(d)
    BY <1>1 DEF HandleCurrentState
  <2>2. /\ e.state = d.state /\ e.static = d.static /\ e.dynamic = d.dynamic /\ e.auto = d.auto
        /\ e.applied = [segment |-> SequesterSegment, assigned |-> Authorized(d), static |-> FALSE]
    BY <2>1 DEF SetPortSequestered, Device
  <2>3. Authorized(e) = Authorized(d) /\ Authorized(d) # None
    BY <1>1, <2>2 DEF Authorized, Served
  <2>4. e.applied.segment = SequesterSegment /\ e.applied.assigned = Authorized(e)
    BY <2>2, <2>3
  <2> QED BY <2>2, <2>3, <2>4 DEF Granted
<1>2. CASE d.state = "operational"
  <2>1. e = SetPortOperational(d)
    BY <1>2 DEF HandleCurrentState
  <2>2. /\ e.state = d.state /\ e.static = d.static /\ e.dynamic = d.dynamic /\ e.auto = d.auto
        /\ e.applied = [segment |-> Authorized(d), assigned |-> None, static |-> d.static # None]
    BY <2>1 DEF SetPortOperational, Device
  <2>3. Authorized(e) = Authorized(d) /\ Authorized(d) # None
    BY <1>2, <2>2 DEF Authorized, Served
  <2>4. e.applied.segment = Authorized(e) /\ e.applied.assigned = None
    BY <2>2, <2>3
  <2> QED BY <2>2, <2>3, <2>4 DEF Granted
<1>3. CASE d.state = "infracted"
  <2>1. e = HandleInfractedState(d)
    BY <1>3 DEF HandleCurrentState
  <2> QED BY <2>1 DEF HandleInfractedState, Device, Granted
<1>4. CASE d.state \in {"unauthenticated", None}
  <2>1. e = d
    BY <1>4, NoneAssumption DEF HandleCurrentState, State
  <2> QED BY <2>1 DEF Granted
<1> QED BY <1>1, <1>2, <1>3, <1>4 DEF Device, State

LEMMA TransitionEffect ==
    ASSUME NEW d \in Device, Served(d), NEW event,
           Authorized(d) # None \/ event \notin {"cleared", "sequestered"}
    PROVE  Effect(d, event, Transition(d, event))
<1> DEFINE next == NextState(d.state, event)
           x == [d EXCEPT !.state = next]
<1> PICK e : e = Transition(d, event)
  OBVIOUS
<1>1. CASE next = None
  <2>1. e = d
    BY <1>1 DEF Transition
  <2> QED BY <1>1, <2>1 DEF Effect, Granted
<1>2. CASE next # None
  <2>1. next \in State
    BY <1>2, NextStateType
  <2>2. /\ x \in Device /\ x.state = next /\ x.static = d.static /\ x.dynamic = d.dynamic
        /\ x.auto = d.auto /\ x.applied = d.applied
    BY <2>1 DEF Device
  <2>3. Served(x)
    BY <2>2, NextStateServed DEF Served, Authorized
  <2>4. e = HandleCurrentState(x)
    BY <1>2 DEF Transition
  <2>5. e.state = next /\ e.static = d.static /\ e.dynamic = d.dynamic /\ e.auto = d.auto
    BY <2>2, <2>3, <2>4, CallbackGrants
  <2>6. Granted(x, e)
    BY <2>2, <2>3, <2>4, CallbackGrants
  <2>7. Granted(d, e)
    BY <2>2, <2>6 DEF Granted
  <2> QED BY <1>2, <2>5, <2>7 DEF Effect
<1> QED BY <1>1, <1>2

\* The rows of the transition table that these properties rest on.
LEMMA NextStates ==
    ASSUME NEW state, NEW event
    PROVE  /\ state = "infracted" => NextState(state, event) = None
           /\ event \in {"sequestered", "deauthenticated", "manual_sequestered"} =>
                  NextState(state, event) # "operational"
<1>1. state = "infracted" => NextState(state, event) = None
  BY DEF NextState
<1>2. event = "sequestered" => NextState(state, event) # "operational"
  BY NoneAssumption DEF NextState, State, ResultCode
<1>3. event = "deauthenticated" => NextState(state, event) # "operational"
  BY NoneAssumption DEF NextState, State, ResultCode
<1>4. event = "manual_sequestered" => NextState(state, event) # "operational"
  BY NoneAssumption DEF NextState, State, ResultCode
<1> QED BY <1>1, <1>2, <1>3, <1>4

\* The record a transition starts from differs from the one before the step in its
\* behaviours, flags and timers only.
LEMMA TransitionRespects ==
    ASSUME NEW d, DeviceInv(d), NEW x \in Device, Served(x), x.state = d.state, x.applied = d.applied,
           NEW event, Authorized(x) # None \/ event \notin {"cleared", "sequestered"},
           Authorized(d) = None \/ Authorized(x) # None,
           NEW e, e = Transition(x, event)
    PROVE  /\ Respected(d, e)
           /\ event \in {"sequestered", "deauthenticated", "manual_sequestered"} => NotReleased(d, e)
<1>1. Effect(x, event, e)
  BY TransitionEffect
<1>2. Authorized(e) = Authorized(x)
  BY <1>1 DEF Effect, Authorized
<1>3. Granted(d, e)
  BY <1>1 DEF Effect, Granted
<1>4. Revoked(d, e)
  BY <1>2 DEF Revoked
<1>5. Barred(d, e)
  BY <1>1, NextStates DEF Effect, Barred, DeviceInv, Access
<1>6. event \in {"sequestered", "deauthenticated", "manual_sequestered"} => NotReleased(d, e)
  BY <1>1, NextStates DEF Effect, NotReleased
<1> QED BY <1>1, <1>3, <1>4, <1>5, <1>6 DEF Effect, Respected

LEMMA AuthenticateRespects ==
    ASSUME NEW d, DeviceInv(d), NEW segment \in Segment, NEW static \in BOOLEAN,
           NEW e, e = Authenticate(d, segment, static)
    PROVE  Respected(d, e) /\ NotReleased(d, e) /\ Authorized(e) # None
<1> PICK x : x = IF static THEN [d EXCEPT !.static = segment] ELSE [d EXCEPT !.dynamic = segment]
  OBVIOUS
<1> PICK event : event = IF d.auto THEN "sequestered" ELSE "cleared"
  OBVIOUS
<1>1. x \in Device /\ x.state = d.state /\ x.applied = d.applied /\ x.auto = d.auto
  BY DEF DeviceInv, Device
<1>2. Authorized(x) # None
  BY NoneAssumption DEF DeviceInv, Device, Authorized
<1>3. Served(x)
  BY <1>2 DEF Served
<1>4. e = Transition(x, event)
  BY DEF Authenticate
<1>5. Respected(d, e)
  BY <1>1, <1>2, <1>3, <1>4, TransitionRespects
<1>6. e.static = x.static /\ e.dynamic = x.dynamic /\ e.auto = x.auto
  <2>1. Effect(x, event, Transition(x, event))
    BY <1>1, <1>2, <1>3, TransitionEffect
  <2> QED BY <1>4, <2>1 DEF Effect
<1>7. event = "sequestered" => NotReleased(d, e)
  BY <1>1, <1>2, <1>3, <1>4, TransitionRespects
<1>8. Authorized(e) # None
  BY <1>2, <1>6 DEF Authorized
<1>9. NotReleased(d, e)
  BY <1>1, <1>6, <1>7 DEF NotReleased
<1> QED BY <1>5, <1>8, <1>9

LEMMA DeauthenticateRespects ==
    ASSUME NEW d, DeviceInv(d), NEW static \in BOOLEAN, NEW e, e = Deauthenticate(d, static)
    PROVE  Respected(d, e) /\ NotReleased(d, e)
<1> PICK x : x = IF static THEN [d EXCEPT !.static = None] ELSE [d EXCEPT !.dynamic = None]
  OBVIOUS
<1>1. x \in Device /\ x.state = d.state /\ x.applied = d.applied /\ x.auto = d.auto
  BY DEF DeviceInv, Device
<1>2. CASE (~static /\ x.static # None) \/ d.state = None
  <2>1. e = x
    BY <1>2 DEF Deauthenticate
  <2>2. Revoked(d, e)
    BY <1>2, <2>1 DEF Revoked, Authorized
  <2> QED BY <1>1, <2>1, <2>2 DEF Respected, Granted, Barred, NotReleased, DeviceInv, Access
<1>3. CASE ~((~static /\ x.static # None) \/ d.state = None)
  <2> PICK t : t = Transition(x, "deauthenticated")
    OBVIOUS
  <2>1. e = [t EXCEPT !.applied = None]
    BY <1>3 DEF Deauthenticate
  <2>2. t.state = IF NextState(x.state, "deauthenticated") = None THEN x.state
                  ELSE NextState(x.state, "deauthenticated")
    <3>1. CASE NextState(x.state, "deauthenticated") = None
      BY <3>1 DEF Transition
    <3>2. CASE NextState(x.state, "deauthenticated") # None
      <4>1. d.state \in State
        BY <1>3 DEF DeviceInv, Device
      <4>2. NextState(x.state, "deauthenticated") = "unauthenticated"
        BY <1>1, <3>2, <4>1, DeauthenticatedState
      <4>3. t = HandleCurrentState([x EXCEPT !.state = "unauthenticated"])
        BY <3>2, <4>2 DEF Transition
      <4>4. [x EXCEPT !.state = "unauthenticated"] \in Device
        BY <1>1 DEF Device, State
      <4>5. [x EXCEPT !.state = "unauthenticated"].state = "unauthenticated"
        BY <1>1 DEF Device
      <4> QED BY <3>2, <4>2, <4>3, <4>4, <4>5, CallbackKeepsState
    <3> QED BY <3>1, <3>2
  <2>3. t \in Device
    <3>1. CASE NextState(x.state, "deauthenticated") = None
      BY <1>1, <3>1 DEF Transition
    <3>2. CASE NextState(x.state, "deauthenticated") # None
      <4>1. d.state \in State
        BY <1>3 DEF DeviceInv, Device
      <4>2. NextState(x.state, "deauthenticated") = "unauthenticated"
        BY <1>1, <3>2, <4>1, DeauthenticatedState
      <4> PICK y : y = [x EXCEPT !.state = "unauthenticated"]
        OBVIOUS
      <4>3. y \in Device /\ y.state = "unauthenticated"
        BY <1>1 DEF Device, State
      <4>4. t = HandleCurrentState(y)
        BY <3>2, <4>2 DEF Transition
      <4>5. t = y
        BY <4>3, <4>4 DEF HandleCurrentState
      <4> QED BY <4>3, <4>5
    <3> QED BY <3>1, <3>2
  <2>4. e.applied = None /\ e.state = t.state
    BY <2>1, <2>3 DEF Device
  <2>5. Barred(d, e) /\ NotReleased(d, e)
    BY <1>1, <2>2, <2>4, NextStates DEF Barred, NotReleased
  <2> QED BY <2>4, <2>5 DEF Respected, Granted, Revoked
<1> QED BY <1>2, <1>3

LEMMA HandleBehaviorRespects ==
    ASSUME NEW d, DeviceInv(d), NEW segment \in Segment \cup {None}, NEW static \in BOOLEAN,
           NEW e, e = HandleBehavior(d, segment, static)
    PROVE  Respected(d, e) /\ NotReleased(d, e)
BY AuthenticateRespects, DeauthenticateRespects DEF HandleBehavior

LEMMA AddStateMachineRespects ==
    ASSUME NEW d, DeviceInv(d), NEW e, e = AddStateMachine(d)
    PROVE  Respected(d, e) /\ NotReleased(d, e)
<1> PICK new : new = [d EXCEPT !.state = "unauthenticated"]
  OBVIOUS
<1>1. new \in Device /\ new.state = "unauthenticated" /\ new.applied = d.applied
  BY DEF DeviceInv, Device, State
<1>2. DeviceInv(new)
  BY <1>1, IdleState
<1>3. CASE d.state # None
  <2>1. e = d
    BY <1>3 DEF AddStateMachine
  <2> QED BY <2>1 DEF Respected, Granted, Revoked, Barred, NotReleased, DeviceInv, Access
<1>4. CASE d.state = None /\ Authorized(d) = None
  <2>1. e = new
    BY <1>4 DEF AddStateMachine
  <2> QED BY <1>1, <1>4, <2>1, NoneAssumption DEF Respected, Granted, Revoked, Barred, NotReleased, State
<1>5. CASE d.state = None /\ Authorized(d) # None
  <2>1. e = Authenticate(new, Authorized(d), d.static # None)
    BY <1>5 DEF AddStateMachine
  <2>2. Authorized(d) \in Segment /\ (d.static # None) \in BOOLEAN
    BY <1>5 DEF DeviceInv, Device, Authorized
  <2>3. Respected(new, e) /\ NotReleased(new, e) /\ Authorized(e) # None
    BY <1>2, <2>1, <2>2, AuthenticateRespects
  <2> QED BY <1>1, <1>5, <2>3, NoneAssumption DEF Respected, Granted, Revoked, Barred, NotReleased, State
<1> QED BY <1>3, <1>4, <1>5

LEMMA RemoveStateMachineRespects ==
    ASSUME NEW d, DeviceInv(d), NEW e, e = RemoveStateMachine(d)
    PROVE  Respected(d, e) /\ NotReleased(d, e)
<1>1. e.state = None /\ e.applied = d.applied /\ Authorized(e) = Authorized(d)
  BY DEF RemoveStateMachine, DeviceInv, Device, Authorized
<1>2. None # "operational"
  BY NoneAssumption DEF State
<1> QED BY <1>1, <1>2 DEF Respected, Granted, Revoked, Barred, NotReleased, DeviceInv, Access

LEMMA StaticBehaviorRespects ==
    ASSUME NEW d, DeviceInv(d), NEW segment \in Segment \cup {None}, NEW auto \in BOOLEAN,
           NEW scheduled \in BOOLEAN, NEW e, e = StaticBehavior(d, segment, auto, scheduled)
    PROVE  Respected(d, e) /\ NotReleased(d, e)
<1> PICK flagged : flagged = [d EXCEPT !.auto = auto]
  OBVIOUS
<1> PICK handled : handled = IF segment # None THEN HandleBehavior(flagged, segment, TRUE) ELSE flagged
  OBVIOUS
<1>1. /\ flagged \in Device
      /\ flagged.state = d.state /\ flagged.static = d.static /\ flagged.dynamic = d.dynamic
      /\ flagged.applied = d.applied /\ flagged.timer = d.timer /\ flagged.orphan = d.orphan
      /\ flagged.found = d.found /\ flagged.failing = d.failing /\ flagged.lost = d.lost
  BY DEF DeviceInv, Device
<1>2. DeviceInv(flagged)
  BY <1>1, OtherFields
<1>3. DeviceInv(handled)
  BY <1>2, HandleBehaviorInv
<1>4. Respected(flagged, handled) /\ NotReleased(flagged, handled)
  <2>1. CASE segment # None
    <3>1. handled = HandleBehavior(flagged, segment, TRUE)
      BY <2>1
    <3> QED BY <1>2, <3>1, HandleBehaviorRespects
  <2>2. CASE segment = None
    <3>1. handled = flagged
      BY <2>2
    <3> QED BY <1>2, <3>1 DEF Respected, Granted, Revoked, Barred, NotReleased, DeviceInv, Access
  <2> QED BY <2>1, <2>2
<1>5. e = [handled EXCEPT !.scheduled = scheduled]
  BY DEF StaticBehavior
<1>6. /\ e.state = handled.state /\ e.static = handled.static /\ e.dynamic = handled.dynamic
      /\ e.applied = handled.applied /\ e.auto = handled.auto
  BY <1>3, <1>5 DEF DeviceInv, Device
<1> QED BY <1>1, <1>4, <1>6 DEF Respected, Granted, Revoked, Barred, NotReleased, Authorized

LEMMA ResultRespects ==
    ASSUME NEW d, DeviceInv(d), NEW code \in ResultCode, NEW e, e = Transition(d, code)
    PROVE  Respected(d, e)
<1>1. d \in Device /\ Served(d) /\ code \notin {"cleared", "sequestered"}
  BY DEF DeviceInv, ResultCode
<1> QED BY <1>1, TransitionRespects

LEMMA TimerStepRespects ==
    ASSUME NEW d, DeviceInv(d), NEW e, TimerStep(d, e)
    PROVE  Respected(d, e) /\ NotReleased(d, e)
<1>1. /\ e.state = d.state /\ e.static = d.static /\ e.dynamic = d.dynamic
      /\ e.applied = d.applied /\ e.auto = d.auto
  BY TimerStepFields DEF DeviceInv
<1> QED BY <1>1 DEF DeviceInv, Access, Respected, Granted, Revoked, Barred, NotReleased, Authorized

LEMMA SequesteringTimeoutRespects ==
    ASSUME NEW d, DeviceInv(d), NEW others \in BOOLEAN, NEW e, e = SequesteringTimeout(d, others)
    PROVE  Respected(d, e)
<1> PICK x : x = [d EXCEPT !.failing = others]
  OBVIOUS
<1>1. /\ x \in Device /\ x.state = d.state /\ x.applied = d.applied
      /\ x.static = d.static /\ x.dynamic = d.dynamic
  BY DEF DeviceInv, Device
<1>2. Served(x) /\ Authorized(x) = Authorized(d)
  BY <1>1 DEF DeviceInv, Served, Authorized
<1>3. e = Transition(x, "FAILED")
  BY DEF SequesteringTimeout
<1> QED BY <1>1, <1>2, <1>3, TransitionRespects

LEMMA ScheduledSequesteringRespects ==
    ASSUME NEW d, DeviceInv(d), NEW e, e = ScheduledSequestering(d)
    PROVE  Respected(d, e) /\ NotReleased(d, e)
<1> PICK x : x = [d EXCEPT !.scheduled = FALSE]
  OBVIOUS
<1>1. /\ x \in Device /\ x.state = d.state /\ x.applied = d.applied
      /\ x.static = d.static /\ x.dynamic = d.dynamic
  BY DEF DeviceInv, Device
<1>2. Served(x) /\ Authorized(x) = Authorized(d)
  BY <1>1 DEF DeviceInv, Served, Authorized
<1>3. e = Transition(x, "manual_sequestered")
  BY DEF ScheduledSequestering
<1> QED BY <1>1, <1>2, <1>3, TransitionRespects

\* Every step of the specification, seen by one device.
LEMMA StepRespects ==
    ASSUME TypeOK, Inv, [Next]_vars, NEW x \in Mac
    PROVE  /\ Respected(device[x], device'[x])
           /\ \/ NotReleased(device[x], device'[x])
              \/ \E t \in Tester, code \in ResultCode : HandleTestingResult(t, x, code)
              \/ HandleSequesteringTimeout(x)
<1> DEFINE Quiet == Respected(device[x], device'[x]) /\ NotReleased(device[x], device'[x])
<1>0. \A m \in Mac : DeviceInv(device[m])
  BY DEF Inv
<1>1. device'[x] = device[x] => Quiet
  BY <1>0 DEF DeviceInv, Access, Respected, Granted, Revoked, Barred, NotReleased
<1> HIDE DEF Quiet
<1>2. ASSUME NEW m \in Mac, NEW d, UpdateDevice(m, d)
      PROVE  device'[x] = IF m = x THEN d ELSE device[x]
  BY <1>2 DEF UpdateDevice, TypeOK
<1>3. ASSUME NEW m \in Mac, NEW p \in Port, NEW static \in BOOLEAN, HandleLearnedDevice(m, p, static)
      PROVE  Quiet
  <2> PICK stale : stale = IF placementToMac[p] = m THEN None ELSE placementToMac[p]
    OBVIOUS
  <2>1. device'[x] \in {AddStateMachine(device[x]), RemoveStateMachine(device[x]), device[x]}
    <3>1. device' = [y \in Mac |-> CASE y = m     -> AddStateMachine(device[m])
                                     [] y = stale -> RemoveStateMachine(device[y])
                                     [] OTHER     -> device[y]]
      BY <1>3 DEF HandleLearnedDevice
    <3>2. device'[x] = CASE x = m     -> AddStateMachine(device[m])
                         [] x = stale -> RemoveStateMachine(device[x])
                         [] OTHER     -> device[x]
      BY <3>1, Zenon
    <3> QED BY <3>2
  <2>2. CASE device'[x] = device[x]
    BY <1>1, <2>2
  <2>3. CASE device'[x] = AddStateMachine(device[x])
    BY <1>0, <2>3, AddStateMachineRespects DEF Quiet
  <2>4. CASE device'[x] = RemoveStateMachine(device[x])
    BY <1>0, <2>4, RemoveStateMachineRespects DEF Quiet
  <2> QED BY <2>1, <2>2, <2>3, <2>4
<1>4. ASSUME NEW p \in Port, HandleDisconnectedDevice(p) PROVE Quiet
  <2>1. device'[x] \in {device[x], RemoveStateMachine(device[x])}
    BY <1>4 DEF HandleDisconnectedDevice, TypeOK
  <2>2. CASE device'[x] = RemoveStateMachine(device[x])
    BY <1>0, <2>2, RemoveStateMachineRespects DEF Quiet
  <2> QED BY <1>1, <2>1, <2>2
<1>5. ASSUME NEW m \in Mac, NEW segment \in Segment \cup {None}, HandleDeviceBehavior(m, segment) PROVE Quiet
  <2>1. device'[x] \in {device[x], HandleBehavior(device[x], segment, FALSE)}
    BY <1>2, <1>5 DEF HandleDeviceBehavior
  <2>2. CASE device'[x] = HandleBehavior(device[x], segment, FALSE)
    BY <1>0, <2>2, HandleBehaviorRespects DEF Quiet
  <2> QED BY <1>1, <2>1, <2>2
<1>6. ASSUME NEW m \in Mac, NEW segment \in Segment \cup {None}, NEW auto \in BOOLEAN, NEW scheduled \in BOOLEAN,
             HandleStaticDeviceBehavior(m, segment, auto, scheduled)
      PROVE  Quiet
  <2>1. device'[x] \in {device[x], StaticBehavior(device[x], segment, auto, scheduled)}
    BY <1>2, <1>6 DEF HandleStaticDeviceBehavior
  <2>2. CASE device'[x] = StaticBehavior(device[x], segment, auto, scheduled)
    BY <1>0, <2>2, StaticBehaviorRespects DEF Quiet
  <2> QED BY <1>1, <2>1, <2>2
<1>7. ASSUME NEW m \in Mac, ClearStaticDeviceBehavior(m) PROVE Quiet
  <2>1. device'[x] \in {device[x], Deauthenticate(device[x], TRUE)}
    BY <1>2, <1>7 DEF ClearStaticDeviceBehavior
  <2>2. CASE device'[x] = Deauthenticate(device[x], TRUE)
    BY <1>0, <2>2, DeauthenticateRespects DEF Quiet
  <2> QED BY <1>1, <2>1, <2>2
<1>8. ASSUME NEW m \in Mac, NEW t \in Tester, NEW code \in ResultCode, HandleTestingResult(t, m, code)
      PROVE  Quiet \/ (m = x /\ Respected(device[x], device'[x]))
  <2>1. device'[x] = IF m = x THEN Transition(device[m], code) ELSE device[x]
    BY <1>8 DEF HandleTestingResult, TypeOK
  <2>2. CASE m = x
    BY <1>0, <2>1, <2>2, ResultRespects
  <2>3. CASE m # x
    <3>1. device'[x] = device[x]
      BY <2>1, <2>3
    <3> QED BY <1>1, <3>1
  <2> QED BY <2>2, <2>3
<1>9. ASSUME NEW m \in Mac, HandleSequesteringTimeout(m)
      PROVE  Quiet \/ (m = x /\ Respected(device[x], device'[x]))
  <2>1. PICK others \in BOOLEAN : UpdateDevice(m, SequesteringTimeout(device[m], others))
    BY <1>9 DEF HandleSequesteringTimeout
  <2>2. device'[x] = IF m = x THEN SequesteringTimeout(device[m], others) ELSE device[x]
    BY <1>2, <2>1
  <2>3. CASE m = x
    BY <1>0, <2>2, <2>3, SequesteringTimeoutRespects
  <2>4. CASE m # x
    <3>1. device'[x] = device[x]
      BY <2>2, <2>4
    <3> QED BY <1>1, <3>1
  <2> QED BY <2>3, <2>4
<1>10. ASSUME NEW m \in Mac, HandleScheduledSequestering(m) PROVE Quiet
  <2>1. device'[x] \in {device[x], ScheduledSequestering(device[x])}
    BY <1>2, <1>10 DEF HandleScheduledSequestering
  <2>2. CASE device'[x] = ScheduledSequestering(device[x])
    BY <1>0, <2>2, ScheduledSequesteringRespects DEF Quiet
  <2> QED BY <1>1, <2>1, <2>2
<1>11. ASSUME TimersTurn PROVE Quiet
  <2>1. CASE device' = device
    BY <1>1, <2>1
  <2>2. ASSUME NEW m \in Mac, NEW e, TimerStep(device[m], e), device' = [device EXCEPT ![m] = e]
        PROVE  Quiet
    <3>1. device'[x] = IF m = x THEN e ELSE device[x]
      BY <2>2 DEF TypeOK
    <3>2. CASE m = x
      BY <1>0, <2>2, <3>1, <3>2, TimerStepRespects DEF Quiet
    <3>3. CASE m # x
      BY <1>1, <3>1, <3>3
    <3> QED BY <3>2, <3>3
  <2>3. device \in [Mac -> Device]
    BY DEF TypeOK
  <2> QED BY <1>11, <2>1, <2>2, <2>3, TimersStep
<1>12. CASE UNCHANGED vars
  <2>1. device'[x] = device[x]
    BY <1>12 DEF vars
  <2>2. Quiet
    BY <1>1, <2>1
  <2> QED BY <2>2 DEF Quiet
<1> QED BY <1>3, <1>4, <1>5, <1>6, <1>7, <1>8, <1>9, <1>10, <1>11, <1>12, NextSteps DEF Quiet

\* Access is given on a behaviour that stands after the step, as it says or as the
\* sequestering for it, and a learned device that loses its last behaviour loses its access in
\* that step, whichever handler it was (_set_port_operational, _handle_deauthenticated_device).
THEOREM AccessFollowsBehaviors == Spec => AccessFollowsAuthorization
<1>1. TypeOK /\ DevicesOK /\ [Next]_vars =>
        [\A m \in Mac : LET new == device[m]'.applied
                            segment == Authorized(device[m]') IN
             new # device[m].applied /\ new # None =>
                 /\ segment # None
                 /\ \/ new.segment = segment /\ new.assigned = None
                    \/ new.segment = SequesterSegment /\ new.assigned = segment]_vars
  BY StepRespects DEF DevicesOK, Respected, Granted
<1>2. TypeOK /\ DevicesOK /\ [Next]_vars =>
        [\A m \in Mac :
             Authorized(device[m]) # None /\ Authorized(device[m]') = None
             /\ device[m].state # None => device[m]'.applied = None]_vars
  BY StepRespects DEF DevicesOK, Respected, Revoked
<1> QED BY <1>1, <1>2, TypeCorrect, DevicesCorrect, PTL
        DEF Spec, AccessFollowsAuthorization, GrantIsAuthorized, DeauthenticationRevokes

\* A device that failed its tests stays without access until it is disconnected, and while
\* auto-sequestering is on only the end of its tests makes a device operational: no order of
\* authentications, file changes and schedules leads round them (_transitions).
THEOREM TestsAreRespected == Spec => SequesteringIsRespected
<1>1. TypeOK /\ DevicesOK /\ [Next]_vars =>
        [\A m \in Mac : device[m].state = "infracted" =>
             device[m]'.state \in {"infracted", None} /\ device[m]'.applied = None]_vars
  BY StepRespects DEF DevicesOK, Respected, Barred
<1>2. TypeOK /\ DevicesOK /\ [Next]_vars =>
        [\A m \in Mac :
             device[m]'.state = "operational" /\ device[m].state # "operational"
             /\ device[m]'.auto =>
                 \/ \E t \in Tester, code \in ResultCode : HandleTestingResult(t, m, code)
                 \/ HandleSequesteringTimeout(m)]_vars
  BY StepRespects DEF DevicesOK, NotReleased
<1> QED BY <1>1, <1>2, TypeCorrect, DevicesCorrect, PTL
        DEF Spec, SequesteringIsRespected, InfractedUntilDisconnected, AutoSequesterEnforced

-----------------------------------------------------------------------------
(* The handlers of one device, step by step (PortStateRaces).  Every lemma takes what      *)
(* PortStateRaces assumes of its constants, Races!ConfigAssumption.                        *)

CONSTANTS Thread, AutoSequester
VARIABLES lock, behaviors, filed, machine, applied, thread, failed, scheduled
Races == INSTANCE PortStateRaces

\* Where a handler is between storing the behaviour and its end.
Inside == {"check", "index", "enter", "callback", "after"}

\* What quiet handlers leave behind; half of it holds earlier.
Agrees ==
    /\ machine \in {"sequestered", "operational"} => applied = machine
    /\ machine = "infracted" => applied = "nothing"

Settled == Agrees /\ (machine \in {"sequestered", "operational"} => behaviors # {})

\* The device was disconnected, and the end of its session waits for the lock.
Leaving == "event" \in Thread /\ thread["event"].pc = "lock"

\* What a thread calls, and where it can be.
Calls(t) ==
    /\ thread[t].pc \in {"learn", "kind"} => t = "event"
    /\ thread[t].stale => thread[t].pc \in {"enter", "callback", "after"}
    /\ thread[t].pc \in {"enter", "callback"} => thread[t].next # None
    /\ thread[t].pc # "idle" =>
        CASE t = "test"  -> thread[t].event \in {"PASSED", "FAILED"} /\ thread[t].pc \notin {"check", "index"}
          [] t = "sched" -> thread[t].pc \in Inside
          [] OTHER       -> thread[t].event \in {"cleared", "sequestered", "deauthenticated"}

\* Only the scheduled sequestering is inside without the lock.
LocksOK ==
    /\ lock # None => lock # "sched" /\ thread[lock].pc \in Inside
    /\ \A t \in Thread : thread[t].pc \in Inside /\ t # "sched" => lock = t
    /\ \A t \in Thread : Calls(t)

\* What is true while a handler c is inside, up to the scheduled sequestering: before the
\* machine enters a state it agrees with the access; then it is in the state the callback is
\* for, unless the device has left; and a deauthentication withdraws the access at its end.
HolderOK(c) ==
    /\ c.event = "deauthenticated" \/ behaviors # {}
    /\ c.pc \in {"check", "index"} => Agrees
    /\ c.pc = "enter" =>
          /\ Agrees
          /\ c.next # None
          /\ c.next = "unauthenticated" <=> c.event = "deauthenticated"
          /\ IF c.stale THEN machine = None /\ Leaving ELSE machine # None
    /\ c.pc = "callback" =>
          /\ c.next # None
          /\ c.next = "unauthenticated" <=> c.event = "deauthenticated"
          /\ machine = c.next \/ (machine = None /\ Leaving)
    /\ c.pc = "after" =>
          IF c.event = "deauthenticated" THEN machine \notin {"sequestered", "operational"}
          ELSE Settled

\* The invariant up to the scheduled sequestering.
Before ==
    /\ "sched" \in Thread => thread["sched"].pc = "idle"
    /\ IF lock = None THEN Settled ELSE HolderOK(thread[lock])
    /\ "AssertionError" \notin failed

\* The inductive invariant.
RacesInvariant == Races!TypeOK /\ LocksOK /\ (scheduled => Before)

LEMMA RacesInit == Races!ConfigAssumption /\ Races!Init => RacesInvariant
<1> SUFFICES ASSUME Races!ConfigAssumption, Races!Init PROVE RacesInvariant
  OBVIOUS
<1>1. Races!Idle \in Races!Local /\ Races!Idle.pc = "idle" /\ Races!Idle.stale = FALSE
  BY DEF Races!Idle, Races!Local, Races!Kind, Races!Event
<1>2. Races!TypeOK
  BY <1>1 DEF Races!Init, Races!TypeOK
<1>3. LocksOK /\ Before
  BY <1>1
        DEF Races!Init, LocksOK, Before, Calls, Settled, Agrees, Inside, Races!State, Races!ConfigAssumption
<1> QED BY <1>2, <1>3 DEF RacesInvariant

\* What the table says, as far as it matters here.
LEMMA HandledStates ==
    ASSUME Races!ConfigAssumption, NEW s \in Races!State \cup {None}, NEW e \in Races!Event
    PROVE  /\ Races!NextState(s, e) \in Races!State \cup {None}
           /\ Races!NextState(s, e) # None =>
                 /\ s # None
                 /\ Races!NextState(s, e) = "unauthenticated" <=> e = "deauthenticated"
                 /\ e \in {"PASSED", "FAILED"} => s = "sequestered"
           /\ Races!NextState(s, e) = None /\ e = "deauthenticated" => s \notin {"sequestered", "operational"}
BY DEF Races!NextState, Races!State, Races!Event, Races!Kind, Races!ConfigAssumption


\* A step of a thread that is not inside, and stays outside: the others may go on as before.
LEMMA OutsideKeeps ==
    ASSUME Races!ConfigAssumption, RacesInvariant,
           NEW t \in Thread, NEW c \in Races!Local,
           thread[t].pc \notin Inside, c.pc \notin Inside,
           thread' = [thread EXCEPT ![t] = c], Calls(t)',
           Leaving => Leaving',
           \/ machine' = machine
           \/ machine = None /\ ~Leaving /\ machine' = "unauthenticated",
           UNCHANGED <<lock, behaviors, applied, failed>>,
           filed' \in BOOLEAN, scheduled' = scheduled,
           t # "sched"
    PROVE  RacesInvariant'
<1>1. Races!TypeOK' /\ thread'[t] = c /\ (\A u \in Thread \ {t} : thread'[u] = thread[u])
  BY DEF RacesInvariant, Races!TypeOK, Races!State
<1>2. LocksOK'
  <2>1. lock # None => lock # t
    BY DEF RacesInvariant, LocksOK
  <2>2. \A u \in Thread : Calls(u)'
    BY <1>1 DEF RacesInvariant, LocksOK, Calls
  <2> QED BY <1>1, <2>1, <2>2 DEF RacesInvariant, LocksOK, Races!TypeOK
<1>3. ASSUME scheduled' PROVE Before'
  <2>1. Before
    BY <1>3 DEF RacesInvariant
  <2>2. ASSUME lock = None PROVE Settled'
    BY <2>1, <2>2 DEF Before, Settled, Agrees
  <2>3. ASSUME lock # None PROVE HolderOK(thread[lock])'
    <3>1. lock \in Thread \ {t} /\ thread'[lock] = thread[lock]
      BY <1>1, <2>3 DEF RacesInvariant, LocksOK, Races!TypeOK
    <3>2. HolderOK(thread[lock])
      BY <2>1, <2>3 DEF Before
    <3>3. thread[lock] \in Races!Local
      BY <3>1 DEF RacesInvariant, Races!TypeOK
    <3> QED BY <3>1, <3>2, <3>3
          DEF HolderOK, Agrees, Settled, Races!Local, Races!State, Races!ConfigAssumption
  <2> QED BY <1>1, <2>1, <2>2, <2>3 DEF Before
<1> QED BY <1>1, <1>2, <1>3 DEF RacesInvariant

\* A handler is called, or the event thread learns the device.
LEMMA CallKeeps ==
    ASSUME Races!ConfigAssumption, RacesInvariant, Races!AuthResult \/ Races!FileChange \/ Races!TestResult
    PROVE  RacesInvariant'
<1>1. ASSUME NEW t \in Thread, NEW kind \in Races!Kind, NEW event \in Races!Event, Races!Call(t, "lock", kind, event),
             t \in {"auth", "file", "test"},
             IF t = "test" THEN event \in {"PASSED", "FAILED"}
                           ELSE event \in {"cleared", "sequestered", "deauthenticated"},
             UNCHANGED <<lock, behaviors, machine, applied, failed, scheduled>>, filed' \in BOOLEAN
      PROVE  RacesInvariant'
  <2> DEFINE c == [Races!Idle EXCEPT !.pc = "lock", !.kind = kind, !.event = event]
  <2>1. c \in Races!Local /\ c.pc = "lock" /\ c.event = event /\ c.stale = FALSE
    BY DEF Races!Idle, Races!Local, Races!Kind, Races!Event, Races!State
  <2>2. thread[t].pc = "idle" /\ thread' = [thread EXCEPT ![t] = c] /\ thread'[t] = c
    BY <1>1 DEF Races!Call, RacesInvariant, Races!TypeOK
  <2>3. Calls(t)'
    BY <1>1, <2>1, <2>2 DEF Calls
  <2>4. Leaving => Leaving'
    BY <1>1, <2>2 DEF Leaving, RacesInvariant, Races!TypeOK
  <2> QED BY <1>1, <2>1, <2>2, <2>3, <2>4, OutsideKeeps DEF Inside
<1>2. Races!Granting \in {"cleared", "sequestered"}
  BY DEF Races!Granting
<1>3. CASE Races!AuthResult
  BY <1>1, <1>2, <1>3 DEF Races!AuthResult, RacesInvariant, Races!TypeOK, Races!Event, Races!Kind
<1>4. CASE Races!TestResult
  BY <1>1, <1>4 DEF Races!TestResult, RacesInvariant, Races!TypeOK, Races!Event, Races!Kind
<1>5. CASE Races!FileChange /\ UNCHANGED thread
  BY <1>5
        DEF Races!FileChange, RacesInvariant, Races!TypeOK, LocksOK, Before, Calls, HolderOK, Settled, Agrees, Leaving
<1>6. CASE Races!FileChange /\ thread' # thread
  BY <1>1, <1>2, <1>6 DEF Races!FileChange, RacesInvariant, Races!TypeOK, Races!Event, Races!Kind
<1> QED BY <1>3, <1>4, <1>5, <1>6

LEMMA LearnKeeps ==
    ASSUME Races!ConfigAssumption, RacesInvariant, Races!Learned \/ Races!LearnBehavior \/ Races!LearnKind
    PROVE  RacesInvariant'
<1>1. "event" \in Thread /\ thread["event"] \in Races!Local
  BY DEF Races!Learned, Races!LearnBehavior, Races!LearnKind, RacesInvariant, Races!TypeOK
<1>2. CASE Races!Learned
  <2> DEFINE c == [Races!Idle EXCEPT !.pc = "learn", !.kind = "dynamic", !.event = Races!Granting]
  <2>1. c \in Races!Local /\ c.pc = "learn" /\ c.event \in {"cleared", "sequestered"} /\ c.stale = FALSE
    BY DEF Races!Idle, Races!Local, Races!Kind, Races!Event, Races!State, Races!Granting
  <2>2. thread["event"].pc = "idle" /\ thread' = [thread EXCEPT !["event"] = c] /\ thread'["event"] = c
    BY <1>1, <1>2 DEF Races!Learned, Races!Call, RacesInvariant, Races!TypeOK
  <2>3. Calls("event")' /\ ~Leaving
    BY <1>2, <2>1, <2>2 DEF Calls, Leaving
  <2> QED BY <1>1, <1>2, <2>1, <2>2, <2>3, OutsideKeeps
        DEF Inside, Races!Learned, RacesInvariant, Races!TypeOK
<1>3. CASE Races!LearnBehavior
  <2>1. PICK c \in {Races!Idle, [thread["event"] EXCEPT !.pc = "kind"]} : thread' = [thread EXCEPT !["event"] = c]
    BY <1>3 DEF Races!LearnBehavior, Races!Goto
  <2>2. c \in Races!Local /\ c.pc \in {"idle", "kind"} /\ (c.pc = "kind" => c.event = thread["event"].event)
        /\ (c.stale => thread["event"].stale)
    <3>1. CASE c = Races!Idle
      BY <3>1 DEF Races!Idle, Races!Local, Races!Kind, Races!Event, Races!State
    <3>2. CASE c = [thread["event"] EXCEPT !.pc = "kind"]
      BY <1>1, <3>2 DEF Races!Local
    <3> QED BY <2>1, <3>1, <3>2
  <2>3. thread["event"].pc = "learn" /\ thread'["event"] = c
    BY <1>1, <1>3, <2>1 DEF Races!LearnBehavior, RacesInvariant, Races!TypeOK
  <2>4. Calls("event")' /\ ~Leaving
    BY <1>1, <2>2, <2>3 DEF Calls, Leaving, RacesInvariant, LocksOK
  <2> QED BY <1>1, <1>3, <2>1, <2>2, <2>3, <2>4, OutsideKeeps
        DEF Inside, Races!LearnBehavior, RacesInvariant, Races!TypeOK
<1>4. CASE Races!LearnKind
  <2>1. PICK c : c = [thread["event"] EXCEPT !.pc = "lock",
                                            !.kind = IF "static" \in behaviors THEN "static" ELSE "dynamic"]
    OBVIOUS
  <2>2. c \in Races!Local /\ c.pc = "lock" /\ c.event = thread["event"].event /\ c.stale = thread["event"].stale
    BY <1>1, <2>1 DEF Races!Local, Races!Kind
  <2>3. thread["event"].pc = "kind" /\ thread' = [thread EXCEPT !["event"] = c] /\ thread'["event"] = c
    BY <1>1, <1>4, <2>1 DEF Races!LearnKind, RacesInvariant, Races!TypeOK
  <2>4. Calls("event")' /\ ~Leaving
    BY <1>1, <2>2, <2>3 DEF Calls, Leaving, RacesInvariant, LocksOK
  <2> QED BY <1>1, <1>4, <2>2, <2>3, <2>4, OutsideKeeps
        DEF Inside, Races!LearnKind, RacesInvariant, Races!TypeOK
<1> QED BY <1>2, <1>3, <1>4

LEMMA ScheduleKeeps ==
    ASSUME Races!ConfigAssumption, RacesInvariant, Races!ScheduledSequester
    PROVE  RacesInvariant'
<1> DEFINE c == [Races!Idle EXCEPT !.pc = "check", !.kind = "dynamic", !.event = "manual_sequestered"]
<1>1. c \in Races!Local /\ c.pc = "check" /\ c.stale = FALSE
  BY DEF Races!Idle, Races!Local, Races!Kind, Races!Event, Races!State
<1>2. /\ "sched" \in Thread /\ thread["sched"].pc = "idle"
      /\ thread' = [thread EXCEPT !["sched"] = c] /\ thread'["sched"] = c
      /\ \A u \in Thread \ {"sched"} : thread'[u] = thread[u]
  BY DEF Races!ScheduledSequester, Races!Call, RacesInvariant, Races!TypeOK
<1>3. Races!TypeOK' /\ ~scheduled'
  BY <1>1, <1>2 DEF Races!ScheduledSequester, RacesInvariant, Races!TypeOK
<1>4. LocksOK'
  BY <1>1, <1>2, <1>3
        DEF Races!ScheduledSequester, RacesInvariant, LocksOK, Calls, Inside, Races!TypeOK
<1> QED BY <1>3, <1>4 DEF RacesInvariant

LEMMA DisconnectKeeps ==
    ASSUME Races!ConfigAssumption, RacesInvariant, Races!Disconnected
    PROVE  RacesInvariant'
<1> DEFINE c == [Races!Idle EXCEPT !.pc = "lock", !.event = "deauthenticated"]
           Stale(t) == [thread[t] EXCEPT !.stale = thread[t].pc = "enter"]
<1>1. c \in Races!Local /\ c.pc = "lock" /\ c.event = "deauthenticated" /\ c.stale = FALSE
  BY DEF Races!Idle, Races!Local, Races!Kind, Races!Event, Races!State
<1>2. "event" \in Thread /\ thread["event"].pc = "idle" /\ thread'["event"] = c
  BY DEF Races!Disconnected
<1>3. \A t \in Thread : Stale(t) \in Races!Local /\ Stale(t).pc = thread[t].pc /\ Stale(t).event = thread[t].event
                        /\ Stale(t).next = thread[t].next /\ (Stale(t).stale <=> thread[t].pc = "enter")
  <2> TAKE t \in Thread
  <2>1. \A r \in Races!Local, b \in BOOLEAN :
            LET new == [r EXCEPT !.stale = b]
            IN  new \in Races!Local /\ new.pc = r.pc /\ new.event = r.event /\ new.next = r.next /\ new.stale = b
    BY DEF Races!Local
  <2>2. thread[t] \in Races!Local /\ (thread[t].pc = "enter") \in BOOLEAN
    BY DEF RacesInvariant, Races!TypeOK
  <2> QED BY <2>1, <2>2
<1>4. \A t \in Thread \ {"event"} : thread'[t] = Stale(t)
  BY DEF Races!Disconnected
<1> HIDE DEF c, Stale
<1>5. Races!TypeOK'
  <2>1. thread' \in [Thread -> Races!Local]
    BY <1>1, <1>3 DEF Races!Disconnected, c, Stale
  <2> QED BY <2>1 DEF Races!Disconnected, RacesInvariant, Races!TypeOK
<1>6. LocksOK'
  <2>1. lock # "event"
    BY <1>2 DEF RacesInvariant, LocksOK, Inside, Races!ConfigAssumption
  <2>2. \A t \in Thread : Calls(t)'
    BY <1>1, <1>2, <1>3, <1>4 DEF RacesInvariant, LocksOK, Calls
  <2> QED BY <1>1, <1>2, <1>3, <1>4, <2>1, <2>2
        DEF Races!Disconnected, RacesInvariant, LocksOK, Races!TypeOK, Inside
<1>7. ASSUME scheduled' PROVE Before'
  <2>1. Before /\ machine' = None /\ Leaving'
    BY <1>1, <1>2, <1>7 DEF RacesInvariant, Races!Disconnected, Leaving
  <2>2. Agrees' /\ Settled'
    BY <2>1 DEF Agrees, Settled, Races!ConfigAssumption, Races!State
  <2>3. ASSUME lock # None PROVE HolderOK(thread[lock])'
    <3>1. lock \in Thread \ {"event"} /\ HolderOK(thread[lock])
      BY <1>2, <2>1, <2>3 DEF Before, RacesInvariant, LocksOK, Races!TypeOK, Inside
    <3>2. thread'[lock] = Stale(lock)
      BY <1>4, <3>1
    <3> QED BY <1>3, <2>1, <2>2, <3>1, <3>2
          DEF HolderOK, Races!Disconnected, Races!ConfigAssumption, Races!State
  <2>4. "sched" \in Thread => thread'["sched"].pc = "idle"
    BY <1>3, <1>4, <2>1 DEF Before
  <2> QED BY <2>1, <2>2, <2>3, <2>4 DEF Before, Races!Disconnected
<1> QED BY <1>5, <1>6, <1>7 DEF RacesInvariant

-----------------------------------------------------------------------------
(* The steps of the handlers. *)

\* t takes a step, and only t.
LEMMA OthersCall ==
    ASSUME Races!ConfigAssumption, RacesInvariant, NEW t \in Thread, NEW c \in Races!Local, thread' = [thread EXCEPT ![t] = c], Calls(t)',
           \/ lock' = lock /\ (c.pc \in Inside /\ t # "sched" => lock = t) /\ (lock = t => c.pc \in Inside)
           \/ lock = None /\ lock' = t /\ c.pc \in Inside /\ t # "sched"
           \/ lock = t /\ lock' = None /\ c.pc \notin Inside
    PROVE  LocksOK' /\ thread'[t] = c /\ thread' \in [Thread -> Races!Local]
           /\ (\A u \in Thread \ {t} : thread'[u] = thread[u])
<1>1. thread'[t] = c /\ (\A u \in Thread \ {t} : thread'[u] = thread[u]) /\ thread' \in [Thread -> Races!Local]
  BY DEF RacesInvariant, Races!TypeOK
<1>2. \A u \in Thread : Calls(u)'
  BY <1>1 DEF RacesInvariant, LocksOK, Calls
<1>3. lock \in Thread \cup {None}
  BY DEF RacesInvariant, Races!TypeOK
<1>4. lock' # None => lock' # "sched" /\ thread'[lock'].pc \in Inside
  BY <1>1, <1>3 DEF RacesInvariant, LocksOK, Races!ConfigAssumption
<1>5. \A u \in Thread : thread'[u].pc \in Inside /\ u # "sched" => lock' = u
  BY <1>1, <1>3 DEF RacesInvariant, LocksOK, Races!ConfigAssumption
<1> QED BY <1>1, <1>2, <1>4, <1>5 DEF LocksOK

\* The handler of t ends; unless the scheduled sequestering has begun, t had the lock or nobody.
LEMMA FinishKeeps ==
    ASSUME Races!ConfigAssumption, RacesInvariant, NEW t \in Thread, Races!Finish(t),
           thread[t].pc \in Inside \/ (lock = None /\ t # "sched"),
           filed' = filed, scheduled' = scheduled, machine' = machine,
           behaviors' \subseteq Races!Kind,
           failed' \subseteq {"KeyError", "AttributeError", "AssertionError"},
           applied' \in {"nothing", "sequestered", "operational"},
           scheduled /\ t # "sched" => Settled' /\ "AssertionError" \notin failed'
    PROVE  RacesInvariant'
<1>1. Races!Idle \in Races!Local /\ Races!Idle.pc = "idle" /\ Races!Idle.stale = FALSE
  BY DEF Races!Idle, Races!Local, Races!Kind, Races!Event
<1>2. Calls(t)'
  BY <1>1 DEF Races!Finish, Calls, RacesInvariant, Races!TypeOK
<1>3. LocksOK' /\ thread' \in [Thread -> Races!Local] /\ thread'[t] = Races!Idle /\ \A u \in Thread \ {t} : thread'[u] = thread[u]
  BY <1>1, <1>2, OthersCall DEF Races!Finish, Inside
<1>4. Races!TypeOK'
  BY <1>3 DEF RacesInvariant, Races!TypeOK, Races!Finish
<1>5. ASSUME scheduled' PROVE Before'
  <2>1. Before
    BY <1>5 DEF RacesInvariant
  <2>2. CASE t = "sched"
    BY <2>1, <2>2 DEF Before, Inside
  <2>3. CASE t # "sched"
    <3>1. lock = None \/ lock = t
      BY <2>3 DEF RacesInvariant, LocksOK
    <3>2. lock' = None
      BY <3>1 DEF Races!Finish
    <3> QED BY <1>3, <1>5, <2>1, <2>3, <3>2 DEF Before
  <2> QED BY <2>2, <2>3
<1> QED BY <1>3, <1>4, <1>5 DEF RacesInvariant

\* The handler of t goes on inside, with the lock unless it is the scheduled sequestering.
LEMMA InsideKeeps ==
    ASSUME Races!ConfigAssumption, RacesInvariant, NEW t \in Thread, NEW c \in Races!Local,
           thread' = [thread EXCEPT ![t] = c], c.pc \in Inside, c.event = thread[t].event,
           t = "test" => c.pc \notin {"check", "index"},
           c.stale => c.pc \in {"enter", "callback", "after"},
           c.pc \in {"enter", "callback"} => c.next # None,
           \/ lock' = lock /\ thread[t].pc \in Inside
           \/ lock = None /\ lock' = t /\ thread[t].pc = "lock",
           filed' = filed, scheduled' = scheduled, failed' = failed,
           behaviors' \subseteq Races!Kind, machine' \in Races!State \cup {None},
           applied' \in {"nothing", "sequestered", "operational"},
           scheduled /\ t # "sched" /\ Before /\ thread'[t] = c => HolderOK(c)'
    PROVE  RacesInvariant'
<1>1. thread[t] \in Races!Local /\ Calls(t)
  BY DEF RacesInvariant, Races!TypeOK, LocksOK
<1>2. thread'[t] = c
  BY DEF RacesInvariant, Races!TypeOK
<1>3. thread[t].pc = "lock" => t # "sched"
  BY <1>1 DEF Calls, Inside
<1>4. Calls(t)'
  BY <1>1, <1>2, <1>3 DEF Calls, Inside
<1>5. thread[t].pc \in Inside /\ t # "sched" => lock = t
  BY DEF RacesInvariant, LocksOK
<1>6. LocksOK' /\ thread' \in [Thread -> Races!Local] /\ \A u \in Thread \ {t} : thread'[u] = thread[u]
  BY <1>3, <1>4, <1>5, OthersCall
<1>7. Races!TypeOK'
  BY <1>6 DEF RacesInvariant, Races!TypeOK
<1>8. ASSUME scheduled' PROVE Before'
  <2>1. Before
    BY <1>8 DEF RacesInvariant
  <2>2. t # "sched"
    BY <1>3, <2>1 DEF Before, Inside
  <2>3. lock' = t
    BY <1>5, <2>2
  <2> QED BY <1>2, <1>6, <1>8, <2>1, <2>2, <2>3 DEF Before, Races!ConfigAssumption
<1> QED BY <1>6, <1>7, <1>8 DEF RacesInvariant

\* Until then a thread that is inside has the lock.
LEMMA Holding ==
    ASSUME Races!ConfigAssumption, RacesInvariant, scheduled, NEW t \in Thread, t # "sched", thread[t].pc \in Inside
    PROVE  lock = t /\ HolderOK(thread[t]) /\ "AssertionError" \notin failed
BY DEF RacesInvariant, LocksOK, Before, Races!TypeOK, Races!ConfigAssumption

\* Each step of a handler keeps the invariant.
LEMMA StoreKeeps ==
    ASSUME Races!ConfigAssumption, RacesInvariant, NEW t \in Thread, Races!Store(t)
    PROVE  RacesInvariant'
<1> DEFINE call == thread[t]
           known == IF call.event = "deauthenticated" THEN behaviors \ {call.kind} ELSE behaviors \cup {call.kind}
           ignored == call.event = "deauthenticated" /\ call.kind = "dynamic" /\ "static" \in known
<1>1. call \in Races!Local /\ Calls(t) /\ t # "test" /\ call.pc = "lock" /\ lock = None
  BY DEF Races!Store, Races!Acquire, RacesInvariant, Races!TypeOK, LocksOK
<1>2. t # "sched" /\ ~call.stale /\ (call.event = "deauthenticated" \/ known # {})
  BY <1>1 DEF Calls, Inside
<1>3. behaviors' = known /\ known \subseteq Races!Kind /\ UNCHANGED <<filed, machine, applied, failed, scheduled>>
  BY <1>1 DEF Races!Store, RacesInvariant, Races!TypeOK, Races!Local
<1>4. scheduled => Settled /\ "AssertionError" \notin failed
  BY <1>1 DEF RacesInvariant, Before
<1> HIDE DEF known
<1>5. CASE ignored
  <2>1. Races!Finish(t)
    BY <1>5 DEF Races!Store, known
  <2>2. known # {}
    BY <1>5
  <2>3. scheduled => Settled'
    BY <1>3, <1>4, <2>2 DEF Settled, Agrees
  <2> QED BY <1>1, <1>2, <1>3, <1>4, <2>1, <2>3, FinishKeeps DEF RacesInvariant, Races!TypeOK
<1>6. CASE ~ignored
  <2>0. PICK c : c = [call EXCEPT !.pc = "check"]
    OBVIOUS
  <2>1. lock' = t /\ thread' = [thread EXCEPT ![t] = c]
    BY <1>6, <2>0 DEF Races!Store, Races!Acquire, Races!Goto, known
  <2>2. c \in Races!Local /\ c.pc = "check" /\ c.event = call.event /\ c.stale = call.stale
    BY <1>1, <2>0 DEF Races!Local
  <2>3. scheduled => HolderOK(c)'
    BY <1>2, <1>3, <1>4, <2>2 DEF HolderOK, Settled, Agrees
  <2> QED BY <1>1, <1>2, <1>3, <2>1, <2>2, <2>3, InsideKeeps DEF Inside, RacesInvariant, Races!TypeOK
<1> QED BY <1>5, <1>6

LEMMA GetMachineKeeps ==
    ASSUME Races!ConfigAssumption, RacesInvariant, NEW t \in Thread, Races!GetMachine(t)
    PROVE  RacesInvariant'
<1> DEFINE call == thread[t]
           next == Races!NextState(machine, call.event)
<1>1. call \in Races!Local /\ Calls(t) /\ t = "test" /\ call.pc = "lock" /\ lock = None
  BY DEF Races!GetMachine, Races!Acquire, RacesInvariant, Races!TypeOK, LocksOK
<1>2. call.event \in {"PASSED", "FAILED"} /\ ~call.stale
  BY <1>1 DEF Calls
<1>3. UNCHANGED <<behaviors, filed, machine, applied, failed, scheduled>>
  BY DEF Races!GetMachine
<1>4. scheduled => Settled /\ "AssertionError" \notin failed
  BY <1>1 DEF RacesInvariant, Before
<1>5. /\ next \in Races!State \cup {None}
      /\ next # None => machine = "sequestered" /\ next # "unauthenticated"
  BY <1>1, <1>2, HandledStates DEF RacesInvariant, Races!TypeOK, Races!Event
<1>6. CASE next = None
  BY <1>1, <1>3, <1>4, <1>6, FinishKeeps
        DEF Races!GetMachine, Settled, Agrees, RacesInvariant, Races!TypeOK
<1>7. CASE next # None
  <2>0. PICK c : c = [call EXCEPT !.pc = "enter", !.next = next]
    OBVIOUS
  <2>1. lock' = t /\ thread' = [thread EXCEPT ![t] = c]
    BY <1>7, <2>0 DEF Races!GetMachine, Races!Acquire
  <2>2. c \in Races!Local /\ c.pc = "enter" /\ c.event = call.event /\ c.stale = call.stale /\ c.next = next
    BY <1>1, <1>5, <2>0 DEF Races!Local
  <2>3. scheduled => HolderOK(c)'
    BY <1>2, <1>3, <1>4, <1>5, <1>7, <2>2
          DEF HolderOK, Settled, Agrees, Races!ConfigAssumption, Races!State
  <2> QED BY <1>1, <1>2, <1>3, <1>7, <2>1, <2>2, <2>3, InsideKeeps
        DEF Inside, RacesInvariant, Races!TypeOK
<1> QED BY <1>6, <1>7

LEMMA CheckKeeps ==
    ASSUME Races!ConfigAssumption, RacesInvariant, NEW t \in Thread, Races!Check(t)
    PROVE  RacesInvariant'
<1>1. thread[t] \in Races!Local /\ Calls(t) /\ thread[t].pc = "check" /\ ~thread[t].stale /\ t # "test"
  BY DEF Races!Check, RacesInvariant, Races!TypeOK, LocksOK, Calls
<1>2. UNCHANGED <<behaviors, filed, machine, applied, failed, scheduled>>
  BY DEF Races!Check
<1>3. scheduled /\ t # "sched" => HolderOK(thread[t]) /\ "AssertionError" \notin failed
  BY <1>1, Holding DEF Inside
<1>4. CASE machine = None
  <2>1. Settled'
    BY <1>2, <1>4 DEF Settled, Agrees, Races!ConfigAssumption, Races!State
  <2> QED BY <1>1, <1>2, <1>3, <1>4, <2>1, FinishKeeps
        DEF Races!Check, Inside, RacesInvariant, Races!TypeOK
<1>5. CASE machine # None
  <2>1. PICK c : c = [thread[t] EXCEPT !.pc = "index"]
    OBVIOUS
  <2>2. lock' = lock /\ thread' = [thread EXCEPT ![t] = c]
    BY <1>5, <2>1 DEF Races!Check, Races!Goto
  <2>3. c \in Races!Local /\ c.pc = "index" /\ c.event = thread[t].event /\ c.stale = thread[t].stale
    BY <1>1, <2>1 DEF Races!Local
  <2>4. scheduled /\ t # "sched" => HolderOK(c)'
    BY <1>1, <1>2, <1>3, <2>3 DEF HolderOK, Agrees
  <2> QED BY <1>1, <1>2, <2>2, <2>3, <2>4, InsideKeeps DEF Inside, RacesInvariant, Races!TypeOK
<1> QED BY <1>4, <1>5

LEMMA IndexKeeps ==
    ASSUME Races!ConfigAssumption, RacesInvariant, NEW t \in Thread, Races!Index(t)
    PROVE  RacesInvariant'
<1> DEFINE next == Races!NextState(machine, thread[t].event)
<1>1. thread[t] \in Races!Local /\ Calls(t) /\ thread[t].pc = "index" /\ ~thread[t].stale /\ t # "test"
  BY DEF Races!Index, RacesInvariant, Races!TypeOK, LocksOK, Calls
<1>2. UNCHANGED <<behaviors, filed, machine, applied, scheduled>>
  BY DEF Races!Index
<1>3. scheduled /\ t # "sched" => HolderOK(thread[t]) /\ "AssertionError" \notin failed
  BY <1>1, Holding DEF Inside
<1>4. CASE machine = None
  <2>1. Settled'
    BY <1>2, <1>4 DEF Settled, Agrees, Races!ConfigAssumption, Races!State
  <2>2. Races!Finish(t) /\ failed' = failed \cup {"KeyError"}
    BY <1>4 DEF Races!Index
  <2> QED BY <1>1, <1>2, <1>3, <2>1, <2>2, FinishKeeps DEF Inside, RacesInvariant, Races!TypeOK
<1>5. CASE machine # None
  <2>1. PICK c : c = [thread[t] EXCEPT !.pc = IF next = None THEN "after" ELSE "enter", !.next = next]
    OBVIOUS
  <2>2. lock' = lock /\ failed' = failed /\ thread' = [thread EXCEPT ![t] = c]
    BY <1>5, <2>1 DEF Races!Index
  <2>3. /\ next \in Races!State \cup {None}
        /\ next # None => (next = "unauthenticated" <=> thread[t].event = "deauthenticated")
        /\ next = None /\ thread[t].event = "deauthenticated" => machine \notin {"sequestered", "operational"}
    BY <1>1, HandledStates DEF RacesInvariant, Races!TypeOK, Races!Local
  <2> HIDE DEF next
  <2>4. /\ c \in Races!Local /\ c.event = thread[t].event /\ c.stale = thread[t].stale /\ c.next = next
        /\ c.pc = IF next = None THEN "after" ELSE "enter"
    BY <1>1, <2>1, <2>3 DEF Races!Local
  <2>5. scheduled /\ t # "sched" => HolderOK(c)'
    BY <1>1, <1>2, <1>3, <1>5, <2>3, <2>4 DEF HolderOK, Agrees, Settled
  <2> QED BY <1>1, <1>2, <2>2, <2>4, <2>5, InsideKeeps DEF Inside, RacesInvariant, Races!TypeOK
<1> QED BY <1>4, <1>5

LEMMA EnterKeeps ==
    ASSUME Races!ConfigAssumption, RacesInvariant, NEW t \in Thread, Races!Enter(t)
    PROVE  RacesInvariant'
<1>1. thread[t] \in Races!Local /\ Calls(t) /\ thread[t].pc = "enter"
  BY DEF Races!Enter, RacesInvariant, Races!TypeOK, LocksOK
<1>2. UNCHANGED <<lock, behaviors, filed, applied, failed, scheduled>>
  BY DEF Races!Enter
<1>3. scheduled /\ t # "sched" => HolderOK(thread[t]) /\ "AssertionError" \notin failed
  BY <1>1, Holding DEF Inside
<1>4. machine' = IF thread[t].stale THEN machine ELSE thread[t].next
  BY DEF Races!Enter
<1>5. PICK c : c = [thread[t] EXCEPT !.pc = "callback"]
  OBVIOUS
<1>6. thread' = [thread EXCEPT ![t] = c]
  BY <1>5 DEF Races!Enter, Races!Goto
<1>7. /\ c \in Races!Local /\ c.pc = "callback" /\ c.event = thread[t].event /\ c.stale = thread[t].stale
      /\ c.next = thread[t].next /\ c.next # None /\ c.next \in Races!State \cup {None}
  BY <1>1, <1>5 DEF Races!Local, Calls
<1>8. Leaving /\ thread[t].pc = "enter" => Leaving'
  BY <1>6, <1>7 DEF Leaving, RacesInvariant, Races!TypeOK
<1>9. scheduled /\ t # "sched" => HolderOK(c)'
  BY <1>1, <1>2, <1>3, <1>4, <1>7, <1>8 DEF HolderOK
<1> QED BY <1>1, <1>2, <1>4, <1>6, <1>7, <1>9, InsideKeeps DEF Inside, RacesInvariant, Races!TypeOK

LEMMA CallbackKeeps ==
    ASSUME Races!ConfigAssumption, RacesInvariant, NEW t \in Thread, Races!Callback(t)
    PROVE  RacesInvariant'
<1> DEFINE next == thread[t].next
           bare == next \in {"sequestered", "operational"} /\ behaviors = {}
<1>1. thread[t] \in Races!Local /\ Calls(t) /\ thread[t].pc = "callback" /\ next \in Races!State
  BY DEF Races!Callback, RacesInvariant, Races!TypeOK, LocksOK, Races!Local, Calls
<1>2. UNCHANGED <<behaviors, filed, machine, scheduled>>
  BY DEF Races!Callback
<1>3. scheduled /\ t # "sched" => HolderOK(thread[t]) /\ "AssertionError" \notin failed
  BY <1>1, Holding DEF Inside
<1>4. CASE bare
  <2>1. ~(scheduled /\ t # "sched")
    BY <1>1, <1>3, <1>4 DEF HolderOK
  <2>2. Races!Finish(t) /\ applied' = applied /\ failed' \subseteq failed \cup {"AssertionError", "AttributeError"}
    BY <1>4 DEF Races!Callback
  <2> QED BY <1>1, <1>2, <2>1, <2>2, FinishKeeps DEF Inside, RacesInvariant, Races!TypeOK
<1>5. CASE ~bare
  <2>1. PICK c : c = [thread[t] EXCEPT !.pc = "after"]
    OBVIOUS
  <2>2. lock' = lock /\ failed' = failed /\ thread' = [thread EXCEPT ![t] = c]
    BY <1>5, <2>1 DEF Races!Callback, Races!Goto
  <2>3. c \in Races!Local /\ c.pc = "after" /\ c.event = thread[t].event /\ c.stale = thread[t].stale
    BY <1>1, <2>1 DEF Races!Local
  <2>4. applied' = CASE next = "infracted" -> "nothing" [] next = "unauthenticated" -> applied [] OTHER -> next
    BY <1>5 DEF Races!Callback
  <2>5. scheduled /\ t # "sched" => HolderOK(c)'
    BY <1>1, <1>2, <1>3, <1>5, <2>3, <2>4
          DEF HolderOK, Agrees, Settled, Races!State, Races!ConfigAssumption
  <2> QED BY <1>1, <1>2, <2>2, <2>3, <2>4, <2>5, InsideKeeps
        DEF Inside, Races!State, RacesInvariant, Races!TypeOK
<1> QED BY <1>4, <1>5

LEMMA AfterKeeps ==
    ASSUME Races!ConfigAssumption, RacesInvariant, NEW t \in Thread, Races!After(t)
    PROVE  RacesInvariant'
<1>1. thread[t] \in Races!Local /\ Calls(t) /\ thread[t].pc = "after" /\ Races!Finish(t)
  BY DEF Races!After, RacesInvariant, Races!TypeOK, LocksOK
<1>2. UNCHANGED <<behaviors, filed, machine, failed, scheduled>>
  BY DEF Races!After
<1>3. scheduled /\ t # "sched" => HolderOK(thread[t]) /\ "AssertionError" \notin failed
  BY <1>1, Holding DEF Inside
<1>4. applied' = IF thread[t].event = "deauthenticated" THEN "nothing" ELSE applied
  BY DEF Races!After
<1>5. scheduled /\ t # "sched" => Settled'
  BY <1>1, <1>2, <1>3, <1>4 DEF HolderOK, Settled, Agrees
<1> QED BY <1>1, <1>2, <1>3, <1>4, <1>5, FinishKeeps DEF Inside, RacesInvariant, Races!TypeOK

LEMMA RacesStep == Races!ConfigAssumption /\ RacesInvariant /\ [Races!Next]_(Races!vars) => RacesInvariant'
<1> SUFFICES ASSUME Races!ConfigAssumption, RacesInvariant, [Races!Next]_(Races!vars) PROVE RacesInvariant'
  OBVIOUS
<1>1. CASE Races!AuthResult \/ Races!FileChange \/ Races!TestResult
  BY <1>1, CallKeeps
<1>2. CASE Races!ScheduledSequester
  BY <1>2, ScheduleKeeps
<1>3. CASE Races!Learned \/ Races!LearnBehavior \/ Races!LearnKind
  BY <1>3, LearnKeeps
<1>4. CASE Races!Disconnected
  BY <1>4, DisconnectKeeps
<1>5. ASSUME NEW t \in Thread, Races!Store(t) \/ Races!GetMachine(t) \/ Races!Check(t) \/ Races!Index(t)
      PROVE  RacesInvariant'
  BY <1>5, StoreKeeps, GetMachineKeeps, CheckKeeps, IndexKeeps
<1>6. ASSUME NEW t \in Thread, Races!Enter(t) \/ Races!Callback(t) \/ Races!After(t) PROVE RacesInvariant'
  BY <1>6, EnterKeeps, CallbackKeeps, AfterKeeps
<1>7. CASE UNCHANGED Races!vars
  BY <1>7
        DEF Races!vars, RacesInvariant, Races!TypeOK, LocksOK, Calls, Before, HolderOK, Settled, Agrees, Leaving
<1> QED BY <1>1, <1>2, <1>3, <1>4, <1>5, <1>6, <1>7 DEF Races!Next

\* However the threads interleave at their accesses to the dictionaries, the lock is given
\* back, and until the scheduled sequestering fires quiet handlers leave a device in a state
\* that its behaviours and its access agree with, and no operational device is without a
\* behaviour (the handlers of port_state_manager.py under _lock, and those without it).
THEOREM HandlersAgree == ASSUME Races!ConfigAssumption PROVE Races!Spec => []Races!Inv
<1>1. RacesInvariant => Races!Inv
  <2> SUFFICES ASSUME RacesInvariant PROVE Races!Inv
    OBVIOUS
  <2>1. ASSUME Races!Quiet, scheduled PROVE Settled
    BY <2>1 DEF RacesInvariant, Races!Quiet, LocksOK, Races!TypeOK, Before, Inside
  <2> QED BY <2>1
        DEF RacesInvariant, Races!Inv, Races!SettledAccess, Races!LockReleased, Races!AssertionHolds, Settled, Agrees, LocksOK,
                      Before, Inside
<1> QED BY <1>1, RacesInit, RacesStep, PTL DEF Races!Spec

=============================================================================
