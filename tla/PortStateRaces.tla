---------------------------- MODULE PortStateRaces ----------------------------
(***************************************************************************)
(* The threads of the port state manager, for one device on one port, at   *)
(* the grain of their accesses to the shared dictionaries.  PortStateManager *)
(* takes each handler as one step; here a handler is a sequence of steps,  *)
(* and only those that run under the manager's lock exclude each other:    *)
(*   event   the Faucet event loop: the device is learned or disconnected  *)
(*   auth    a RADIUS result                                               *)
(*   file    the watcher of the static behaviour file                      *)
(*   test    a result of the testing service                               *)
(*   sched   the timer of a scheduled sequestering                         *)
(* learning, disconnecting and scheduled sequestering take no lock.        *)
(***************************************************************************)
CONSTANTS
    Thread,         \* the threads that run, of the five above
    AutoSequester,  \* the device is tested before it becomes operational
    None

State == {"unauthenticated", "sequestered", "operational", "infracted"}
Event == {"cleared", "sequestered", "deauthenticated", "manual_sequestered",
          "PASSED", "FAILED"}
Kind == {"static", "dynamic"}

ASSUME ConfigAssumption ==
    /\ Thread \subseteq {"event", "auth", "file", "test", "sched"}
    /\ AutoSequester \in BOOLEAN
    /\ None \notin Thread \cup State \cup Event \cup Kind

VARIABLES
    lock,      \* the thread that holds PortStateManager._lock, or None
    behaviors, \* the kinds of behaviour known: the keys of the two dictionaries
    filed,     \* the static behaviour file has an entry for the device
    machine,   \* the state of the state machine in _state_machines, or None
    applied,   \* what the device state manager was told last
    thread,    \* where each thread is in its handler
    failed,    \* the exceptions that have left a handler
    scheduled  \* the timer of the scheduled sequestering has not fired yet

vars == <<lock, behaviors, filed, machine, applied, thread, failed, scheduled>>

\* `kind' and `event' are those of the handler's call; `next' is the state that the
\* machine the thread holds is to enter, and `stale' says that this machine is not
\* the one in the dictionary any more.
Local == [pc : {"idle", "learn", "kind", "lock", "check", "index", "enter",
                "callback", "after"},
          kind : Kind, event : Event, stale : BOOLEAN, next : State \cup {None}]

Idle == [pc |-> "idle", kind |-> "dynamic", event |-> "cleared",
         stale |-> FALSE, next |-> None]

NextState(state, event) ==
    CASE state = "unauthenticated" /\ event = "cleared"        -> "operational"
      [] state = "unauthenticated" /\ event = "sequestered"    -> "sequestered"
      [] state = "sequestered" /\ event = "deauthenticated"    -> "unauthenticated"
      [] state = "sequestered" /\ event = "PASSED"             -> "operational"
      [] state = "sequestered" /\ event = "FAILED"             -> "infracted"
      [] state = "operational" /\ event = "cleared"            -> "operational"
      [] state = "operational" /\ event = "deauthenticated"    -> "unauthenticated"
      [] state = "operational" /\ event = "manual_sequestered" -> "sequestered"
      [] OTHER                                                 -> None

Granting == IF AutoSequester THEN "sequestered" ELSE "cleared"

Init ==
    /\ lock = None
    /\ behaviors = {}
    /\ filed = FALSE
    /\ machine = None
    /\ applied = "nothing"
    /\ thread = [t \in Thread |-> Idle]
    /\ failed = {}
    /\ scheduled = TRUE

Goto(t, pc) == thread' = [thread EXCEPT ![t].pc = pc]

\* The handler of t ends, and with it the lock, if t holds it.
Finish(t) ==
    /\ thread' = [thread EXCEPT ![t] = Idle]
    /\ lock' = IF lock = t THEN None ELSE lock

Call(t, pc, kind, event) ==
    /\ thread[t].pc = "idle"
    /\ thread' = [thread EXCEPT ![t] = [Idle EXCEPT !.pc = pc, !.kind = kind, !.event = event]]

-----------------------------------------------------------------------------
(* The threads call the handlers. *)

\* A RADIUS result: the device is accepted, or denied.
AuthResult ==
    /\ "auth" \in Thread
    /\ \E event \in {Granting, "deauthenticated"} : Call("auth", "lock", "dynamic", event)
    /\ UNCHANGED <<lock, behaviors, filed, machine, applied, failed, scheduled>>

\* The file gains or changes the device's entry, or loses it.
FileChange ==
    /\ "file" \in Thread
    /\ \/ filed' = TRUE /\ Call("file", "lock", "static", Granting)
       \/ /\ filed /\ filed' = FALSE
          /\ IF "static" \in behaviors
             THEN Call("file", "lock", "static", "deauthenticated")
             ELSE thread["file"].pc = "idle" /\ UNCHANGED thread
    /\ UNCHANGED <<lock, behaviors, machine, applied, failed, scheduled>>

TestResult ==
    /\ "test" \in Thread
    /\ \E event \in {"PASSED", "FAILED"} : Call("test", "lock", "dynamic", event)
    /\ UNCHANGED <<lock, behaviors, filed, machine, applied, failed, scheduled>>

\* The timer fires, which the file set once.
ScheduledSequester ==
    /\ "sched" \in Thread
    /\ scheduled
    /\ scheduled' = FALSE
    /\ Call("sched", "check", "dynamic", "manual_sequestered")
    /\ UNCHANGED <<lock, behaviors, filed, machine, applied, failed>>

\* A learned device without a state machine gets one, whose callback only
\* reports the state.
Learned ==
    /\ "event" \in Thread
    /\ machine = None
    /\ Call("event", "learn", "dynamic", Granting)
    /\ machine' = "unauthenticated"
    /\ UNCHANGED <<lock, behaviors, filed, applied, failed, scheduled>>

\* The state machine goes, whoever is working on it, and the authenticator ends
\* the device's session, which takes its dynamic behaviour away.
Disconnected ==
    /\ "event" \in Thread /\ thread["event"].pc = "idle"
    /\ machine # None
    /\ machine' = None
    /\ thread' = [t \in Thread |->
                    IF t = "event"
                    THEN [Idle EXCEPT !.pc = "lock", !.event = "deauthenticated"]
                    ELSE [thread[t] EXCEPT !.stale = thread[t].pc = "enter"]]
    /\ UNCHANGED <<lock, behaviors, filed, applied, failed, scheduled>>

-----------------------------------------------------------------------------
(* The steps of the handlers. *)

\* _handle_learned_device picks the behaviour it knows of the device, if any,
LearnBehavior ==
    /\ "event" \in Thread /\ thread["event"].pc = "learn"
    /\ IF behaviors = {} THEN thread' = [thread EXCEPT !["event"] = Idle]
                         ELSE Goto("event", "kind")
    /\ UNCHANGED <<lock, behaviors, filed, machine, applied, failed, scheduled>>

\* looks again what kind it is, and handles it as if it had just been learned.
LearnKind ==
    /\ "event" \in Thread /\ thread["event"].pc = "kind"
    /\ thread' = [thread EXCEPT !["event"].pc = "lock",
                    !["event"].kind = IF "static" \in behaviors THEN "static" ELSE "dynamic"]
    /\ UNCHANGED <<lock, behaviors, filed, machine, applied, failed, scheduled>>

\* Mutant: the handlers take no lock.
AcquireNothing(t) == thread[t].pc = "lock" /\ UNCHANGED lock

Acquire(t) == thread[t].pc = "lock" /\ lock = None /\ lock' = t

\* The behaviour is stored, or dropped; the loss of a dynamic one is ignored while
\* there is a static one.
Store(t) ==
    LET call == thread[t]
        known == IF call.event = "deauthenticated" THEN behaviors \ {call.kind}
                                                   ELSE behaviors \cup {call.kind}
        ignored == call.event = "deauthenticated" /\ call.kind = "dynamic"
                   /\ "static" \in known
    IN  /\ t # "test"
        /\ IF ignored THEN thread[t].pc = "lock" /\ lock = None /\ Finish(t)
                      ELSE Acquire(t) /\ Goto(t, "check")
        /\ behaviors' = known
        /\ UNCHANGED <<filed, machine, applied, failed, scheduled>>

\* _handle_session_result gets the machine, under the lock and in one access, and
\* looks at its transitions.
GetMachine(t) ==
    LET next == NextState(machine, thread[t].event) IN
    /\ t = "test"
    /\ IF next = None THEN thread[t].pc = "lock" /\ lock = None /\ Finish(t)
       ELSE /\ Acquire(t)
            /\ thread' = [thread EXCEPT ![t].pc = "enter", ![t].next = next]
    /\ UNCHANGED <<behaviors, filed, machine, applied, failed, scheduled>>

\* mac in self._state_machines
Check(t) ==
    /\ thread[t].pc = "check"
    /\ IF machine = None THEN Finish(t) ELSE Goto(t, "index") /\ UNCHANGED lock
    /\ UNCHANGED <<behaviors, filed, machine, applied, failed, scheduled>>

\* self._state_machines[mac], and the look at its transitions.
Index(t) ==
    LET next == NextState(machine, thread[t].event) IN
    /\ thread[t].pc = "index"
    /\ IF machine = None THEN failed' = failed \cup {"KeyError"} /\ Finish(t)
       ELSE /\ thread' = [thread EXCEPT ![t].pc = IF next = None THEN "after" ELSE "enter",
                                       ![t].next = next]
            /\ UNCHANGED <<lock, failed>>
    /\ UNCHANGED <<behaviors, filed, machine, applied, scheduled>>

\* The machine the thread holds enters the state it was found to go to.
Enter(t) ==
    /\ thread[t].pc = "enter"
    /\ machine' = IF thread[t].stale THEN machine ELSE thread[t].next
    /\ Goto(t, "callback")
    /\ UNCHANGED <<lock, behaviors, filed, applied, failed, scheduled>>

\* The callback of that state, which goes by the device and not by the machine.
Callback(t) ==
    LET next == thread[t].next IN
    /\ thread[t].pc = "callback"
    /\ IF next \in {"sequestered", "operational"} /\ behaviors = {}
       THEN /\ failed' = failed \cup {IF next = "operational" THEN "AssertionError"
                                                            ELSE "AttributeError"}
            /\ Finish(t)
            /\ UNCHANGED applied
       ELSE /\ applied' = CASE next = "infracted" -> "nothing"
                            [] next = "unauthenticated" -> applied
                            [] OTHER -> next
            /\ Goto(t, "after")
            /\ UNCHANGED <<lock, failed>>
    /\ UNCHANGED <<behaviors, filed, machine, scheduled>>

\* A deauthenticated device loses its access, whatever its machine did.
After(t) ==
    /\ thread[t].pc = "after"
    /\ applied' = IF thread[t].event = "deauthenticated" THEN "nothing" ELSE applied
    /\ Finish(t)
    /\ UNCHANGED <<behaviors, filed, machine, failed, scheduled>>

Next ==
    \/ AuthResult
    \/ FileChange
    \/ TestResult
    \/ ScheduledSequester
    \/ Learned
    \/ Disconnected
    \/ LearnBehavior
    \/ LearnKind
    \/ \E t \in Thread : \/ Store(t)
                        \/ GetMachine(t)
                        \/ Check(t)
                        \/ Index(t)
                        \/ Enter(t)
                        \/ Callback(t)
                        \/ After(t)

Spec == Init /\ [][Next]_vars

-----------------------------------------------------------------------------
(* Properties. *)

TypeOK ==
    /\ lock \in Thread \cup {None}
    /\ behaviors \subseteq Kind
    /\ filed \in BOOLEAN
    /\ machine \in State \cup {None}
    /\ applied \in {"nothing", "sequestered", "operational"}
    /\ thread \in [Thread -> Local]
    /\ failed \subseteq {"KeyError", "AttributeError", "AssertionError"}
    /\ scheduled \in BOOLEAN

Quiet == \A t \in Thread : thread[t].pc = "idle"

\* However the handlers that take the lock interleave, when they are done a sequestered
\* or operational device is authorised and has the access of its state, and an infracted
\* one none.  The scheduled sequestering takes no lock: nothing is promised after it.
SettledAccess ==
    Quiet /\ scheduled =>
        /\ machine \in {"sequestered", "operational"} => behaviors # {} /\ applied = machine
        /\ machine = "infracted" => applied = "nothing"

\* A handler gives the lock back, also when it fails half way: whoever has it is in the
\* middle of a handler, and so the others do not wait for ever.
LockReleased ==
    lock # None => thread[lock].pc \in {"check", "index", "enter", "callback", "after"}

\* The assertion of _set_port_operational, an operational device has a behaviour, until
\* the scheduled sequestering.
AssertionHolds == scheduled => "AssertionError" \notin failed

\* The invariant of the module: the types, what settled handlers leave behind, the lock,
\* and the assertion.
Inv == TypeOK /\ SettledAccess /\ LockReleased /\ AssertionHolds

-----------------------------------------------------------------------------
(* Not guaranteed by the code (README, section 4.2). *)

\* The assertion, whoever runs: refuted, the scheduled sequestering and a deauthentication
\* bring the device to operational without a behaviour.
AssertionAlwaysHolds == "AssertionError" \notin failed

\* A static behaviour that the file no longer has is gone once the handlers are.
ClearedStaysCleared == Quiet => ("static" \in behaviors => filed)

=============================================================================
