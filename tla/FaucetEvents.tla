----------------------------- MODULE FaucetEvents -----------------------------
(***************************************************************************)
(* The event client of forch/faucet_event_client.py, in the main loop of   *)
(* forch/forchestrator.py: it connects to the event socket of Faucet,      *)
(* restores the state from the metrics of Faucet, and hands the events     *)
(* after that point to the state collector, in order.  A port that goes    *)
(* down is reported only after a debounce time, by a timer thread that     *)
(* appends the event to the buffer of the main loop.                       *)
(*                                                                         *)
(* The state of Faucet is one Boolean per cell: a port that is up, or any  *)
(* other thing that an event reports (a learned host).                     *)
(***************************************************************************)
EXTENDS Naturals, Sequences, SequencesExt, FiniteSets

CONSTANTS
    Port,       \* the ports; their events are debounced
    Other,      \* the other things that events report
    Timer,      \* bound: the debounce timers that can exist at a time
    MaxEvents,  \* bound: events of one run of Faucet
    MaxFaults,  \* bound: connections closed, events dropped, failed scrapes
    None        \* no such value

Cell == Port \cup Other
State == [Cell -> BOOLEAN]

\* Without an id: an event that the client itself appended, marked as debounced.
Event == [id : (1 .. MaxEvents) \cup {None}, cell : Cell, value : BOOLEAN]

\* A debounce timer: its port, and how far its thread has come.
Thread == [port : Port, phase : {"running", "fired", "untracked"}]

ASSUME ConfigAssumption ==
    /\ Port \cap Other = {}
    /\ None \notin Timer \cup BOOLEAN \cup Nat \cup Cell
    /\ None \notin State \cup [Other -> BOOLEAN]
    /\ None \notin Seq(Event)
    /\ None \notin Thread
    /\ MaxEvents \in Nat \ {0}
    /\ MaxFaults \in Nat

VARIABLES
    history,     \* the states of Faucet, by the id of the event that reports each
    link,        \* Faucet has this client's connection open
    channel,     \* the events in the socket
    faults,      \* how many faults have happened
    dropped,     \* an event was lost on a connection, or a scrape failed
    loop,        \* where the main loop is
    buffer,      \* the complete events of the buffer, or None
    lastEventId, \* _last_event_id
    previous,    \* previous_state: the state of a port that was handed on last
    tracked,     \* _port_timers
    timer,       \* the port and the phase of each timer thread
    restored,    \* _is_state_restored of the collector
    view,        \* the state the collector holds
    overtaken    \* timers of the port outlive the up event, or connection, seen last

faucet == <<history, link, channel, faults, dropped>>
timers == <<tracked, timer>>
collector == <<restored, view>>
vars == <<faucet, loop, buffer, lastEventId, previous, timers, collector, overtaken>>

Init ==
    /\ history \in {<<s>> : s \in State}
    /\ link = FALSE
    /\ channel = <<>>
    /\ faults = 0
    /\ dropped = FALSE
    /\ loop = "connect"
    /\ buffer = None
    /\ lastEventId = None
    /\ previous = [p \in Port |-> None]
    /\ tracked = [p \in Port |-> None]
    /\ timer = [t \in Timer |-> None]
    /\ restored = FALSE
    /\ view = [c \in Cell |-> FALSE]
    /\ overtaken = [p \in Port |-> FALSE]

-----------------------------------------------------------------------------
(* Faucet. *)

\* An event goes to the socket if there is a connection; Faucet may drop it.
Publish(c, v) ==
    LET id == Len(history) + 1
        event == [id |-> id, cell |-> c, value |-> v]
    IN  /\ id <= MaxEvents
        /\ history' = Append(history, [Last(history) EXCEPT ![c] = v])
        /\ \/ /\ channel' = IF link THEN Append(channel, event) ELSE channel
              /\ UNCHANGED <<faults, dropped>>
           \/ /\ link
              /\ faults < MaxFaults
              /\ faults' = faults + 1
              /\ dropped' = TRUE
              /\ UNCHANGED channel
        /\ UNCHANGED <<link, loop, buffer, lastEventId, previous, timers, collector, overtaken>>

CloseConnection ==
    /\ link
    /\ faults < MaxFaults
    /\ faults' = faults + 1
    /\ link' = FALSE
    /\ UNCHANGED <<history, channel, dropped, loop, buffer, lastEventId, previous, timers,
                   collector, overtaken>>

\* The events of a new Faucet are numbered from the beginning.
RestartFaucet ==
    /\ faults < MaxFaults
    /\ faults' = faults + 1
    /\ history' \in {<<s>> : s \in State}
    /\ link' = FALSE
    /\ UNCHANGED <<channel, dropped, loop, buffer, lastEventId, previous, timers, collector,
                   overtaken>>

-----------------------------------------------------------------------------
(* The main loop: connection and restoration. *)

\* The timers of an earlier connection keep running.
Connect ==
    /\ loop = "connect"
    /\ loop' = "restore"
    /\ link' = TRUE
    /\ channel' = <<>>
    /\ buffer' = <<>>
    /\ previous' = [p \in Port |-> None]
    /\ overtaken' = [p \in Port |-> \E t \in Timer : timer[t] # None /\ timer[t].port = p]
    /\ UNCHANGED <<history, faults, dropped, lastEventId, timers, collector>>

\* Faucet cannot be reached: the collector is told; the buffer is there all the same.
ConnectFails ==
    /\ loop = "connect"
    /\ faults < MaxFaults
    /\ faults' = faults + 1
    /\ restored' = FALSE
    /\ buffer' = <<>>
    /\ previous' = [p \in Port |-> None]
    /\ UNCHANGED <<history, link, channel, dropped, loop, lastEventId, timers, view, overtaken>>

SetEventHorizon(horizon) == lastEventId' = horizon

\* Mutant: an event horizon that exists already is kept.
ScrapeKeepsHorizon ==
    /\ view' = Last(history)
    /\ lastEventId' = IF lastEventId = None THEN Len(history) ELSE lastEventId
    /\ loop' = "run"
    /\ UNCHANGED <<faucet, buffer, previous, timers, overtaken>>

\* _restore_states takes the state and the event horizon from one scrape.
Scrape ==
    /\ view' = Last(history)
    /\ SetEventHorizon(Len(history))
    /\ loop' = "run"
    /\ UNCHANGED <<faucet, buffer, previous, timers, overtaken>>

Restore == loop = "restore" /\ Scrape /\ restored' = TRUE

\* After an event out of order the collector is not told that it is restored.
Resync == loop = "resync" /\ Scrape /\ UNCHANGED restored

\* _get_varz_config: the metrics cannot be read, or tell of an error in the configuration.
VarzFails ==
    /\ faults < MaxFaults
    /\ faults' = faults + 1
    /\ dropped' = TRUE

\* A scrape that fails leaves the new connection open; after an event out of order
\* the exception ends the main loop.
ScrapeFails ==
    /\ loop \in {"restore", "resync"}
    /\ VarzFails
    /\ IF loop = "restore"
       THEN loop' = "run" /\ restored' = FALSE
       ELSE loop' = "ended" /\ UNCHANGED restored
    /\ UNCHANGED <<history, link, channel, buffer, lastEventId, previous, timers, view, overtaken>>

-----------------------------------------------------------------------------
(* The main loop: has_event and next_event. *)

\* The loop blocks in recv when the buffer is empty, and stays there whatever a
\* timer appends, until Faucet sends something or closes the connection.
Block ==
    /\ loop = "run"
    /\ buffer = <<>>
    /\ loop' = "recv"
    /\ UNCHANGED <<faucet, buffer, lastEventId, previous, timers, collector, overtaken>>

Receive ==
    /\ loop = "recv"
    /\ channel # <<>>
    /\ channel' = Tail(channel)
    /\ buffer' = Append(buffer, Head(channel))
    /\ loop' = "run"
    /\ UNCHANGED <<history, link, faults, dropped, lastEventId, previous, timers, collector,
                   overtaken>>

Disconnect ==
    /\ loop = "recv"
    /\ channel = <<>>
    /\ ~link
    /\ buffer' = None
    /\ loop' = "connect"
    /\ UNCHANGED <<faucet, lastEventId, previous, timers, collector, overtaken>>

Next1(e) == loop = "run" /\ buffer # None /\ buffer # <<>> /\ e = Head(buffer)

\* process_port_change of the collector; what a port that goes down means to its device is
\* in PortStateManager.
ProcessPortChange(p, up) == view' = [view EXCEPT ![p] = up]

\* A debounced event is handed on unless it repeats the one before it.
HandleDebounced(e) ==
    /\ e.id = None
    /\ buffer' = Tail(buffer)
    /\ previous' = [previous EXCEPT ![e.cell] = e.value]
    /\ IF previous[e.cell] = e.value THEN UNCHANGED view ELSE ProcessPortChange(e.cell, e.value)
    /\ UNCHANGED <<loop, lastEventId, timers, restored, overtaken>>

\* Without an event horizon an assertion ends the main loop.
HandleUninitialized(e) ==
    /\ e.id # None
    /\ lastEventId = None
    /\ loop' = "ended"
    /\ buffer' = Tail(buffer)
    /\ UNCHANGED <<lastEventId, previous, timers, collector, overtaken>>

Fresh(e) == e.id # None /\ lastEventId # None /\ e.id > lastEventId

HandleOutdated(e) ==
    /\ e.id # None
    /\ lastEventId # None
    /\ e.id <= lastEventId
    /\ buffer' = Tail(buffer)
    /\ UNCHANGED <<loop, lastEventId, previous, timers, collector, overtaken>>

\* Mutant: a gap in the numbers of the events is passed over.
HandleOutOfOrderSkips(e) ==
    /\ Fresh(e)
    /\ e.id # lastEventId + 1
    /\ lastEventId' = e.id
    /\ buffer' = Tail(buffer)
    /\ UNCHANGED <<loop, previous, timers, collector, overtaken>>

HandleOutOfOrder(e) ==
    /\ Fresh(e)
    /\ e.id # lastEventId + 1
    /\ lastEventId' = lastEventId + 1
    /\ buffer' = Tail(buffer)
    /\ loop' = "resync"
    /\ UNCHANGED <<previous, timers, collector, overtaken>>

HandleOther(e) ==
    /\ Fresh(e)
    /\ e.id = lastEventId + 1
    /\ e.cell \in Other
    /\ lastEventId' = e.id
    /\ buffer' = Tail(buffer)
    /\ view' = [view EXCEPT ![e.cell] = e.value]
    /\ UNCHANGED <<loop, previous, timers, restored, overtaken>>

Of(p, t) == timer[t] # None /\ timer[t].port = p

\* cancel() has no effect on a timer whose callback has begun.
TooLate(p, t) == Of(p, t) /\ ~(t = tracked[p] /\ timer[t].phase = "running")

\* Mutant: the timer of the port is not cancelled.
CancelledNever(p) == timer

Cancelled(p) == [t \in Timer |-> IF Of(p, t) /\ ~TooLate(p, t) THEN None ELSE timer[t]]

\* _append_event: after the events that are complete.
Appended(events, p, up) == Append(events, [id |-> None, cell |-> p, value |-> up])

\* _debounce_port_event: up is appended at once, down by a timer.
HandlePort(e) ==
    /\ Fresh(e)
    /\ e.id = lastEventId + 1
    /\ e.cell \in Port
    /\ lastEventId' = e.id
    /\ LET p == e.cell IN
       \/ /\ e.value
          /\ tracked' = [tracked EXCEPT ![p] = None]
          /\ timer' = Cancelled(p)
          /\ buffer' = Appended(Tail(buffer), p, TRUE)
          /\ overtaken' = [overtaken EXCEPT ![p] = \E t \in Timer : TooLate(p, t)]
       \/ /\ ~e.value
          /\ \E t \in Timer :
                /\ timer[t] = None
                /\ tracked' = [tracked EXCEPT ![p] = t]
                /\ timer' = [Cancelled(p) EXCEPT ![t] = [port |-> p, phase |-> "running"]]
          /\ buffer' = Tail(buffer)
          /\ UNCHANGED overtaken
    /\ UNCHANGED <<loop, previous, collector>>

NextEvent ==
    \E e \in Event :
        /\ Next1(e)
        /\ UNCHANGED faucet
        /\ \/ HandleDebounced(e)
           \/ HandleUninitialized(e)
           \/ HandleOutdated(e)
           \/ HandleOutOfOrder(e)
           \/ HandleOther(e)
           \/ HandlePort(e)

-----------------------------------------------------------------------------
(* The timer threads: _handle_debounce takes the buffer lock twice. *)

Phase(t, phase) == timer[t] # None /\ timer[t].phase = phase

Expire(t) ==
    /\ Phase(t, "running")
    /\ timer' = [timer EXCEPT ![t].phase = "fired"]
    /\ UNCHANGED <<faucet, loop, buffer, lastEventId, previous, tracked, collector, overtaken>>

\* The entry removed may be that of a newer timer of the port.
Untrack(t) ==
    /\ Phase(t, "fired")
    /\ timer' = [timer EXCEPT ![t].phase = "untracked"]
    /\ tracked' = [tracked EXCEPT ![timer[t].port] = None]
    /\ UNCHANGED <<faucet, loop, buffer, lastEventId, previous, collector, overtaken>>

\* Without a connection there is no buffer: the thread ends with an exception.
AppendDown(t) ==
    /\ Phase(t, "untracked")
    /\ timer' = [timer EXCEPT ![t] = None]
    /\ buffer' = IF buffer = None THEN None
                 ELSE Appended(buffer, timer[t].port, FALSE)
    /\ UNCHANGED <<faucet, loop, lastEventId, previous, tracked, collector, overtaken>>

Debounce == \E t \in Timer : Expire(t) \/ Untrack(t) \/ AppendDown(t)

Next ==
    \/ \E c \in Cell, v \in BOOLEAN : Publish(c, v)
    \/ CloseConnection
    \/ RestartFaucet
    \/ Connect
    \/ ConnectFails
    \/ Restore
    \/ Resync
    \/ ScrapeFails
    \/ Block
    \/ Receive
    \/ Disconnect
    \/ NextEvent
    \/ Debounce

Spec == Init /\ [][Next]_vars

-----------------------------------------------------------------------------
(* Properties. *)

Loop == {"connect", "restore", "resync", "run", "recv", "ended"}

\* _get_port_state: what is shown of a port.
PortState(p) == IF view[p] THEN "up" ELSE "down"

\* The types of all variables.
TypeOK ==
    /\ history \in Seq(State) \ {<<>>}
    /\ Len(history) <= MaxEvents
    /\ link \in BOOLEAN
    /\ channel \in Seq(Event)
    /\ faults \in 0 .. MaxFaults
    /\ dropped \in BOOLEAN
    /\ loop \in Loop
    /\ buffer \in Seq(Event) \cup {None}
    /\ loop \in {"run", "recv", "restore", "resync"} => buffer # None
    /\ lastEventId \in (1 .. MaxEvents) \cup {None}
    /\ previous \in [Port -> BOOLEAN \cup {None}]
    /\ tracked \in [Port -> Timer \cup {None}]
    /\ timer \in [Timer -> Thread \cup {None}]
    /\ restored \in BOOLEAN
    /\ view \in State
    /\ overtaken \in [Port -> BOOLEAN]

\* The collector is synchronised: connected, restored, and not about to scrape again.
Synchronised == restored /\ link /\ loop \in {"run", "recv"}

\* What events report other than ports, restricted to a state.
OtherPart(s) == [c \in Other |-> s[c]]

Replica == INSTANCE EventReplica WITH
    State <- [Other -> BOOLEAN],
    history <- [i \in 1 .. Len(history) |-> OtherPart(history[i])],
    position <- IF Synchronised THEN lastEventId ELSE 0,
    replica <- IF Synchronised THEN OtherPart(view) ELSE None

\* The client keeps the collector a replica of Faucet (next_event, _valid_event_order,
\* _restore_states): it follows the events one by one from the horizon on, whatever is
\* lost, repeated or numbered anew, and starts over from a scrape when it loses track.
ImplementsReplica == Replica!Spec

\* A synchronised collector knows of everything but ports what Faucet reported up to the
\* last event accepted (the comment in _restore_states: no loss of events in between).
OthersInOrder ==
    Synchronised =>
        /\ lastEventId \in 1 .. Len(history)
        /\ OtherPart(view) = OtherPart(history[lastEventId])

\* Everything that Faucet sent has been read and no timer is left.
Quiet ==
    /\ Synchronised
    /\ loop = "recv"
    /\ channel = <<>>
    /\ buffer = <<>>
    /\ \A t \in Timer : timer[t] = None

\* Not promised by the code (README, section 4.2): the loop blocks in recv although a timer
\* has appended an event; a port that is up in the end is reported up.
NoEventWaits == loop = "recv" => buffer = <<>>
QuietPortsUp == Quiet => \A p \in Port : Last(history)[p] => PortState(p) = "up"

\* When all is quiet the collector has the real state of every port that is down, and of
\* every port that is up unless a timer's callback was overtaken (_debounce_port_event,
\* _process_state_update): debouncing delays a port's state, it never replaces it.  Holds
\* without dropped events: see previous_state in the README.
QuietPortsAreRight ==
    Quiet /\ ~dropped =>
        \A p \in Port :
            /\ ~Last(history)[p] => PortState(p) = "down"
            /\ Last(history)[p] /\ ~overtaken[p] => PortState(p) = "up"

\* The invariant of the client: the types, and the ports.
Inv == TypeOK /\ QuietPortsAreRight

=============================================================================
