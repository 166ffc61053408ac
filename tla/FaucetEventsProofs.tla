-------------------------- MODULE FaucetEventsProofs --------------------------
(***************************************************************************)
(* What is proved of FaucetEvents for every set of ports, of other things  *)
(* and of timers, every number of events and every number of faults: that  *)
(* the client keeps a replica of Faucet (EventReplica).                    *)
(***************************************************************************)
EXTENDS FaucetEvents, TLAPS

-----------------------------------------------------------------------------
(* Types. *)

LEMMA Bounds == MaxEvents \in Nat \ {0} /\ MaxFaults \in Nat
BY ConfigAssumption

LEMMA NoneIsNoBuffer == None \notin Seq(Event)
BY ConfigAssumption

LEMMA NoneIsNoState == None \notin [Other -> BOOLEAN]
BY ConfigAssumption

LEMMA NoneIsNoTimer == None \notin Timer
BY ConfigAssumption

LEMMA NoneIsNoThread == None \notin Thread
BY ConfigAssumption

LEMMA NoneIsNoBoolean == None # TRUE /\ None # FALSE
BY ConfigAssumption

LEMMA NoneIsNoId == None \notin Nat
BY ConfigAssumption

LEMMA TypeInit == Init => TypeOK
<1> SUFFICES ASSUME Init PROVE TypeOK
  OBVIOUS
<1>1. PICK s \in State : history = <<s>>
  BY DEF Init
<1>2. history \in Seq(State) /\ history # <<>> /\ Len(history) = 1
  BY <1>1
<1>3. faults \in 0 .. MaxFaults
  BY Bounds DEF Init
<1>4. Len(history) <= MaxEvents
  BY <1>2, Bounds
<1>5. view \in State
  BY DEF Init, State
<1>6. channel \in Seq(Event) /\ loop \in Loop /\ loop = "connect"
  BY DEF Init, Loop
<1>7. loop \notin {"run", "recv", "restore", "resync"}
  BY <1>6
<1> QED BY <1>2, <1>3, <1>4, <1>5, <1>6, <1>7, Zenon DEF Init, TypeOK

\* The last state of a history is a state.
LEMMA LastState ==
    ASSUME TypeOK
    PROVE  Last(history) \in State /\ Len(history) \in 1 .. MaxEvents
BY Bounds, NoneIsNoBuffer DEF TypeOK, Last

LEMMA TypeFaucet ==
    ASSUME TypeOK,
           \/ \E c \in Cell, v \in BOOLEAN : Publish(c, v)
           \/ CloseConnection
           \/ RestartFaucet
    PROVE  TypeOK'
<1>1. ASSUME NEW c \in Cell, NEW v \in BOOLEAN, Publish(c, v)
      PROVE  TypeOK'
  <2> DEFINE s == [Last(history) EXCEPT ![c] = v]
             e == [id |-> Len(history) + 1, cell |-> c, value |-> v]
  <2>1. s \in State
    BY LastState DEF State
  <2>2. e \in Event
    BY <1>1, LastState DEF Publish, Event
  <2>3. history' \in Seq(State) /\ history' # <<>> /\ Len(history') <= MaxEvents
    <3>1. history' = Append(history, s) /\ Len(history) + 1 <= MaxEvents
      BY <1>1 DEF Publish
    <3> QED BY <2>1, <3>1 DEF TypeOK
  <2>4. channel' \in Seq(Event)
    <3>1. channel' = channel \/ channel' = Append(channel, e)
      BY <1>1 DEF Publish
    <3>2. channel \in Seq(Event)
      BY DEF TypeOK
    <3>3. Append(channel, e) \in Seq(Event)
      <4> HIDE DEF e
      <4> QED BY <2>2, <3>2
    <3> QED BY <3>1, <3>2, <3>3
  <2>5. faults' \in 0 .. MaxFaults
    BY <1>1, Bounds DEF Publish, TypeOK
  <2>6. dropped' \in BOOLEAN
    BY <1>1, Zenon DEF Publish, TypeOK
  <2> QED BY <1>1, <2>3, <2>4, <2>5, <2>6 DEF Publish, TypeOK, timers, collector
<1>2. CASE CloseConnection
  <2>1. faults' \in 0 .. MaxFaults
    BY <1>2, Bounds DEF CloseConnection, TypeOK
  <2> QED BY <1>2, <2>1, Zenon DEF CloseConnection, TypeOK, timers, collector
<1>3. CASE RestartFaucet
  <2>1. PICK s \in State : history' = <<s>>
    BY <1>3 DEF RestartFaucet
  <2>2. history' \in Seq(State) /\ history' # <<>> /\ Len(history') <= MaxEvents
    BY <2>1, Bounds, NoneIsNoBuffer
  <2>3. faults' \in 0 .. MaxFaults
    BY <1>3, Bounds DEF RestartFaucet, TypeOK
  <2> QED BY <1>3, <2>2, <2>3, Zenon DEF RestartFaucet, TypeOK, timers, collector
<1> QED BY <1>1, <1>2, <1>3

LEMMA TypeConnection ==
    ASSUME TypeOK,
           Connect \/ ConnectFails \/ Restore \/ Resync \/ ScrapeFails \/ Block \/ Receive \/ Disconnect
    PROVE  TypeOK'
<1>1. CASE Connect
  <2>1. channel' \in Seq(Event) /\ buffer' \in Seq(Event)
    BY <1>1 DEF Connect
  <2>2. previous' \in [Port -> BOOLEAN \cup {None}]
    BY <1>1, Zenon DEF Connect
  <2>3. overtaken' \in [Port -> BOOLEAN]
    BY <1>1, Zenon DEF Connect
  <2>4. buffer' # None
    BY <2>1, NoneIsNoBuffer
  <2> QED BY <1>1, <2>1, <2>2, <2>3, <2>4, Zenon DEF Connect, TypeOK, timers, collector, Loop
<1>2. CASE ConnectFails
  <2>1. buffer' \in Seq(Event)
    BY <1>2 DEF ConnectFails
  <2>2. previous' \in [Port -> BOOLEAN \cup {None}]
    BY <1>2, Zenon DEF ConnectFails
  <2>3. faults' \in 0 .. MaxFaults
    BY <1>2, Bounds DEF ConnectFails, TypeOK
  <2>4. buffer' # None
    BY <2>1, NoneIsNoBuffer
  <2> QED BY <1>2, <2>1, <2>2, <2>3, <2>4, Zenon DEF ConnectFails, TypeOK, timers, collector, Loop
<1>3. CASE Restore \/ Resync
  BY <1>3, LastState DEF Restore, Resync, Scrape, SetEventHorizon, TypeOK, faucet, timers, collector, Loop
<1>4. CASE ScrapeFails
  <2>1. faults' \in 0 .. MaxFaults
    BY <1>4, Bounds DEF ScrapeFails, VarzFails, TypeOK
  <2>2. restored' \in BOOLEAN /\ loop' \in {"run", "ended"}
    BY <1>4, Zenon DEF ScrapeFails, TypeOK
  <2>3. buffer' \in Seq(Event) /\ buffer' # None
    BY <1>4 DEF ScrapeFails, TypeOK
  <2>4. loop' \in Loop
    BY <2>2 DEF Loop
  <2> QED BY <1>4, <2>1, <2>2, <2>3, <2>4, Zenon DEF ScrapeFails, VarzFails, TypeOK, timers, collector
<1>5. CASE Block
  BY <1>5 DEF Block, TypeOK, faucet, timers, collector, Loop
<1>6. CASE Receive
  <2>1. channel' \in Seq(Event) /\ Head(channel) \in Event
    BY <1>6 DEF Receive, TypeOK
  <2>2. buffer \in Seq(Event)
    BY <1>6 DEF Receive, TypeOK
  <2>3. buffer' \in Seq(Event)
    BY <1>6, <2>1, <2>2 DEF Receive
  <2>4. buffer' # None
    BY <2>3, NoneIsNoBuffer
  <2> QED BY <1>6, <2>1, <2>3, <2>4 DEF Receive, TypeOK, timers, collector, Loop
<1>7. CASE Disconnect
  BY <1>7 DEF Disconnect, TypeOK, faucet, timers, collector, Loop
<1> QED BY <1>1, <1>2, <1>3, <1>4, <1>5, <1>6, <1>7

\* An event that is handled is the head of the buffer; what is left of the buffer is one.
LEMMA Handled ==
    ASSUME TypeOK, NEW e \in Event, Next1(e)
    PROVE  /\ loop = "run"
           /\ buffer \in Seq(Event) /\ buffer # <<>> /\ Len(buffer) \in Nat \ {0}
           /\ e = buffer[1]
           /\ Tail(buffer) \in Seq(Event) /\ Tail(buffer) # None
           /\ Len(Tail(buffer)) = Len(buffer) - 1
           /\ \A i \in 1 .. Len(Tail(buffer)) : Tail(buffer)[i] = buffer[i + 1]
<1>1. buffer \in Seq(Event) /\ buffer # <<>> /\ loop = "run" /\ e = Head(buffer)
  BY DEF TypeOK, Next1
<1> QED BY <1>1, Bounds, NoneIsNoBuffer

\* Handling an event of a port: what becomes of the buffer and of the timers.
LEMMA TypePort ==
    ASSUME TypeOK, NEW e \in Event, Next1(e), HandlePort(e)
    PROVE  /\ e.cell \in Port /\ e.id \in 1 .. MaxEvents /\ lastEventId' = e.id
           /\ buffer' \in Seq(Event) /\ buffer' # None
           /\ tracked' \in [Port -> Timer \cup {None}]
           /\ timer' \in [Timer -> Thread \cup {None}]
           /\ overtaken' \in [Port -> BOOLEAN]
<1>1. e.cell \in Port /\ e.id \in 1 .. MaxEvents /\ lastEventId' = e.id
  BY DEF HandlePort, Fresh, Event
<1>2. Cancelled(e.cell) \in [Timer -> Thread \cup {None}]
  BY DEF Cancelled, TypeOK
<1>3. [id |-> None, cell |-> e.cell, value |-> TRUE] \in Event
  BY <1>1 DEF Event, Cell
<1>4. buffer' \in Seq(Event) /\ buffer' # None
  <2>1. buffer' = Tail(buffer) \/ buffer' = Append(Tail(buffer), [id |-> None, cell |-> e.cell, value |-> TRUE])
    BY DEF HandlePort, Appended
  <2>2. Tail(buffer) \in Seq(Event)
    BY Handled
  <2>3. buffer' \in Seq(Event)
    BY <2>1, <2>2, <1>3
  <2> QED BY <2>3, NoneIsNoBuffer
<1>5. tracked' \in [Port -> Timer \cup {None}]
  BY <1>1 DEF HandlePort, TypeOK
<1>6. timer' \in [Timer -> Thread \cup {None}]
  <2>1. ASSUME NEW t \in Timer
        PROVE  [Cancelled(e.cell) EXCEPT ![t] = [port |-> e.cell, phase |-> "running"]]
                  \in [Timer -> Thread \cup {None}]
    <3>1. [port |-> e.cell, phase |-> "running"] \in Thread
      BY <1>1 DEF Thread
    <3> QED BY <1>2, <3>1
  <2> QED BY <1>2, <2>1 DEF HandlePort
<1>7. overtaken' \in [Port -> BOOLEAN]
  BY <1>1 DEF HandlePort, TypeOK
<1> QED BY <1>1, <1>4, <1>5, <1>6, <1>7

LEMMA TypeNextEvent == ASSUME TypeOK, NextEvent PROVE TypeOK'
<1> PICK e \in Event :
        /\ Next1(e)
        /\ UNCHANGED faucet
        /\ \/ HandleDebounced(e)
           \/ HandleUninitialized(e)
           \/ HandleOutdated(e)
           \/ HandleOutOfOrder(e)
           \/ HandleOther(e)
           \/ HandlePort(e)
  BY DEF NextEvent
<1>0. e.id \in (1 .. MaxEvents) \cup {None} /\ e.cell \in Cell /\ e.value \in BOOLEAN
  BY DEF Event
<1>1. CASE HandleDebounced(e)
  <2>1. previous' \in [Port -> BOOLEAN \cup {None}]
    BY <1>0, <1>1 DEF HandleDebounced, TypeOK
  <2>2. view' \in State
    BY <1>0, <1>1 DEF HandleDebounced, ProcessPortChange, TypeOK, State
  <2> QED BY <1>1, <2>1, <2>2, Handled DEF HandleDebounced, TypeOK, faucet, timers, collector
<1>2. CASE HandleUninitialized(e)
  BY <1>2, Handled DEF HandleUninitialized, TypeOK, faucet, timers, collector, Loop
<1>3. CASE HandleOutdated(e)
  BY <1>3, Handled DEF HandleOutdated, TypeOK, faucet, timers, collector
<1>4. CASE HandleOutOfOrder(e)
  <2>1. lastEventId' \in 1 .. MaxEvents
    BY <1>0, <1>4, Bounds, NoneIsNoBuffer DEF HandleOutOfOrder, Fresh, TypeOK
  <2> QED BY <1>4, <2>1, Handled DEF HandleOutOfOrder, TypeOK, faucet, timers, collector, Loop
<1>5. CASE HandleOther(e)
  <2>1. lastEventId' \in 1 .. MaxEvents
    BY <1>0, <1>5 DEF HandleOther, Fresh
  <2>2. view' \in State
    BY <1>0, <1>5 DEF HandleOther, TypeOK, State
  <2> QED BY <1>5, <2>1, <2>2, Handled DEF HandleOther, TypeOK, faucet, timers, collector
<1>6. CASE HandlePort(e)
  BY <1>6, TypePort DEF HandlePort, TypeOK, faucet, collector
<1> QED BY <1>1, <1>2, <1>3, <1>4, <1>5, <1>6

LEMMA TypeDebounce == ASSUME TypeOK, Debounce PROVE TypeOK'
<1>1. ASSUME NEW t \in Timer, Expire(t) PROVE TypeOK'
  <2>1. timer' \in [Timer -> Thread \cup {None}]
    BY <1>1 DEF Expire, Phase, TypeOK, Thread
  <2> QED BY <1>1, <2>1 DEF Expire, TypeOK, faucet, collector
<1>2. ASSUME NEW t \in Timer, Untrack(t) PROVE TypeOK'
  <2>1. timer' \in [Timer -> Thread \cup {None}]
    BY <1>2 DEF Untrack, Phase, TypeOK, Thread
  <2>2. tracked' \in [Port -> Timer \cup {None}]
    BY <1>2 DEF Untrack, Phase, TypeOK, Thread
  <2> QED BY <1>2, <2>1, <2>2 DEF Untrack, TypeOK, faucet, collector
<1>3. ASSUME NEW t \in Timer, AppendDown(t) PROVE TypeOK'
  <2>1. timer' \in [Timer -> Thread \cup {None}]
    BY <1>3 DEF AppendDown, TypeOK
  <2>2. timer[t] \in Thread
    BY <1>3 DEF AppendDown, Phase, TypeOK
  <2>3. [id |-> None, cell |-> timer[t].port, value |-> FALSE] \in Event
    BY <2>2 DEF Event, Thread, Cell
  <2>4. buffer' \in Seq(Event) \cup {None} /\ (buffer # None => buffer' # None)
    <3>1. buffer \in Seq(Event) \/ buffer = None
      BY DEF TypeOK
    <3>2. buffer' = IF buffer = None THEN None
                    ELSE Append(buffer, [id |-> None, cell |-> timer[t].port, value |-> FALSE])
      BY <1>3 DEF AppendDown, Appended
    <3>3. buffer \in Seq(Event) => Append(buffer, [id |-> None, cell |-> timer[t].port, value |-> FALSE]) \in Seq(Event)
      BY <2>3
    <3> QED BY <3>1, <3>2, <3>3, NoneIsNoBuffer, Zenon
  <2> QED BY <1>3, <2>1, <2>4 DEF AppendDown, TypeOK, faucet, collector
<1> QED BY <1>1, <1>2, <1>3 DEF Debounce

LEMMA TypeStep == TypeOK /\ [Next]_vars => TypeOK'
<1> SUFFICES ASSUME TypeOK, [Next]_vars PROVE TypeOK'
  OBVIOUS
<1>1. CASE UNCHANGED vars
  BY <1>1 DEF vars, faucet, timers, collector, TypeOK
<1> QED BY <1>1, TypeFaucet, TypeConnection, TypeNextEvent, TypeDebounce DEF Next

\* Every variable keeps its type, with any number of events and faults.
THEOREM TypeCorrect == Spec => []TypeOK
BY TypeInit, TypeStep, PTL DEF Spec

-----------------------------------------------------------------------------
(* The inductive invariants. *)

\* What a numbered event says of a history of Faucet.
Reports(e, h) ==
    e.id # None =>
        /\ e.id \in 2 .. Len(h)
        /\ h[e.id] = [h[e.id - 1] EXCEPT ![e.cell] = e.value]

InBuffer == IF buffer = None THEN {} ELSE 1 .. Len(buffer)

\* Faucet numbers what it sends, and the client appends only events of ports; on a
\* connection that is open every number is that of a state of this Faucet.
ChannelReports ==
    \A i \in 1 .. Len(channel) :
        /\ channel[i].id # None
        /\ link => Reports(channel[i], history)
BufferReports ==
    \A i \in InBuffer :
        /\ buffer[i].id = None => buffer[i].cell \in Port
        /\ link => Reports(buffer[i], history)

Following == TypeOK /\ ChannelReports /\ BufferReports /\ OthersInOrder

-----------------------------------------------------------------------------
(* What steps do to the history, the socket and the buffer. *)

LEMMA PublishEffect ==
    ASSUME TypeOK, NEW c \in Cell, NEW v \in BOOLEAN, Publish(c, v)
    PROVE  /\ Len(history) \in Nat \ {0}
           /\ Len(history') = Len(history) + 1
           /\ \A k \in 1 .. Len(history) : history'[k] = history[k]
           /\ history'[Len(history) + 1] = [history[Len(history)] EXCEPT ![c] = v]
<1> DEFINE s == [history[Len(history)] EXCEPT ![c] = v]
<1>1. history \in Seq(State) /\ Len(history) \in Nat \ {0}
  BY LastState DEF TypeOK
<1>2. history' = Append(history, s)
  BY DEF Publish, Last
<1> HIDE DEF s
<1>3. /\ Len(Append(history, s)) = Len(history) + 1
      /\ \A k \in 1 .. Len(history) : Append(history, s)[k] = history[k]
      /\ Append(history, s)[Len(history) + 1] = s
  BY <1>1
<1> QED BY <1>1, <1>2, <1>3 DEF s

\* What an event says stays true when Faucet goes on, and a new event is right.
LEMMA PublishReports ==
    ASSUME TypeOK, NEW c \in Cell, NEW v \in BOOLEAN, Publish(c, v)
    PROVE  /\ \A e \in Event : Reports(e, history) => Reports(e, history')
           /\ Reports([id |-> Len(history) + 1, cell |-> c, value |-> v], history')
<1>0. /\ Len(history) \in Nat \ {0}
      /\ Len(history') = Len(history) + 1
      /\ \A k \in 1 .. Len(history) : history'[k] = history[k]
      /\ history'[Len(history) + 1] = [history[Len(history)] EXCEPT ![c] = v]
  BY PublishEffect
<1>1. ASSUME NEW e \in Event, Reports(e, history)
      PROVE  Reports(e, history')
  <2>1. SUFFICES ASSUME e.id # None
                 PROVE  /\ e.id \in 2 .. Len(history')
                        /\ history'[e.id] = [history'[e.id - 1] EXCEPT ![e.cell] = e.value]
    BY DEF Reports
  <2>2. e.id \in 2 .. Len(history) /\ history[e.id] = [history[e.id - 1] EXCEPT ![e.cell] = e.value]
    BY <1>1, <2>1 DEF Reports
  <2>3. history'[e.id] = history[e.id] /\ history'[e.id - 1] = history[e.id - 1]
    BY <2>2, <1>0
  <2>4. e.id \in 2 .. Len(history')
    BY <2>2, <1>0
  <2> QED BY <2>2, <2>3, <2>4
<1>2. Reports([id |-> Len(history) + 1, cell |-> c, value |-> v], history')
  <2> DEFINE e == [id |-> Len(history) + 1, cell |-> c, value |-> v]
  <2>1. e.id \in 2 .. Len(history')
    BY <1>0
  <2>2. history'[e.id] = [history'[e.id - 1] EXCEPT ![e.cell] = e.value]
    BY <1>0
  <2>3. Reports(e, history')
    BY <2>1, <2>2 DEF Reports
  <2> QED BY <2>3
<1> QED BY <1>1, <1>2

\* What Append does to a buffer or socket.
LEMMA AppendEffect ==
    ASSUME NEW q \in Seq(Event), NEW e \in Event
    PROVE  /\ Append(q, e) \in Seq(Event)
           /\ Len(q) \in Nat /\ Len(Append(q, e)) = Len(q) + 1
           /\ \A i \in 1 .. Len(q) : Append(q, e)[i] = q[i]
           /\ Append(q, e)[Len(q) + 1] = e
OBVIOUS

LEMMA TailEffect ==
    ASSUME NEW q \in Seq(Event), q # <<>>
    PROVE  /\ Tail(q) \in Seq(Event)
           /\ Len(q) \in Nat \ {0} /\ Len(Tail(q)) = Len(q) - 1
           /\ \A i \in 1 .. Len(q) - 1 : Tail(q)[i] = q[i + 1]
           /\ Head(q) = q[1] /\ q[1] \in Event
OBVIOUS

\* The events that are in the buffer after one has been handled.
Up(p) == [id |-> None, cell |-> p, value |-> TRUE]

LEMMA HandledBuffer ==
    ASSUME TypeOK, NEW e \in Event, Next1(e),
           \/ HandleDebounced(e)
           \/ HandleUninitialized(e)
           \/ HandleOutdated(e)
           \/ HandleOutOfOrder(e)
           \/ HandleOther(e)
           \/ HandlePort(e)
    PROVE  /\ InBuffer = 1 .. Len(buffer) /\ Len(buffer) \in Nat \ {0} /\ e = buffer[1]
           /\ \/ /\ InBuffer' = 1 .. Len(buffer) - 1
                 /\ HandlePort(e) => ~e.value
              \/ /\ InBuffer' = 1 .. Len(buffer)
                 /\ HandlePort(e) /\ e.value /\ e.cell \in Port
                 /\ buffer'[Len(buffer)] = Up(e.cell)
           /\ \A i \in 1 .. Len(buffer) - 1 : buffer'[i] = buffer[i + 1]
<1>0. /\ InBuffer = 1 .. Len(buffer) /\ Len(buffer) \in Nat \ {0} /\ e = buffer[1]
      /\ Tail(buffer) \in Seq(Event) /\ Len(Tail(buffer)) = Len(buffer) - 1 /\ Tail(buffer) # None
      /\ \A i \in 1 .. Len(buffer) - 1 : Tail(buffer)[i] = buffer[i + 1]
  BY Handled, NoneIsNoBuffer DEF InBuffer
<1>1. CASE buffer' = Tail(buffer) /\ (HandlePort(e) => ~e.value)
  <2>1. InBuffer' = 1 .. Len(buffer) - 1
    BY <1>0, <1>1 DEF InBuffer
  <2> QED BY <1>0, <1>1, <2>1
<1>2. CASE HandlePort(e) /\ e.value /\ e.cell \in Port /\ buffer' = Append(Tail(buffer), Up(e.cell))
  <2>1. Up(e.cell) \in Event
    BY <1>2 DEF Up, Event, Cell
  <2>2. /\ buffer' \in Seq(Event) /\ Len(buffer') = Len(buffer)
        /\ \A i \in 1 .. Len(buffer) - 1 : buffer'[i] = Tail(buffer)[i]
        /\ buffer'[Len(buffer)] = Up(e.cell)
    BY <1>0, <1>2, <2>1, AppendEffect
  <2>3. InBuffer' = 1 .. Len(buffer)
    BY <2>2, NoneIsNoBuffer DEF InBuffer
  <2> QED BY <1>0, <1>2, <2>2, <2>3
<1>3. HandlePort(e) =>
         \/ buffer' = Tail(buffer) /\ ~e.value
         \/ e.value /\ e.cell \in Port /\ buffer' = Append(Tail(buffer), Up(e.cell))
  BY Zenon DEF HandlePort, Appended, Up
<1>4. ~HandlePort(e) => buffer' = Tail(buffer)
  BY Zenon DEF HandleDebounced, HandleUninitialized, HandleOutdated, HandleOutOfOrder, HandleOther
<1> QED BY <1>1, <1>2, <1>3, <1>4, Zenon

-----------------------------------------------------------------------------
(* The replica: events follow the history of Faucet. *)

LEMMA FollowingInit == Init => Following
<1> SUFFICES ASSUME Init PROVE Following
  OBVIOUS
<1>1. channel = <<>> /\ InBuffer = {} /\ ~Synchronised
  BY DEF Init, InBuffer, Synchronised
<1> QED BY <1>1, TypeInit DEF Following, ChannelReports, BufferReports, OthersInOrder

LEMMA ChannelReportsStep == ASSUME Following, [Next]_vars PROVE ChannelReports'
<1> USE DEF Following
<1>1. CASE UNCHANGED <<history, channel, link>>
  BY <1>1 DEF ChannelReports, Reports
<1>2. CASE channel' = channel /\ ~link'
  BY <1>2 DEF ChannelReports
<1>3. CASE channel' = <<>>
  BY <1>3 DEF ChannelReports
<1>4. ASSUME NEW c \in Cell, NEW v \in BOOLEAN, Publish(c, v)
      PROVE  ChannelReports'
  <2> DEFINE e == [id |-> Len(history) + 1, cell |-> c, value |-> v]
  <2>1. /\ link' = link /\ channel \in Seq(Event)
        /\ channel' = channel \/ (link /\ channel' = Append(channel, e))
    BY <1>4 DEF Publish, TypeOK
  <2>2. e \in Event /\ e.id # None
    BY <1>4, LastState, NoneIsNoId DEF Publish, Event
  <2>3. /\ \A d \in Event : Reports(d, history) => Reports(d, history')
        /\ Reports(e, history')
    BY <1>4, PublishReports
  <2>4. \A i \in 1 .. Len(channel) :
            channel[i] \in Event /\ channel[i].id # None /\ (link => Reports(channel[i], history))
    BY <2>1 DEF ChannelReports
  <2> HIDE DEF e
  <2>5. CASE channel' = channel
    BY <2>1, <2>3, <2>4, <2>5 DEF ChannelReports
  <2>6. CASE channel' = Append(channel, e)
    <3>1. /\ Len(channel') = Len(channel) + 1 /\ Len(channel) \in Nat
          /\ \A i \in 1 .. Len(channel) : channel'[i] = channel[i]
          /\ channel'[Len(channel) + 1] = e
      BY <2>1, <2>2, <2>6, AppendEffect
    <3>2. ASSUME NEW i \in 1 .. Len(channel')
          PROVE  channel'[i].id # None /\ (link' => Reports(channel'[i], history'))
      <4>1. CASE i \in 1 .. Len(channel)
        BY <4>1, <3>1, <2>1, <2>3, <2>4
      <4>2. CASE i = Len(channel) + 1
        BY <4>2, <3>1, <2>2, <2>3
      <4> QED BY <4>1, <4>2, <3>1
    <3> QED BY <3>2 DEF ChannelReports
  <2> QED BY <2>1, <2>5, <2>6
<1>5. CASE Receive
  <2>1. /\ channel \in Seq(Event) /\ channel # <<>> /\ channel' = Tail(channel)
        /\ UNCHANGED <<history, link>>
    BY <1>5 DEF Receive, TypeOK
  <2>2. /\ Len(channel') = Len(channel) - 1 /\ Len(channel) \in Nat \ {0}
        /\ \A i \in 1 .. Len(channel) - 1 : channel'[i] = channel[i + 1]
    BY <2>1, TailEffect
  <2>3. ASSUME NEW i \in 1 .. Len(channel')
        PROVE  i + 1 \in 1 .. Len(channel) /\ channel'[i] = channel[i + 1]
    BY <2>2
  <2>4. \A i \in 1 .. Len(channel) : channel[i].id # None /\ (link => Reports(channel[i], history))
    BY DEF ChannelReports
  <2>5. \A i \in 1 .. Len(channel') : channel'[i].id # None /\ (link' => Reports(channel'[i], history'))
    BY <2>1, <2>3, <2>4
  <2> QED BY <2>5 DEF ChannelReports
<1>6. CASE CloseConnection \/ RestartFaucet
  BY <1>6, <1>2 DEF CloseConnection, RestartFaucet
<1>7. CASE Connect
  BY <1>7, <1>3 DEF Connect
<1>8. CASE ConnectFails \/ Restore \/ Resync \/ ScrapeFails \/ Block \/ Disconnect
  BY <1>8, <1>1 DEF ConnectFails, Restore, Resync, Scrape, ScrapeFails, VarzFails, Block, Disconnect, faucet
<1>9. CASE NextEvent \/ Debounce
  BY <1>9, <1>1 DEF NextEvent, Debounce, Expire, Untrack, AppendDown, faucet
<1>10. CASE UNCHANGED vars
  BY <1>10, <1>1 DEF vars, faucet
<1> QED BY <1>4, <1>5, <1>6, <1>7, <1>8, <1>9, <1>10 DEF Next

\* An event put at the end of the buffer.
LEMMA BufferAppend ==
    ASSUME TypeOK, buffer # None, NEW e \in Event, buffer' = Append(buffer, e)
    PROVE  /\ InBuffer = 1 .. Len(buffer) /\ Len(buffer) \in Nat
           /\ InBuffer' = 1 .. Len(buffer) + 1
           /\ \A i \in 1 .. Len(buffer) : buffer'[i] = buffer[i]
           /\ buffer'[Len(buffer) + 1] = e
<1>1. buffer \in Seq(Event)
  BY DEF TypeOK
<1>2. /\ buffer' \in Seq(Event) /\ Len(buffer') = Len(buffer) + 1 /\ Len(buffer) \in Nat
      /\ \A i \in 1 .. Len(buffer) : buffer'[i] = buffer[i]
      /\ buffer'[Len(buffer) + 1] = e
  BY <1>1, AppendEffect
<1>3. buffer' # None
  BY <1>2, NoneIsNoBuffer
<1> QED BY <1>2, <1>3 DEF InBuffer

BufferFits(i) ==
    /\ buffer[i].id = None => buffer[i].cell \in Port
    /\ link => Reports(buffer[i], history)

\* What a timer thread appends when its debounce time is over.
Down(p) == [id |-> None, cell |-> p, value |-> FALSE]

LEMMA AppendDownEffect ==
    ASSUME TypeOK, NEW t \in Timer, AppendDown(t)
    PROVE  /\ Down(timer[t].port) \in Event /\ timer[t].port \in Port /\ timer[t] # None
           /\ buffer' = IF buffer = None THEN None ELSE Append(buffer, Down(timer[t].port))
<1>1. timer[t] \in Thread /\ timer[t] # None
  BY DEF AppendDown, Phase, TypeOK
<1> QED BY <1>1 DEF AppendDown, Appended, Down, Event, Thread, Cell

LEMMA BufferReportsStep == ASSUME Following, [Next]_vars PROVE BufferReports'
<1> USE DEF Following
<1>0. \A i \in InBuffer : BufferFits(i)
  BY DEF BufferReports, BufferFits
<1>1. CASE UNCHANGED <<history, buffer, link>>
  BY <1>1 DEF BufferReports, Reports, InBuffer
<1>2. CASE buffer' = buffer /\ ~link'
  BY <1>2 DEF BufferReports, InBuffer
<1>3. CASE buffer' = <<>> \/ buffer' = None
  <2>1. InBuffer' = {}
    BY <1>3 DEF InBuffer
  <2> QED BY <2>1 DEF BufferReports
<1>4. ASSUME NEW c \in Cell, NEW v \in BOOLEAN, Publish(c, v)
      PROVE  BufferReports'
  <2>1. link' = link /\ buffer' = buffer /\ InBuffer' = InBuffer
    BY <1>4 DEF Publish, InBuffer
  <2>2. \A d \in Event : Reports(d, history) => Reports(d, history')
    BY <1>4, PublishReports
  <2>3. \A i \in InBuffer : buffer[i] \in Event
    BY DEF InBuffer, TypeOK
  <2> QED BY <2>1, <2>2, <2>3 DEF BufferReports
<1>5. CASE Receive
  <2>1. /\ channel \in Seq(Event) /\ channel # <<>> /\ buffer' = Append(buffer, Head(channel)) /\ buffer # None
        /\ UNCHANGED <<history, link>>
    BY <1>5 DEF Receive, TypeOK
  <2>2. Head(channel) \in Event /\ Head(channel) = channel[1] /\ 1 \in 1 .. Len(channel)
    BY <2>1, TailEffect
  <2>3. Head(channel).id # None /\ (link => Reports(Head(channel), history))
    BY <2>2 DEF ChannelReports
  <2>4. /\ InBuffer = 1 .. Len(buffer) /\ Len(buffer) \in Nat
        /\ InBuffer' = 1 .. Len(buffer) + 1
        /\ \A i \in 1 .. Len(buffer) : buffer'[i] = buffer[i]
        /\ buffer'[Len(buffer) + 1] = Head(channel)
    BY <2>1, <2>2, BufferAppend
  <2>5. ASSUME NEW i \in InBuffer'
        PROVE  /\ buffer'[i].id = None => buffer'[i].cell \in Port
               /\ link' => Reports(buffer'[i], history')
    <3>1. CASE i \in InBuffer
      BY <3>1, <2>1, <2>4, <1>0 DEF BufferFits
    <3>2. CASE i = Len(buffer) + 1
      BY <3>2, <2>1, <2>3, <2>4
    <3> QED BY <3>1, <3>2, <2>4
  <2> QED BY <2>5 DEF BufferReports
<1>6. ASSUME NEW t \in Timer, AppendDown(t), buffer # None
      PROVE  BufferReports'
  <2> DEFINE d == Down(timer[t].port)
  <2>1. d \in Event /\ timer[t].port \in Port /\ buffer' = Append(buffer, d) /\ UNCHANGED <<history, link>>
    BY <1>6, AppendDownEffect DEF AppendDown, faucet
  <2>2. d.id = None /\ d.cell \in Port /\ Reports(d, history)
    BY <2>1 DEF Down, Reports
  <2> HIDE DEF d
  <2>4. /\ InBuffer = 1 .. Len(buffer) /\ Len(buffer) \in Nat
        /\ InBuffer' = 1 .. Len(buffer) + 1
        /\ \A i \in 1 .. Len(buffer) : buffer'[i] = buffer[i]
        /\ buffer'[Len(buffer) + 1] = d
    BY <1>6, <2>1, BufferAppend
  <2>5. ASSUME NEW i \in InBuffer'
        PROVE  /\ buffer'[i].id = None => buffer'[i].cell \in Port
               /\ link' => Reports(buffer'[i], history')
    <3>1. CASE i \in InBuffer
      BY <3>1, <2>1, <2>4, <1>0 DEF BufferFits
    <3>2. CASE i = Len(buffer) + 1
      BY <3>2, <2>1, <2>2, <2>4
    <3> QED BY <3>1, <3>2, <2>4
  <2> QED BY <2>5 DEF BufferReports
<1>7. CASE NextEvent
  <2> PICK e \in Event :
          /\ Next1(e)
          /\ UNCHANGED faucet
          /\ \/ HandleDebounced(e)
             \/ HandleUninitialized(e)
             \/ HandleOutdated(e)
             \/ HandleOutOfOrder(e)
             \/ HandleOther(e)
             \/ HandlePort(e)
    BY <1>7 DEF NextEvent
  <2>1. /\ InBuffer = 1 .. Len(buffer) /\ Len(buffer) \in Nat \ {0} /\ e = buffer[1]
        /\ \/ InBuffer' = 1 .. Len(buffer) - 1
           \/ /\ InBuffer' = 1 .. Len(buffer)
              /\ e.cell \in Port
              /\ buffer'[Len(buffer)] = Up(e.cell)
        /\ \A i \in 1 .. Len(buffer) - 1 : buffer'[i] = buffer[i + 1]
    BY HandledBuffer
  <2>2. UNCHANGED <<history, link>>
    BY DEF faucet
  <2>3. Up(e.cell).id = None /\ Up(e.cell).cell = e.cell /\ Reports(Up(e.cell), history)
    BY DEF Up, Reports
  <2>5. ASSUME NEW i \in InBuffer'
        PROVE  /\ buffer'[i].id = None => buffer'[i].cell \in Port
               /\ link' => Reports(buffer'[i], history')
    <3>1. CASE i \in 1 .. Len(buffer) - 1
      <4>1. buffer'[i] = buffer[i + 1] /\ i + 1 \in InBuffer
        BY <3>1, <2>1
      <4> QED BY <4>1, <2>2, <1>0 DEF BufferFits
    <3>2. CASE i = Len(buffer) /\ e.cell \in Port /\ buffer'[i] = Up(e.cell)
      BY <3>2, <2>2, <2>3
    <3> QED BY <3>1, <3>2, <2>1
  <2> QED BY <2>5 DEF BufferReports
<1>8. CASE CloseConnection \/ RestartFaucet
  BY <1>8, <1>2 DEF CloseConnection, RestartFaucet
<1>9. CASE Connect \/ ConnectFails \/ Disconnect
  BY <1>9, <1>3 DEF Connect, ConnectFails, Disconnect
<1>10. CASE Restore \/ Resync \/ ScrapeFails \/ Block
  BY <1>10, <1>1 DEF Restore, Resync, Scrape, ScrapeFails, VarzFails, Block, faucet
<1>11. CASE Debounce
  <2>1. ASSUME NEW t \in Timer, Expire(t) \/ Untrack(t) PROVE BufferReports'
    BY <2>1, <1>1 DEF Expire, Untrack, faucet
  <2>2. ASSUME NEW t \in Timer, AppendDown(t), buffer = None PROVE BufferReports'
    BY <2>2, <1>3 DEF AppendDown
  <2> QED BY <1>11, <1>6, <2>1, <2>2 DEF Debounce
<1>12. CASE UNCHANGED vars
  BY <1>12, <1>1 DEF vars, faucet
<1> QED BY <1>4, <1>5, <1>7, <1>8, <1>9, <1>10, <1>11, <1>12 DEF Next

\* The six things a step can do to the replica.
Advanced ==
    /\ \E s \in State : history' = Append(history, s)
    /\ UNCHANGED <<restored, link, loop, lastEventId, view>>
Restarted == ~Synchronised' /\ \E s \in State : history' = <<s>>
Lost == ~Synchronised' /\ UNCHANGED history
Stayed ==
    /\ Synchronised /\ Synchronised'
    /\ UNCHANGED <<history, lastEventId>>
    /\ OtherPart(view') = OtherPart(view)
Followed ==
    /\ Synchronised /\ Synchronised'
    /\ UNCHANGED history
    /\ lastEventId \in 1 .. Len(history) - 1
    /\ lastEventId' = lastEventId + 1
    /\ OtherPart(view') = OtherPart(history[lastEventId + 1])
Resynced ==
    /\ ~Synchronised /\ Synchronised'
    /\ UNCHANGED history
    /\ lastEventId' = Len(history)
    /\ view' = Last(history)
ReplicaStep == Advanced \/ Restarted \/ Lost \/ Stayed \/ Followed \/ Resynced

\* An event that is accepted reports the state that comes after the one followed last.
LEMMA AcceptedIsNext ==
    ASSUME Following, Synchronised, NEW e \in Event, Next1(e), Fresh(e), e.id = lastEventId + 1
    PROVE  /\ lastEventId \in 1 .. Len(history) - 1
           /\ history[lastEventId] \in State /\ history[lastEventId + 1] \in State
           /\ history[lastEventId + 1] = [history[lastEventId] EXCEPT ![e.cell] = e.value]
           /\ OtherPart(view) = OtherPart(history[lastEventId])
<1>1. lastEventId \in 1 .. Len(history) /\ OtherPart(view) = OtherPart(history[lastEventId])
  BY DEF Following, OthersInOrder
<1>2. Reports(e, history)
  <2>1. e = buffer[1] /\ 1 \in InBuffer
    BY Handled, NoneIsNoBuffer DEF Following, InBuffer, TypeOK, Next1
  <2> QED BY <2>1 DEF Following, BufferReports, Synchronised
<1>3. e.id \in 2 .. Len(history) /\ history[e.id] = [history[e.id - 1] EXCEPT ![e.cell] = e.value]
  BY <1>2 DEF Reports, Fresh
<1>4. history \in Seq(State) /\ Len(history) \in Nat
  BY DEF Following, TypeOK
<1>5. lastEventId + 1 \in 2 .. Len(history) /\ e.id - 1 = lastEventId
  BY <1>1, <1>3
<1>6. lastEventId \in 1 .. Len(history) - 1
  BY <1>4, <1>5
<1>7. history[lastEventId] \in State /\ history[lastEventId + 1] \in State
  BY <1>4, <1>6
<1> QED BY <1>1, <1>3, <1>5, <1>6, <1>7

LEMMA OtherPartOfPort ==
    ASSUME NEW s \in State, NEW p \in Port, NEW v
    PROVE  OtherPart([s EXCEPT ![p] = v]) = OtherPart(s)
BY ConfigAssumption DEF OtherPart, State, Cell

LEMMA OtherPartOfOther ==
    ASSUME NEW s \in State, NEW r \in State, OtherPart(s) = OtherPart(r), NEW c \in Other, NEW v
    PROVE  OtherPart([s EXCEPT ![c] = v]) = OtherPart([r EXCEPT ![c] = v])
<1>1. \A o \in Other : s[o] = r[o]
  BY DEF OtherPart
<1>2. \A o \in Other : [s EXCEPT ![c] = v][o] = [r EXCEPT ![c] = v][o]
  BY <1>1 DEF State, Cell
<1> QED BY <1>2 DEF OtherPart

LEMMA HandlerReplicaStep ==
    ASSUME Following, NEW e \in Event, Next1(e), UNCHANGED faucet,
           \/ HandleDebounced(e)
           \/ HandleUninitialized(e)
           \/ HandleOutdated(e)
           \/ HandleOutOfOrder(e)
           \/ HandleOther(e)
           \/ HandlePort(e)
    PROVE  ReplicaStep
<1>0. view \in State /\ history' = history /\ link' = link
  BY DEF Following, TypeOK, faucet
<1>1. CASE ~Synchronised'
  BY <1>0, <1>1 DEF ReplicaStep, Lost
<1>2. CASE HandleUninitialized(e) \/ HandleOutOfOrder(e)
  BY <1>1, <1>2 DEF HandleUninitialized, HandleOutOfOrder, Synchronised
<1>3. ASSUME Synchronised', ~HandleUninitialized(e), ~HandleOutOfOrder(e)
      PROVE  Synchronised
  BY <1>0, <1>3 DEF HandleDebounced, HandleOutdated, HandleOther, HandlePort, collector, Synchronised
<1>4. CASE Synchronised /\ Synchronised' /\ HandleDebounced(e)
  <2>1. e.cell \in Port
    <3>1. e = buffer[1] /\ 1 \in InBuffer
      BY Handled, NoneIsNoBuffer DEF Following, InBuffer, TypeOK, Next1
    <3> QED BY <3>1, <1>4 DEF HandleDebounced, Following, BufferReports
  <2>2. OtherPart(view') = OtherPart(view)
    <3>1. OtherPart([view EXCEPT ![e.cell] = e.value]) = OtherPart(view)
      BY <1>0, <2>1, OtherPartOfPort
    <3>2. view' = view \/ view' = [view EXCEPT ![e.cell] = e.value]
      BY <1>4 DEF HandleDebounced, ProcessPortChange
    <3> QED BY <3>1, <3>2
  <2> QED BY <1>0, <1>4, <2>2 DEF HandleDebounced, ReplicaStep, Stayed
<1>5. CASE Synchronised /\ Synchronised' /\ HandleOutdated(e)
  BY <1>0, <1>5 DEF HandleOutdated, collector, ReplicaStep, Stayed
<1>6. CASE Synchronised /\ Synchronised' /\ HandleOther(e)
  <2>1. Fresh(e) /\ e.id = lastEventId + 1 /\ e.cell \in Other /\ lastEventId' = e.id
        /\ view' = [view EXCEPT ![e.cell] = e.value]
    BY <1>6 DEF HandleOther
  <2>2. /\ lastEventId \in 1 .. Len(history) - 1
        /\ history[lastEventId] \in State
        /\ history[lastEventId + 1] = [history[lastEventId] EXCEPT ![e.cell] = e.value]
        /\ OtherPart(view) = OtherPart(history[lastEventId])
    BY <1>6, <2>1, AcceptedIsNext
  <2>3. OtherPart(view') = OtherPart(history[lastEventId + 1])
    <3>1. OtherPart([view EXCEPT ![e.cell] = e.value])
             = OtherPart([history[lastEventId] EXCEPT ![e.cell] = e.value])
      <4> DEFINE r == history[lastEventId]
      <4>1. view \in State /\ r \in State /\ OtherPart(view) = OtherPart(r) /\ e.cell \in Other
        BY <1>0, <2>1, <2>2
      <4> HIDE DEF r
      <4>2. OtherPart([view EXCEPT ![e.cell] = e.value]) = OtherPart([r EXCEPT ![e.cell] = e.value])
        BY <4>1, OtherPartOfOther
      <4> QED BY <4>2 DEF r
    <3> QED BY <2>1, <2>2, <3>1
  <2> QED BY <1>0, <1>6, <2>1, <2>2, <2>3 DEF ReplicaStep, Followed
<1>7. CASE Synchronised /\ Synchronised' /\ HandlePort(e)
  <2>1. Fresh(e) /\ e.id = lastEventId + 1 /\ e.cell \in Port /\ lastEventId' = e.id /\ view' = view
    BY <1>7 DEF HandlePort, collector
  <2>2. /\ lastEventId \in 1 .. Len(history) - 1
        /\ history[lastEventId] \in State
        /\ history[lastEventId + 1] = [history[lastEventId] EXCEPT ![e.cell] = e.value]
        /\ OtherPart(view) = OtherPart(history[lastEventId])
    BY <1>7, <2>1, AcceptedIsNext
  <2>3. OtherPart(view') = OtherPart(history[lastEventId + 1])
    <3>1. OtherPart([history[lastEventId] EXCEPT ![e.cell] = e.value]) = OtherPart(history[lastEventId])
      BY <2>1, <2>2, OtherPartOfPort
    <3> QED BY <2>1, <2>2, <3>1
  <2> QED BY <1>0, <1>7, <2>1, <2>2, <2>3 DEF ReplicaStep, Followed
<1> QED BY <1>1, <1>2, <1>3, <1>4, <1>5, <1>6, <1>7

LEMMA EveryReplicaStep == ASSUME Following, [Next]_vars PROVE ReplicaStep
<1> USE DEF Following
<1>1. CASE UNCHANGED <<history, link, restored, loop, lastEventId, view>>
  BY <1>1 DEF ReplicaStep, Lost, Stayed, Synchronised
<1>2. CASE ~Synchronised' /\ UNCHANGED history
  BY <1>2 DEF ReplicaStep, Lost
<1>3. ASSUME NEW c \in Cell, NEW v \in BOOLEAN, Publish(c, v)
      PROVE  ReplicaStep
  <2>1. [Last(history) EXCEPT ![c] = v] \in State
    BY LastState DEF State
  <2>2. history' = Append(history, [Last(history) EXCEPT ![c] = v])
        /\ UNCHANGED <<restored, link, loop, lastEventId, view>>
    BY <1>3 DEF Publish, collector
  <2> QED BY <2>1, <2>2, Zenon DEF ReplicaStep, Advanced
<1>4. CASE RestartFaucet
  BY <1>4 DEF RestartFaucet, Synchronised, ReplicaStep, Restarted
<1>5. CASE CloseConnection \/ Connect \/ Disconnect
  BY <1>5, <1>2 DEF CloseConnection, Connect, Disconnect, Synchronised, faucet
<1>6. CASE ConnectFails \/ ScrapeFails
  BY <1>6, <1>2 DEF ConnectFails, ScrapeFails, VarzFails, Synchronised
<1>7. CASE Restore \/ Resync
  <2>1. ~Synchronised /\ lastEventId' = Len(history) /\ view' = Last(history) /\ history' = history
    BY <1>7 DEF Restore, Resync, Scrape, SetEventHorizon, Synchronised, faucet
  <2> QED BY <2>1, <1>2 DEF ReplicaStep, Resynced
<1>8. CASE Block \/ Receive
  <2>1. /\ UNCHANGED <<history, link, restored, lastEventId, view>>
        /\ loop \in {"run", "recv"} /\ loop' \in {"run", "recv"}
    BY <1>8 DEF Block, Receive, faucet, collector
  <2> QED BY <2>1 DEF ReplicaStep, Stayed, Lost, Synchronised
<1>9. CASE NextEvent
  <2>1. PICK e \in Event :
          /\ Next1(e)
          /\ UNCHANGED faucet
          /\ \/ HandleDebounced(e)
             \/ HandleUninitialized(e)
             \/ HandleOutdated(e)
             \/ HandleOutOfOrder(e)
             \/ HandleOther(e)
             \/ HandlePort(e)
    BY <1>9 DEF NextEvent
  <2> QED BY <2>1, HandlerReplicaStep
<1>10. CASE Debounce
  BY <1>10, <1>1 DEF Debounce, Expire, Untrack, AppendDown, faucet, collector
<1>11. CASE UNCHANGED vars
  BY <1>11, <1>1 DEF vars, faucet, collector
<1> QED BY <1>3, <1>4, <1>5, <1>6, <1>7, <1>8, <1>9, <1>10, <1>11 DEF Next

LEMMA OthersInOrderStep == ASSUME Following, [Next]_vars PROVE OthersInOrder'
<1>0. /\ history \in Seq(State) /\ history # <<>> /\ Len(history) \in Nat \ {0}
      /\ Synchronised => lastEventId \in 1 .. Len(history) /\ OtherPart(view) = OtherPart(history[lastEventId])
  BY LastState DEF Following, TypeOK, OthersInOrder
<1>1. CASE Advanced
  <2>1. PICK s \in State : history' = Append(history, s)
    BY <1>1 DEF Advanced
  <2>2. Len(history') = Len(history) + 1 /\ \A k \in 1 .. Len(history) : history'[k] = history[k]
    BY <2>1, <1>0
  <2>3. Synchronised' = Synchronised
    BY <1>1 DEF Advanced, Synchronised
  <2>4. Synchronised' => lastEventId' \in 1 .. Len(history') /\ OtherPart(view') = OtherPart(history'[lastEventId'])
    BY <1>0, <1>1, <2>2, <2>3 DEF Advanced
  <2> QED BY <2>4 DEF OthersInOrder
<1>2. CASE Restarted \/ Lost
  BY <1>2 DEF Restarted, Lost, OthersInOrder
<1>3. CASE Stayed
  BY <1>0, <1>3 DEF Stayed, OthersInOrder
<1>4. CASE Followed
  BY <1>0, <1>4 DEF Followed, OthersInOrder
<1>5. CASE Resynced
  BY <1>0, <1>5 DEF Resynced, OthersInOrder, Last
<1> QED BY EveryReplicaStep, <1>1, <1>2, <1>3, <1>4, <1>5 DEF ReplicaStep

LEMMA FollowingStep == Following /\ [Next]_vars => Following'
<1>1. Following => TypeOK
  BY DEF Following
<1> QED BY <1>1, TypeStep, ChannelReportsStep, BufferReportsStep, OthersInOrderStep DEF Following

LEMMA FollowingAlways == Spec => []Following
<1> QED BY FollowingStep, FollowingInit, PTL DEF Spec

\* A synchronised collector knows of everything but ports what Faucet reported up to the
\* event accepted last, whatever is lost, repeated or numbered anew.
THEOREM CollectorIsInOrder == Spec => []OthersInOrder
<1>1. Following => OthersInOrder
  BY DEF Following
<1> QED BY <1>1, FollowingAlways, PTL

-----------------------------------------------------------------------------
(* The refinement. *)

OtherParts(h) == [i \in 1 .. Len(h) |-> OtherPart(h[i])]

LEMMA OtherPartType == ASSUME NEW s \in State PROVE OtherPart(s) \in [Other -> BOOLEAN]
BY DEF OtherPart, State, Cell

LEMMA OtherPartsAppend ==
    ASSUME NEW h \in Seq(State), NEW s \in State
    PROVE  OtherParts(Append(h, s)) = Append(OtherParts(h), OtherPart(s))
<1> DEFINE g == Append(h, s)
<1>1. Len(h) \in Nat /\ Len(g) = Len(h) + 1 /\ g[Len(h) + 1] = s /\ \A i \in 1 .. Len(h) : g[i] = h[i]
  OBVIOUS
<1>2. OtherParts(h) \in Seq([Other -> BOOLEAN]) /\ Len(OtherParts(h)) = Len(h)
  BY <1>1, OtherPartType DEF OtherParts
<1>3. OtherPart(s) \in [Other -> BOOLEAN]
  BY OtherPartType
<1>4. /\ Append(OtherParts(h), OtherPart(s)) \in Seq([Other -> BOOLEAN])
      /\ Len(Append(OtherParts(h), OtherPart(s))) = Len(h) + 1
      /\ \A i \in 1 .. Len(h) : Append(OtherParts(h), OtherPart(s))[i] = OtherParts(h)[i]
      /\ Append(OtherParts(h), OtherPart(s))[Len(h) + 1] = OtherPart(s)
  BY <1>1, <1>2, <1>3
<1>5. /\ DOMAIN OtherParts(g) = 1 .. Len(h) + 1
      /\ \A i \in 1 .. Len(h) + 1 : OtherParts(g)[i] = OtherPart(g[i])
      /\ \A i \in 1 .. Len(h) : OtherParts(h)[i] = OtherPart(h[i])
  BY <1>1 DEF OtherParts
<1> DEFINE a == Append(OtherParts(h), OtherPart(s))
<1>6. \A i \in 1 .. Len(h) + 1 : OtherParts(g)[i] = a[i]
  <2> TAKE i \in 1 .. Len(h) + 1
  <2>1. i \in 1 .. Len(h) \/ i = Len(h) + 1
    BY <1>1
  <2> QED BY <1>1, <1>4, <1>5, <2>1
<1>7. a = [i \in 1 .. Len(h) + 1 |-> a[i]]
  <2> HIDE DEF a
  <2>1. a \in Seq([Other -> BOOLEAN]) /\ Len(a) = Len(h) + 1
    BY <1>4 DEF a
  <2> QED BY <2>1
<1>8. OtherParts(g) = [i \in 1 .. Len(h) + 1 |-> OtherParts(g)[i]]
  BY <1>1 DEF OtherParts
<1> HIDE DEF a, g
<1>9. OtherParts(g) = a
  BY <1>6, <1>7, <1>8
<1> QED BY <1>9 DEF a, g

LEMMA RefinedInit == Init => Replica!Init
<1> SUFFICES ASSUME Init PROVE Replica!Init
  OBVIOUS
<1>1. PICK s \in State : history = <<s>>
  BY DEF Init
<1>2. OtherParts(history) = <<OtherPart(s)>> /\ OtherPart(s) \in [Other -> BOOLEAN]
  BY <1>1, OtherPartType DEF OtherParts
<1>3. ~Synchronised
  BY DEF Init, Synchronised
<1> QED BY <1>2, <1>3 DEF Replica!Init, OtherParts

\* Each of the six things is a step of the replica, or none that it sees.
LEMMA RefinedStep == ASSUME Following, [Next]_vars PROVE [Replica!Next]_(Replica!vars)
<1> DEFINE h == OtherParts(history)
           position == IF Synchronised THEN lastEventId ELSE 0
           replica == IF Synchronised THEN OtherPart(view) ELSE None
<1>0. /\ history \in Seq(State) /\ Len(history) \in Nat \ {0}
      /\ Len(h) = Len(history) /\ \A i \in 1 .. Len(history) : h[i] = OtherPart(history[i])
      /\ view \in State
  BY LastState DEF Following, TypeOK, OtherParts
<1>1. CASE Advanced
  <2>1. PICK s \in State : history' = Append(history, s)
    BY <1>1 DEF Advanced
  <2>2. h' = Append(h, OtherPart(s)) /\ OtherPart(s) \in [Other -> BOOLEAN]
    BY <2>1, <1>0, OtherPartsAppend, OtherPartType
  <2>3. position' = position /\ replica' = replica
    BY <1>1 DEF Advanced, Synchronised
  <2>4. Replica!Advance
    BY <2>2, <2>3 DEF Replica!Advance, OtherParts
  <2> QED BY <2>4 DEF Replica!Next
<1>2. CASE Restarted
  <2>1. PICK s \in State : history' = <<s>> /\ ~Synchronised'
    BY <1>2 DEF Restarted
  <2>2. h' = <<OtherPart(s)>> /\ OtherPart(s) \in [Other -> BOOLEAN]
    BY <2>1, OtherPartType DEF OtherParts
  <2>3. Replica!Restart
    BY <2>1, <2>2 DEF Replica!Restart, OtherParts
  <2> QED BY <2>3 DEF Replica!Next
<1>3. CASE Lost
  <2>1. Replica!Lose
    BY <1>3 DEF Lost, Replica!Lose
  <2> QED BY <2>1 DEF Replica!Next
<1>4. CASE Stayed
  BY <1>4 DEF Stayed, Replica!vars
<1>5. CASE Followed
  <2>1. OtherPart(view) \in [Other -> BOOLEAN]
    BY <1>0, OtherPartType
  <2>2. replica # None
    BY <1>5, <2>1, NoneIsNoState DEF Followed
  <2>3. position = lastEventId /\ position \in 1 .. Len(h) - 1 /\ position' = position + 1
    BY <1>0, <1>5 DEF Followed
  <2>4. replica' = h[position + 1]
    BY <1>0, <1>5, <2>3 DEF Followed
  <2>5. h' = h /\ position < Len(h)
    BY <1>0, <1>5, <2>3 DEF Followed
  <2>6. Replica!Follow
    BY <2>2, <2>3, <2>4, <2>5 DEF Replica!Follow, OtherParts
  <2> QED BY <2>6 DEF Replica!Next
<1>6. CASE Resynced
  <2>1. replica = None /\ h' = h
    BY <1>6 DEF Resynced
  <2>2. position' = Len(h) /\ replica' = h[Len(h)]
    BY <1>0, <1>6 DEF Resynced, Last
  <2>3. Replica!Resync
    BY <2>1, <2>2 DEF Replica!Resync, OtherParts
  <2> QED BY <2>3 DEF Replica!Next
<1> QED BY EveryReplicaStep, <1>1, <1>2, <1>3, <1>4, <1>5, <1>6 DEF ReplicaStep

\* The client implements the replica: the collector follows the states of Faucet one by
\* one, leaves none out, and starts over from a scrape when it loses track.
THEOREM ReplicaIsImplemented == Spec => ImplementsReplica
<1>1. Following /\ [Next]_vars => [Replica!Next]_(Replica!vars)
  BY RefinedStep
<1> QED BY <1>1, RefinedInit, FollowingAlways, PTL DEF Spec, ImplementsReplica, Replica!Spec

-----------------------------------------------------------------------------
(* The ports, while nothing is lost. *)

\* While nothing has been lost the numbers in socket and buffer are those after the last
\* event accepted, without a gap; there is one numbered event in the buffer at most.
NothingLost == link /\ ~dropped
Numbered(i) == buffer[i].id # None
ChannelInOrder ==
    NothingLost => \A i \in 1 .. Len(channel) : channel[i].id = Len(history) - Len(channel) + i
BufferInOrder ==
    NothingLost =>
        /\ \A i \in InBuffer : Numbered(i) => buffer[i].id = Len(history) - Len(channel)
        /\ \A i, j \in InBuffer : Numbered(i) /\ Numbered(j) => i = j
        /\ loop \in {"restore", "recv"} => \A i \in InBuffer : ~Numbered(i)
HorizonInOrder ==
    NothingLost /\ Synchronised =>
        /\ lastEventId >= Len(history) - Len(channel) - 1
        /\ (\A i \in InBuffer : ~Numbered(i)) => lastEventId >= Len(history) - Len(channel)

\* The state of a port that the events in the buffer lead to.
Debounced(i, p) == i \in InBuffer /\ buffer[i].id = None /\ buffer[i].cell = p
LeadsTo(p, up) ==
    /\ (\A i \in InBuffer : ~Debounced(i, p)) => view[p] = up
    /\ \A i \in InBuffer :
        Debounced(i, p) /\ (\A j \in InBuffer : Debounced(j, p) => j <= i) => buffer[i].value = up

PreviousIsShown ==
    NothingLost =>
        \A p \in Port :
            /\ loop = "restore" => previous[p] = None
            /\ Synchronised /\ previous[p] # None => previous[p] = view[p]

\* Before the restoration only timers of the last connection append events.
OldTimers ==
    NothingLost /\ loop = "restore" =>
        \A p \in Port :
            /\ ~overtaken[p] => \A t \in Timer : ~Of(p, t)
            /\ \A i \in InBuffer : Debounced(i, p) => overtaken[p] /\ buffer[i].value = FALSE

\* A port that is down has a timer or is led to be down; one that is up has no timer left
\* and is led to be up, unless it has been overtaken.
PortsFollow ==
    NothingLost /\ Synchronised =>
        \A p \in Port :
            /\ ~history[lastEventId][p] => (\E t \in Timer : Of(p, t)) \/ LeadsTo(p, FALSE)
            /\ history[lastEventId][p] /\ ~overtaken[p] =>
                  (\A t \in Timer : ~Of(p, t)) /\ LeadsTo(p, TRUE)

\* While nothing is lost the collector is restored, and no event is out of order.
RunIsRestored ==
    NothingLost => loop # "resync" /\ (loop \in {"run", "recv"} => Synchronised)

PortsInvariant ==
    /\ Following
    /\ RunIsRestored
    /\ ChannelInOrder /\ BufferInOrder /\ HorizonInOrder
    /\ PreviousIsShown /\ OldTimers /\ PortsFollow

LEMMA PortsInit == Init => PortsInvariant
<1> SUFFICES ASSUME Init PROVE PortsInvariant
  OBVIOUS
<1>1. ~NothingLost
  BY DEF Init, NothingLost
<1> QED BY <1>1, FollowingInit DEF PortsInvariant, RunIsRestored, ChannelInOrder, BufferInOrder,
                                   HorizonInOrder, PreviousIsShown, OldTimers, PortsFollow

\* An event put at the end of the buffer decides what its port is led to.
LEMMA LeadsToAppend ==
    ASSUME NEW n \in Nat, InBuffer = 1 .. n, InBuffer' = 1 .. n + 1,
           \A i \in 1 .. n : buffer'[i] = buffer[i],
           view' = view, NEW p, NEW up
    PROVE  /\ buffer'[n + 1].id = None /\ buffer'[n + 1].cell = p /\ buffer'[n + 1].value = up => LeadsTo(p, up)'
           /\ ~(buffer'[n + 1].id = None /\ buffer'[n + 1].cell = p) /\ LeadsTo(p, up) => LeadsTo(p, up)'
<1>1. \A i \in 1 .. n : Debounced(i, p)' <=> Debounced(i, p)
  BY DEF Debounced
<1>2. Debounced(n + 1, p)' <=> buffer'[n + 1].id = None /\ buffer'[n + 1].cell = p
  BY DEF Debounced
<1>3. ASSUME buffer'[n + 1].id = None, buffer'[n + 1].cell = p, buffer'[n + 1].value = up
      PROVE  LeadsTo(p, up)'
  <2>1. ASSUME NEW i \in 1 .. n + 1, \A j \in 1 .. n + 1 : Debounced(j, p)' => j <= i
        PROVE  i = n + 1
    BY <1>2, <1>3, <2>1
  <2> QED BY <1>2, <1>3, <2>1 DEF LeadsTo
<1>4. ASSUME ~(buffer'[n + 1].id = None /\ buffer'[n + 1].cell = p), LeadsTo(p, up)
      PROVE  LeadsTo(p, up)'
  <2>1. (\A i \in 1 .. n + 1 : ~Debounced(i, p)') => view'[p] = up
    BY <1>1, <1>4 DEF LeadsTo
  <2>2. ASSUME NEW i \in 1 .. n + 1, Debounced(i, p)', \A j \in 1 .. n + 1 : Debounced(j, p)' => j <= i
        PROVE  buffer'[i].value = up
    <3>1. i \in 1 .. n
      BY <1>2, <1>4, <2>2
    <3>2. Debounced(i, p) /\ \A j \in 1 .. n : Debounced(j, p) => j <= i
      BY <1>1, <2>2, <3>1
    <3> QED BY <1>4, <3>1, <3>2 DEF LeadsTo
  <2> QED BY <2>1, <2>2 DEF LeadsTo
<1> QED BY <1>3, <1>4

\* A handled event leaves what a port is led to, if it is shown when it was debounced.
LEMMA LeadsToTail ==
    ASSUME NEW n \in Nat \ {0}, NEW m \in {n - 1, n}, InBuffer = 1 .. n, InBuffer' = 1 .. m,
           \A i \in 1 .. n - 1 : buffer'[i] = buffer[i + 1],
           NEW p, NEW up, LeadsTo(p, up),
           m = n => ~Debounced(n, p)',
           Debounced(1, p) => view'[p] = buffer[1].value,
           ~Debounced(1, p) => view'[p] = view[p]
    PROVE  LeadsTo(p, up)'
<1>1. \A i \in 1 .. n - 1 : Debounced(i, p)' <=> Debounced(i + 1, p)
  BY DEF Debounced
<1>2. ASSUME \A i \in 1 .. m : ~Debounced(i, p)'
      PROVE  view'[p] = up
  <2>1. ASSUME NEW j \in 2 .. n PROVE ~Debounced(j, p)
    <3>1. j - 1 \in 1 .. n - 1 /\ j - 1 \in 1 .. m /\ (j - 1) + 1 = j
      OBVIOUS
    <3> QED BY <1>1, <1>2, <3>1
  <2>2. CASE Debounced(1, p)
    <3>1. \A j \in 1 .. n : Debounced(j, p) => j <= 1
      BY <2>1
    <3>2. buffer[1].value = up
      BY <2>2, <3>1 DEF LeadsTo
    <3> QED BY <2>2, <3>2
  <2>3. CASE ~Debounced(1, p)
    <3>1. \A j \in 1 .. n : ~Debounced(j, p)
      BY <2>1, <2>3
    <3> QED BY <2>3, <3>1 DEF LeadsTo
  <2> QED BY <2>2, <2>3
<1>3. ASSUME NEW i \in 1 .. m, Debounced(i, p)', \A j \in 1 .. m : Debounced(j, p)' => j <= i
      PROVE  buffer'[i].value = up
  <2>1. i \in 1 .. n - 1
    BY <1>3
  <2>2. Debounced(i + 1, p) /\ i + 1 \in 1 .. n /\ buffer'[i] = buffer[i + 1]
    BY <1>1, <1>3, <2>1
  <2>3. ASSUME NEW j \in 1 .. n, Debounced(j, p)
        PROVE  j <= i + 1
    <3>1. CASE j = 1
      BY <3>1, <2>1
    <3>2. CASE j \in 2 .. n
      <4>1. j - 1 \in 1 .. n - 1 /\ j - 1 \in 1 .. m /\ (j - 1) + 1 = j
        BY <3>2
      <4>2. Debounced(j - 1, p)'
        BY <1>1, <2>3, <4>1
      <4> QED BY <1>3, <4>1, <4>2
    <3> QED BY <3>1, <3>2
  <2> QED BY <2>2, <2>3 DEF LeadsTo
<1> QED BY <1>2, <1>3 DEF LeadsTo

PortsKept ==
    /\ RunIsRestored'
    /\ ChannelInOrder' /\ BufferInOrder' /\ HorizonInOrder'
    /\ PreviousIsShown' /\ OldTimers' /\ PortsFollow'

LEMMA PortsLost == ASSUME ~NothingLost' PROVE PortsKept
BY DEF PortsKept, RunIsRestored, ChannelInOrder, BufferInOrder, HorizonInOrder, PreviousIsShown,
       OldTimers, PortsFollow

LEMMA PortsSame ==
    ASSUME PortsInvariant,
           UNCHANGED <<history, link, channel, dropped, loop, buffer, lastEventId, previous,
                       restored, view, overtaken>>,
           \A p \in Port, t \in Timer : Of(p, t)' <=> Of(p, t)
    PROVE  PortsKept
<1> USE DEF PortsInvariant, NothingLost, InBuffer, Numbered, Debounced, Synchronised
<1>1. RunIsRestored' /\ ChannelInOrder' /\ HorizonInOrder'
  BY DEF RunIsRestored, ChannelInOrder, HorizonInOrder
<1>2. BufferInOrder'
  BY DEF BufferInOrder
<1>3. PreviousIsShown'
  BY DEF PreviousIsShown
<1>4. OldTimers'
  BY DEF OldTimers
<1>5. PortsFollow'
  BY DEF PortsFollow, LeadsTo
<1> QED BY <1>1, <1>2, <1>3, <1>4, <1>5 DEF PortsKept

LEMMA PortsPublish ==
    ASSUME PortsInvariant, NEW c \in Cell, NEW v \in BOOLEAN, Publish(c, v), NothingLost'
    PROVE  PortsKept
<1> USE DEF PortsInvariant
<1> DEFINE e == [id |-> Len(history) + 1, cell |-> c, value |-> v]
<1>1. /\ NothingLost /\ channel' = Append(channel, e) /\ channel \in Seq(Event)
      /\ UNCHANGED <<link, loop, buffer, lastEventId, previous, timers, restored, view, overtaken>>
  BY DEF Publish, NothingLost, collector, Following, TypeOK
<1>2. /\ Len(history) \in Nat \ {0}
      /\ Len(history') = Len(history) + 1
      /\ \A k \in 1 .. Len(history) : history'[k] = history[k]
  BY PublishEffect DEF Following
<1>3. e \in Event /\ e.id = Len(history) + 1
  BY LastState DEF Publish, Event, Following
<1> HIDE DEF e
<1>4. /\ Len(channel') = Len(channel) + 1 /\ Len(channel) \in Nat
      /\ \A i \in 1 .. Len(channel) : channel'[i] = channel[i]
      /\ channel'[Len(channel) + 1] = e
  BY <1>1, <1>3, AppendEffect
<1>5. Len(history') - Len(channel') = Len(history) - Len(channel)
  BY <1>2, <1>4
<1>6. InBuffer' = InBuffer /\ Synchronised' = Synchronised /\ buffer' = buffer
  BY <1>1 DEF InBuffer, Synchronised
<1>7. RunIsRestored'
  BY <1>1, <1>6 DEF RunIsRestored
<1>8. ChannelInOrder'
  <2>1. ASSUME NEW i \in 1 .. Len(channel')
        PROVE  channel'[i].id = Len(history') - Len(channel') + i
    <3>1. CASE i \in 1 .. Len(channel)
      <4>1. channel[i].id = Len(history) - Len(channel) + i
        BY <3>1, <1>1 DEF ChannelInOrder
      <4> QED BY <4>1, <3>1, <1>4, <1>5
    <3>2. CASE i = Len(channel) + 1
      BY <3>2, <1>2, <1>3, <1>4
    <3> QED BY <3>1, <3>2, <1>4
  <2> QED BY <2>1 DEF ChannelInOrder
<1>9. BufferInOrder'
  BY <1>1, <1>5, <1>6 DEF BufferInOrder, Numbered
<1>10. HorizonInOrder'
  BY <1>1, <1>5, <1>6 DEF HorizonInOrder, Numbered
<1>11. PreviousIsShown'
  BY <1>1, <1>6 DEF PreviousIsShown
<1>12. OldTimers'
  BY <1>1, <1>6 DEF OldTimers, timers, Of, Debounced
<1>13. PortsFollow'
  <2>1. Synchronised => lastEventId \in 1 .. Len(history)
    BY DEF Following, OthersInOrder
  <2>2. Synchronised' => history'[lastEventId'] = history[lastEventId]
    BY <2>1, <1>1, <1>2, <1>6
  <2>3. \A p, up : LeadsTo(p, up)' <=> LeadsTo(p, up)
    BY <1>1, <1>6 DEF LeadsTo, Debounced
  <2>4. \A p, t : Of(p, t)' <=> Of(p, t)
    BY <1>1 DEF Of, timers
  <2> QED BY <2>2, <2>3, <2>4, <1>1, <1>6 DEF PortsFollow
<1> QED BY <1>7, <1>8, <1>9, <1>10, <1>11, <1>12, <1>13 DEF PortsKept

LEMMA PortsConnection ==
    ASSUME PortsInvariant, Connect \/ ConnectFails, NothingLost'
    PROVE  PortsKept
<1>0. /\ InBuffer' = {} /\ ~Synchronised' /\ loop' \notin {"run", "recv", "resync"}
      /\ \A p \in Port : previous'[p] = None
  BY DEF Connect, ConnectFails, InBuffer, Synchronised
<1>1. ChannelInOrder'
  <2>1. CASE Connect
    BY <2>1 DEF Connect, ChannelInOrder
  <2>2. CASE ConnectFails
    BY <2>2 DEF ConnectFails, PortsInvariant, ChannelInOrder, NothingLost
  <2> QED BY <2>1, <2>2
<1>2. OldTimers'
  <2>1. CASE Connect
    BY <2>1, <1>0 DEF Connect, OldTimers, Of, timers
  <2>2. CASE ConnectFails
    BY <2>2, <1>0 DEF ConnectFails, OldTimers
  <2> QED BY <2>1, <2>2
<1>3. PreviousIsShown'
  BY <1>0 DEF PreviousIsShown
<1> QED BY <1>0, <1>1, <1>2, <1>3 DEF PortsKept, RunIsRestored, BufferInOrder, HorizonInOrder, PortsFollow

LEMMA PortsRestore ==
    ASSUME PortsInvariant, Restore, NothingLost'
    PROVE  PortsKept
<1> USE DEF PortsInvariant
<1>1. /\ NothingLost /\ loop = "restore" /\ loop' = "run" /\ Synchronised'
      /\ lastEventId' = Len(history) /\ view' = Last(history)
      /\ UNCHANGED <<history, link, channel, dropped, buffer, previous, timer, overtaken>>
      /\ InBuffer' = InBuffer
  BY DEF Restore, Scrape, SetEventHorizon, NothingLost, faucet, timers, Synchronised, InBuffer
<1>2. Len(history) \in Nat \ {0} /\ Len(channel) \in Nat /\ history[Len(history)] = Last(history)
  BY LastState DEF Following, TypeOK, Last
<1>3. RunIsRestored' /\ ChannelInOrder'
  BY <1>1 DEF RunIsRestored, ChannelInOrder
<1>4. BufferInOrder'
  BY <1>1 DEF BufferInOrder, Numbered
<1>5. HorizonInOrder'
  BY <1>1, <1>2 DEF HorizonInOrder
<1>6. PreviousIsShown' /\ OldTimers'
  BY <1>1 DEF PreviousIsShown, OldTimers
<1>7. PortsFollow'
  <2>1. ASSUME NEW p \in Port, ~history'[lastEventId'][p]
        PROVE  LeadsTo(p, FALSE)'
    <3>1. view'[p] = FALSE
      <4>1. view' \in State /\ p \in Cell
        BY <1>1, LastState DEF Following, Cell
      <4> QED BY <4>1, <2>1, <1>1, <1>2 DEF State
    <3>2. \A i \in InBuffer : Debounced(i, p) => buffer[i].value = FALSE
      BY <1>1 DEF OldTimers
    <3> QED BY <3>1, <3>2, <1>1 DEF LeadsTo, Debounced
  <2>2. ASSUME NEW p \in Port, history'[lastEventId'][p], ~overtaken'[p]
        PROVE  (\A t \in Timer : ~Of(p, t)') /\ LeadsTo(p, TRUE)'
    <3>1. view'[p] = TRUE
      <4>1. view' \in State /\ p \in Cell
        BY <1>1, LastState DEF Following, Cell
      <4> QED BY <4>1, <2>2, <1>1, <1>2 DEF State
    <3>2. (\A t \in Timer : ~Of(p, t)) /\ \A i \in InBuffer : ~Debounced(i, p)
      BY <2>2, <1>1 DEF OldTimers
    <3> QED BY <3>1, <3>2, <1>1 DEF LeadsTo, Debounced, Of
  <2> QED BY <2>1, <2>2 DEF PortsFollow
<1> QED BY <1>3, <1>4, <1>5, <1>6, <1>7 DEF PortsKept

LEMMA PortsBlock == ASSUME PortsInvariant, Block PROVE PortsKept
<1> USE DEF PortsInvariant
<1>1. /\ loop = "run" /\ loop' = "recv" /\ buffer = <<>> /\ InBuffer = {} /\ InBuffer' = {}
      /\ UNCHANGED <<history, link, channel, dropped, buffer, lastEventId, previous, timer, restored,
                     view, overtaken>>
      /\ NothingLost' = NothingLost /\ Synchronised' = Synchronised
  BY DEF Block, faucet, timers, collector, InBuffer, NothingLost, Synchronised
<1>2. RunIsRestored' /\ ChannelInOrder' /\ BufferInOrder' /\ PreviousIsShown' /\ OldTimers'
  BY <1>1 DEF RunIsRestored, ChannelInOrder, BufferInOrder, PreviousIsShown, OldTimers
<1>3. HorizonInOrder'
  BY <1>1 DEF HorizonInOrder
<1>4. PortsFollow'
  BY <1>1 DEF PortsFollow, LeadsTo, Debounced, Of
<1> QED BY <1>2, <1>3, <1>4 DEF PortsKept

LEMMA PortsReceive ==
    ASSUME PortsInvariant, Receive, NothingLost'
    PROVE  PortsKept
<1> USE DEF PortsInvariant
<1> PICK e : e = channel[1]
  OBVIOUS
<1> PICK n : n = Len(buffer)
  OBVIOUS
<1>1. /\ NothingLost /\ loop = "recv" /\ loop' = "run" /\ channel \in Seq(Event) /\ channel # <<>>
      /\ channel' = Tail(channel) /\ buffer' = Append(buffer, Head(channel)) /\ buffer # None
      /\ UNCHANGED <<history, link, dropped, lastEventId, previous, timer, restored, view, overtaken>>
      /\ Synchronised' = Synchronised /\ Synchronised
  BY DEF Receive, timers, collector, NothingLost, Synchronised, Following, TypeOK, RunIsRestored
<1>2. /\ Len(channel') = Len(channel) - 1 /\ Len(channel) \in Nat \ {0}
      /\ \A i \in 1 .. Len(channel) - 1 : channel'[i] = channel[i + 1]
      /\ Head(channel) = e /\ e \in Event
  BY <1>1, TailEffect
<1>3. /\ InBuffer = 1 .. n /\ n \in Nat
      /\ InBuffer' = 1 .. n + 1
      /\ \A i \in 1 .. n : buffer'[i] = buffer[i]
      /\ buffer'[n + 1] = e
  BY <1>1, <1>2, BufferAppend DEF Following
<1>4. Len(history) \in Nat
  BY LastState DEF Following
<1>5. e.id = Len(history) - Len(channel) + 1 /\ e.id # None
  <2>1. 1 \in 1 .. Len(channel)
    BY <1>2
  <2> QED BY <2>1, <1>1 DEF ChannelInOrder, Following, ChannelReports
<1>6. \A i \in 1 .. n : ~Numbered(i)
  BY <1>1, <1>3 DEF BufferInOrder
<1>7. RunIsRestored'
  BY <1>1 DEF RunIsRestored
<1>8. ChannelInOrder'
  <2>1. ASSUME NEW i \in 1 .. Len(channel')
        PROVE  channel'[i].id = Len(history') - Len(channel') + i
    <3>1. i + 1 \in 1 .. Len(channel) /\ channel'[i] = channel[i + 1]
      BY <1>2
    <3>2. channel[i + 1].id = Len(history) - Len(channel) + (i + 1)
      BY <3>1, <1>1 DEF ChannelInOrder
    <3> QED BY <3>1, <3>2, <1>1, <1>2, <1>4
  <2> QED BY <2>1 DEF ChannelInOrder
<1>9. BufferInOrder'
  <2>1. \A i \in 1 .. n + 1 : Numbered(i)' => i = n + 1
    BY <1>3, <1>6 DEF Numbered
  <2>2. buffer'[n + 1].id = Len(history') - Len(channel')
    <3>1. Len(history') - Len(channel') = Len(history) - Len(channel) + 1
      BY <1>1, <1>2, <1>4
    <3> QED BY <3>1, <1>3, <1>5
  <2> QED BY <2>1, <2>2, <1>1, <1>3 DEF BufferInOrder
<1>10. HorizonInOrder'
  <2>1. lastEventId >= Len(history) - Len(channel)
    BY <1>1, <1>3, <1>6 DEF HorizonInOrder
  <2>2. Numbered(n + 1)' /\ n + 1 \in InBuffer'
    BY <1>3, <1>5 DEF Numbered
  <2>3. lastEventId' >= Len(history') - Len(channel') - 1
    BY <2>1, <1>1, <1>2, <1>4
  <2> QED BY <2>2, <2>3 DEF HorizonInOrder
<1>11. PreviousIsShown' /\ OldTimers'
  BY <1>1 DEF PreviousIsShown, OldTimers
<1>12. PortsFollow'
  <2>1. \A p, up : LeadsTo(p, up) => LeadsTo(p, up)'
    BY <1>1, <1>3, <1>5, LeadsToAppend
  <2>2. \A p, t : Of(p, t)' <=> Of(p, t)
    BY <1>1 DEF Of
  <2> QED BY <2>1, <2>2, <1>1 DEF PortsFollow
<1> QED BY <1>7, <1>8, <1>9, <1>10, <1>11, <1>12 DEF PortsKept

LEMMA PortsAppendDown ==
    ASSUME PortsInvariant, NEW t \in Timer, AppendDown(t), NothingLost'
    PROVE  PortsKept
<1> USE DEF PortsInvariant
<1> PICK p : p = timer[t].port
  OBVIOUS
<1> PICK d : d = Down(p)
  OBVIOUS
<1> PICK n : n = Len(buffer)
  OBVIOUS
<1>1. /\ NothingLost /\ Synchronised' = Synchronised
      /\ UNCHANGED <<history, link, channel, dropped, loop, lastEventId, previous, restored, view,
                     overtaken>>
      /\ timer' = [timer EXCEPT ![t] = None] /\ timer \in [Timer -> Thread \cup {None}]
  BY DEF AppendDown, faucet, collector, NothingLost, Synchronised, Following, TypeOK
<1>2. /\ d \in Event /\ p \in Port /\ timer[t] # None
      /\ buffer' = IF buffer = None THEN None ELSE Append(buffer, d)
  BY AppendDownEffect DEF Following
<1>3. Of(p, t)
  BY <1>2 DEF Of
<1>4. \A q \in Port, u \in Timer : Of(q, u)' => Of(q, u)
  BY <1>1 DEF Of
<1>5. \A q \in Port, u \in Timer : q # p => (Of(q, u)' <=> Of(q, u))
  BY <1>1 DEF Of
<1>6. d.id = None /\ d.cell = p /\ d.value = FALSE
  BY DEF Down
<1>7. RunIsRestored' /\ ChannelInOrder' /\ PreviousIsShown'
  BY <1>1 DEF RunIsRestored, ChannelInOrder, PreviousIsShown
<1>8. CASE buffer = None
  <2>1. InBuffer = {} /\ InBuffer' = {} /\ loop \notin {"run", "recv", "restore"} /\ ~Synchronised
    BY <1>2, <1>8 DEF InBuffer, Following, TypeOK, Synchronised
  <2> QED BY <2>1, <1>1, <1>7 DEF PortsKept, BufferInOrder, HorizonInOrder, OldTimers, PortsFollow
<1>9. CASE buffer # None
  <2>1. /\ InBuffer = 1 .. n /\ n \in Nat
        /\ InBuffer' = 1 .. n + 1
        /\ \A i \in 1 .. n : buffer'[i] = buffer[i]
        /\ buffer'[n + 1] = d
    BY <1>2, <1>9, BufferAppend DEF Following
  <2>2. ~Numbered(n + 1)' /\ \A i \in 1 .. n : Numbered(i)' <=> Numbered(i)
    BY <2>1, <1>6 DEF Numbered
  <2>3. BufferInOrder'
    <3>1. \A i \in 1 .. n + 1 : Numbered(i)' => i \in 1 .. n /\ Numbered(i) /\ buffer'[i] = buffer[i]
      BY <2>1, <2>2
    <3>2. /\ \A i \in 1 .. n : Numbered(i) => buffer[i].id = Len(history) - Len(channel)
          /\ \A i, j \in 1 .. n : Numbered(i) /\ Numbered(j) => i = j
          /\ loop \in {"restore", "recv"} => \A i \in 1 .. n : ~Numbered(i)
      BY <1>1, <2>1 DEF BufferInOrder
    <3> QED BY <3>1, <3>2, <1>1, <2>1 DEF BufferInOrder
  <2>4. HorizonInOrder'
    BY <1>1, <2>1, <2>2 DEF HorizonInOrder
  <2>5. OldTimers'
    <3>1. ASSUME loop = "restore"
          PROVE  overtaken[p]
      BY <3>1, <1>1, <1>2, <1>3 DEF OldTimers
    <3>2. ASSUME NEW q \in Port, NEW i \in 1 .. n + 1, Debounced(i, q)', loop = "restore"
          PROVE  overtaken[q] /\ buffer'[i].value = FALSE
      <4>1. CASE i \in 1 .. n
        <5>1. Debounced(i, q) /\ buffer'[i] = buffer[i]
          BY <4>1, <3>2, <2>1 DEF Debounced
        <5> QED BY <5>1, <4>1, <3>2, <1>1, <2>1 DEF OldTimers
      <4>2. CASE i = n + 1
        <5>1. q = p
          BY <4>2, <3>2, <2>1, <1>6 DEF Debounced
        <5> QED BY <5>1, <4>2, <3>1, <3>2, <2>1, <1>6
      <4>3. i \in 1 .. n \/ i = n + 1
        BY <2>1
      <4> QED BY <4>1, <4>2, <4>3
    <3>3. ASSUME NEW q \in Port, ~overtaken[q], loop = "restore"
          PROVE  \A u \in Timer : ~Of(q, u)'
      BY <3>3, <1>1, <1>4 DEF OldTimers
    <3> QED BY <3>2, <3>3, <1>1, <2>1 DEF OldTimers
  <2>6. PortsFollow'
    <3>1. LeadsTo(p, FALSE)'
      BY <1>1, <1>6, <2>1, LeadsToAppend
    <3>2. \A q, up : q # p /\ LeadsTo(q, up) => LeadsTo(q, up)'
      BY <1>1, <1>6, <2>1, LeadsToAppend
    <3>3. ASSUME NEW q \in Port, Synchronised, ~history[lastEventId][q]
          PROVE  (\E u \in Timer : Of(q, u)') \/ LeadsTo(q, FALSE)'
      <4>1. CASE q = p
        BY <4>1, <3>1
      <4>2. CASE q # p
        BY <4>2, <3>2, <3>3, <1>1, <1>5 DEF PortsFollow
      <4> QED BY <4>1, <4>2
    <3>4. ASSUME NEW q \in Port, Synchronised, history[lastEventId][q], ~overtaken[q]
          PROVE  (\A u \in Timer : ~Of(q, u)') /\ LeadsTo(q, TRUE)'
      <4>1. (\A u \in Timer : ~Of(q, u)) /\ LeadsTo(q, TRUE)
        BY <3>4, <1>1 DEF PortsFollow
      <4>2. q # p
        BY <4>1, <1>3
      <4> QED BY <4>1, <4>2, <1>4, <3>2
    <3> QED BY <3>3, <3>4, <1>1 DEF PortsFollow
  <2> QED BY <1>7, <2>3, <2>4, <2>5, <2>6 DEF PortsKept
<1> QED BY <1>8, <1>9

\* What is known of an event that is handled while nothing is lost.
LEMMA HandledInOrder ==
    ASSUME PortsInvariant, NothingLost, NEW e \in Event, Next1(e)
    PROVE  /\ loop = "run" /\ Synchronised /\ lastEventId \in 1 .. Len(history) /\ lastEventId # None
           /\ Len(history) \in Nat /\ Len(channel) \in Nat
           /\ e.id # None => e.id = Len(history) - Len(channel) /\ e.id <= lastEventId + 1
<1> USE DEF PortsInvariant
<1>1. loop = "run" /\ Synchronised
  BY DEF Next1, RunIsRestored
<1>2. lastEventId \in 1 .. Len(history) /\ Len(history) \in Nat /\ Len(channel) \in Nat
  BY <1>1, LastState DEF Following, OthersInOrder, TypeOK
<1>3. lastEventId # None
  BY <1>2, NoneIsNoId
<1>4. e = buffer[1] /\ 1 \in InBuffer
  BY Handled, NoneIsNoBuffer DEF Following, InBuffer, TypeOK, Next1
<1>5. e.id # None => e.id = Len(history) - Len(channel)
  BY <1>4 DEF BufferInOrder, Numbered
<1>6. lastEventId >= Len(history) - Len(channel) - 1
  BY <1>1 DEF HorizonInOrder
<1> QED BY <1>1, <1>2, <1>3, <1>5, <1>6

LEMMA HandlersInOrder ==
    ASSUME PortsInvariant, NothingLost, NEW e \in Event, Next1(e), UNCHANGED faucet,
           HandleDebounced(e) \/ HandleOutdated(e) \/ HandleOther(e) \/ HandlePort(e)
    PROVE  /\ Synchronised' /\ loop' = "run"
           /\ RunIsRestored' /\ ChannelInOrder' /\ BufferInOrder' /\ HorizonInOrder' /\ OldTimers'
<1> USE DEF PortsInvariant
<1>0. /\ loop = "run" /\ Synchronised /\ lastEventId \in 1 .. Len(history) /\ lastEventId # None
      /\ Len(history) \in Nat /\ Len(channel) \in Nat
      /\ e.id # None => e.id = Len(history) - Len(channel) /\ e.id <= lastEventId + 1
  BY HandledInOrder
<1>1. UNCHANGED <<history, link, channel, dropped, loop, restored>> /\ NothingLost'
  BY DEF faucet, NothingLost, HandleDebounced, HandleOutdated, HandleOther, HandlePort, collector
<1>2. Synchronised' /\ loop' = "run"
  BY <1>0, <1>1 DEF Synchronised
<1> PICK n : n = Len(buffer)
  OBVIOUS
<1>3. /\ InBuffer = 1 .. n /\ n \in Nat \ {0} /\ e = buffer[1]
      /\ \/ InBuffer' = 1 .. n - 1
         \/ InBuffer' = 1 .. n /\ buffer'[n] = Up(e.cell)
      /\ \A i \in 1 .. n - 1 : buffer'[i] = buffer[i + 1]
  BY HandledBuffer DEF Following
<1>4. ASSUME NEW i \in InBuffer', Numbered(i)'
      PROVE  i + 1 \in InBuffer /\ Numbered(i + 1) /\ buffer'[i] = buffer[i + 1]
  <2>1. ~(i = n /\ buffer'[n] = Up(e.cell))
    BY <1>4 DEF Numbered, Up
  <2>2. i \in 1 .. n - 1
    BY <1>3, <2>1
  <2> QED BY <1>3, <1>4, <2>2 DEF Numbered
<1>5. BufferInOrder'
  <2>1. /\ \A i \in InBuffer : Numbered(i) => buffer[i].id = Len(history) - Len(channel)
        /\ \A i, j \in InBuffer : Numbered(i) /\ Numbered(j) => i = j
    BY DEF BufferInOrder
  <2>2. ASSUME NEW i \in InBuffer', NEW j \in InBuffer', Numbered(i)', Numbered(j)'
        PROVE  i = j
    <3>1. i + 1 = j + 1 /\ i \in Nat /\ j \in Nat
      BY <1>3, <1>4, <2>1, <2>2
    <3> QED BY <3>1
  <2>3. ASSUME NEW i \in InBuffer', Numbered(i)'
        PROVE  buffer'[i].id = Len(history') - Len(channel')
    BY <1>1, <1>4, <2>1, <2>3
  <2> QED BY <1>2, <2>2, <2>3 DEF BufferInOrder
<1>6. HorizonInOrder'
  <2>1. CASE HandleDebounced(e)
    <3>1. lastEventId' = lastEventId /\ ~Numbered(1)
      BY <2>1, <1>3 DEF HandleDebounced, Numbered
    <3>2. (\A i \in InBuffer' : ~Numbered(i)') => \A i \in InBuffer : ~Numbered(i)
      <4>1. ASSUME NEW i \in InBuffer, Numbered(i)
            PROVE  i - 1 \in InBuffer' /\ Numbered(i - 1)'
        <5>1. i \in 2 .. n
          BY <4>1, <3>1, <1>3
        <5>2. i - 1 \in 1 .. n - 1 /\ (i - 1) + 1 = i
          BY <5>1, <1>3
        <5>3. i - 1 \in InBuffer' /\ buffer'[i - 1] = buffer[i]
          BY <5>2, <1>3
        <5> QED BY <4>1, <5>3 DEF Numbered
      <4> QED BY <4>1
    <3> QED BY <1>0, <1>1, <3>1, <3>2 DEF HorizonInOrder
  <2>2. CASE ~HandleDebounced(e)
    <3>1. lastEventId' >= Len(history) - Len(channel)
      BY <2>2, <1>0 DEF HandleOutdated, HandleOther, HandlePort, Fresh
    <3>2. lastEventId' \in Int
      <4>1. lastEventId' = lastEventId \/ (e.id # None /\ lastEventId' = e.id)
        BY <2>2 DEF HandleOutdated, HandleOther, HandlePort, Fresh
      <4> QED BY <4>1, <1>0
    <3>3. lastEventId' >= Len(history) - Len(channel) - 1
      BY <3>1, <3>2, <1>0
    <3> QED BY <1>1, <3>1, <3>3 DEF HorizonInOrder
  <2> QED BY <2>1, <2>2
<1>7. RunIsRestored' /\ ChannelInOrder' /\ OldTimers'
  BY <1>1, <1>2 DEF RunIsRestored, ChannelInOrder, OldTimers
<1> QED BY <1>2, <1>5, <1>6, <1>7

\* The handled event is no debounced one, or it is the port's.
LEMMA HandledLeadsTo ==
    ASSUME PortsInvariant, NothingLost, NEW e \in Event, Next1(e),
           HandleDebounced(e) \/ HandleOutdated(e) \/ HandleOther(e) \/ HandlePort(e)
    PROVE  /\ \A p \in Port : \A up :
                 LeadsTo(p, up) /\ ~(HandlePort(e) /\ e.value /\ e.cell = p) => LeadsTo(p, up)'
           /\ HandlePort(e) /\ e.value => LeadsTo(e.cell, TRUE)'
           /\ PreviousIsShown'
<1> USE DEF PortsInvariant
<1>0. loop = "run" /\ Synchronised /\ view \in State /\ previous \in [Port -> BOOLEAN \cup {None}]
  BY HandledInOrder DEF Following, TypeOK
<1> PICK n : n = Len(buffer)
  OBVIOUS
<1>1. /\ InBuffer = 1 .. n /\ n \in Nat \ {0} /\ e = buffer[1]
      /\ \/ InBuffer' = 1 .. n - 1 /\ (HandlePort(e) => ~e.value)
         \/ InBuffer' = 1 .. n /\ HandlePort(e) /\ e.value /\ buffer'[n] = Up(e.cell)
      /\ \A i \in 1 .. n - 1 : buffer'[i] = buffer[i + 1]
  BY HandledBuffer DEF Following
<1>2. \A p \in Port : previous[p] # None => previous[p] = view[p]
  BY <1>0 DEF PreviousIsShown
<1>3. ASSUME NEW p \in Port, Debounced(1, p)
      PROVE  HandleDebounced(e) /\ e.cell = p
  BY <1>1, <1>3 DEF Debounced, HandleOutdated, HandleOther, HandlePort, Fresh
<1>4. ASSUME HandleDebounced(e)
      PROVE  /\ e.cell \in Port
             /\ previous' = [previous EXCEPT ![e.cell] = e.value]
             /\ view' = [view EXCEPT ![e.cell] = e.value]
  <2>1. e.cell \in Port
    BY <1>1, <1>4 DEF HandleDebounced, Following, BufferReports
  <2>2. previous[e.cell] = e.value => view[e.cell] = e.value
    BY <2>1, <1>2, NoneIsNoBoolean DEF Event
  <2>3. view[e.cell] = e.value => view = [view EXCEPT ![e.cell] = e.value]
    BY <1>0 DEF State
  <2> QED BY <1>4, <2>1, <2>2, <2>3 DEF HandleDebounced, ProcessPortChange
<1>5. ASSUME NEW p \in Port, ~Debounced(1, p)
      PROVE  view'[p] = view[p] /\ previous'[p] = previous[p]
  <2>1. CASE HandleDebounced(e)
    <3>1. e.cell # p
      BY <2>1, <1>1, <1>5 DEF HandleDebounced, Debounced
    <3> QED BY <2>1, <3>1, <1>0, <1>4 DEF State, Cell
  <2>2. CASE HandleOutdated(e) \/ HandlePort(e)
    BY <2>2 DEF HandleOutdated, HandlePort, collector
  <2>3. CASE HandleOther(e)
    <3>1. e.cell # p
      BY <2>3, ConfigAssumption DEF HandleOther
    <3> QED BY <2>3, <3>1, <1>0 DEF HandleOther, State, Cell
  <2> QED BY <2>1, <2>2, <2>3
<1>6. ASSUME NEW p \in Port, Debounced(1, p)
      PROVE  view'[p] = buffer[1].value /\ previous'[p] = buffer[1].value
  BY <1>0, <1>1, <1>3, <1>4, <1>6 DEF State, Cell
<1>7. PreviousIsShown'
  <2>1. ASSUME NEW p \in Port, previous'[p] # None
        PROVE  previous'[p] = view'[p]
    <3>1. CASE Debounced(1, p)
      BY <3>1, <1>6
    <3>2. CASE ~Debounced(1, p)
      BY <3>2, <2>1, <1>2, <1>5
    <3> QED BY <3>1, <3>2
  <2>2. loop' # "restore"
    BY <1>0 DEF HandleDebounced, HandleOutdated, HandleOther, HandlePort
  <2> QED BY <2>1, <2>2 DEF PreviousIsShown
<1>8. ASSUME NEW p \in Port, NEW up, LeadsTo(p, up), ~(HandlePort(e) /\ e.value /\ e.cell = p)
      PROVE  LeadsTo(p, up)'
  <2>1. CASE InBuffer' = 1 .. n - 1
    BY <2>1, <1>1, <1>5, <1>6, <1>8, LeadsToTail
  <2>2. CASE InBuffer' = 1 .. n /\ HandlePort(e) /\ e.value /\ buffer'[n] = Up(e.cell)
    <3>1. ~Debounced(n, p)'
      BY <2>2, <1>8 DEF Debounced, Up
    <3> QED BY <2>2, <3>1, <1>1, <1>5, <1>6, <1>8, LeadsToTail
  <2> QED BY <1>1, <2>1, <2>2
<1>9. ASSUME HandlePort(e), e.value
      PROVE  LeadsTo(e.cell, TRUE)'
  <2> PICK p : p = e.cell
    OBVIOUS
  <2>1. InBuffer' = 1 .. n /\ buffer'[n] = Up(p)
    BY <1>1, <1>9
  <2>2. Debounced(n, p)' /\ buffer'[n].value = TRUE
    BY <2>1, <1>1 DEF Debounced, Up
  <2>3. ASSUME NEW i \in 1 .. n, \A j \in 1 .. n : Debounced(j, p)' => j <= i
        PROVE  i = n
    BY <2>2, <2>3, <1>1
  <2>4. LeadsTo(p, TRUE)'
    BY <1>1, <2>1, <2>2, <2>3 DEF LeadsTo
  <2> QED BY <2>4
<1> QED BY <1>7, <1>8, <1>9

\* The events that do not concern a port's state, and those that do.
LEMMA HandlersPortsFollow ==
    ASSUME PortsInvariant, NothingLost, NEW e \in Event, Next1(e), UNCHANGED faucet,
           HandleDebounced(e) \/ HandleOutdated(e) \/ HandleOther(e) \/ HandlePort(e)
    PROVE  PortsFollow'
<1> USE DEF PortsInvariant
<1>0. /\ loop = "run" /\ Synchronised /\ lastEventId \in 1 .. Len(history)
      /\ history' = history
      /\ \A p \in Port :
            /\ ~history[lastEventId][p] => (\E t \in Timer : Of(p, t)) \/ LeadsTo(p, FALSE)
            /\ history[lastEventId][p] /\ ~overtaken[p] =>
                  (\A t \in Timer : ~Of(p, t)) /\ LeadsTo(p, TRUE)
  BY HandledInOrder DEF PortsFollow, faucet
<1>1. /\ \A p \in Port : \A up :
            LeadsTo(p, up) /\ ~(HandlePort(e) /\ e.value /\ e.cell = p) => LeadsTo(p, up)'
      /\ HandlePort(e) /\ e.value => LeadsTo(e.cell, TRUE)'
  BY HandledLeadsTo
<1>2. ASSUME HandleOther(e) \/ HandlePort(e)
      PROVE  /\ lastEventId' = lastEventId + 1
             /\ history[lastEventId] \in State
             /\ history[lastEventId'] = [history[lastEventId] EXCEPT ![e.cell] = e.value]
  <2>1. Fresh(e) /\ e.id = lastEventId + 1 /\ lastEventId' = e.id
    BY <1>2 DEF HandleOther, HandlePort
  <2> QED BY <2>1, <1>0, AcceptedIsNext
<1>3. CASE HandleDebounced(e) \/ HandleOutdated(e)
  <2>1. lastEventId' = lastEventId /\ timer' = timer /\ overtaken' = overtaken /\ ~(HandlePort(e) /\ e.value)
    <3>1. CASE HandleDebounced(e)
      BY <3>1 DEF HandleDebounced, HandlePort, Fresh, timers
    <3>2. CASE HandleOutdated(e)
      <4>1. e.id \in Nat /\ lastEventId \in Nat /\ e.id <= lastEventId
        BY <3>2, <1>0 DEF HandleOutdated, Event
      <4>2. ~HandlePort(e)
        <5>1. HandlePort(e) => e.id > lastEventId
          BY Zenon DEF HandlePort, Fresh
        <5> QED BY <4>1, <5>1
      <4> QED BY <3>2, <4>2 DEF HandleOutdated, timers
    <3> QED BY <1>3, <3>1, <3>2
  <2>2. \A p, t : Of(p, t)' <=> Of(p, t)
    BY <2>1 DEF Of
  <2> QED BY <1>0, <1>1, <2>1, <2>2 DEF PortsFollow
<1>4. CASE HandleOther(e)
  <2>1. timer' = timer /\ overtaken' = overtaken /\ e.cell \in Other
    BY <1>4 DEF HandleOther, timers
  <2>2. \A p \in Port : e.cell # p /\ p \in Cell
    BY <2>1, ConfigAssumption DEF Cell
  <2>3. \A p \in Port : history'[lastEventId'][p] = history[lastEventId][p]
    BY <1>0, <1>2, <1>4, <2>2 DEF State
  <2>4. \A p, t : Of(p, t)' <=> Of(p, t)
    BY <2>1 DEF Of
  <2> QED BY <1>0, <1>1, <2>1, <2>2, <2>3, <2>4 DEF PortsFollow
<1>5. CASE HandlePort(e)
  <2>1. e.cell \in Port /\ timer \in [Timer -> Thread \cup {None}] /\ overtaken \in [Port -> BOOLEAN]
    BY <1>5 DEF HandlePort, Following, TypeOK
  <2>2. \A p \in Port : p # e.cell => history'[lastEventId'][p] = history[lastEventId][p]
    BY <1>0, <1>2, <1>5, <2>1 DEF State, Cell
  <2>3. history'[lastEventId'][e.cell] = e.value
    BY <1>0, <1>2, <1>5, <2>1 DEF State, Cell
  <2>4. \A p \in Port, t \in Timer : p # e.cell => (Of(p, t)' <=> Of(p, t))
    <3> SUFFICES ASSUME NEW p \in Port, NEW t \in Timer, p # e.cell
                 PROVE  Of(p, t)' <=> Of(p, t)
      OBVIOUS
    <3>1. \A u \in Timer : Of(p, u) => Cancelled(e.cell)[u] = timer[u]
      BY DEF Cancelled, Of
    <3>2. \A u \in Timer : Cancelled(e.cell)[u] \in {timer[u], None}
      BY DEF Cancelled
    <3>3. CASE timer' = Cancelled(e.cell)
      BY <3>1, <3>2, <3>3 DEF Of
    <3>4. ASSUME NEW u \in Timer, timer[u] = None,
                 timer' = [Cancelled(e.cell) EXCEPT ![u] = [port |-> e.cell, phase |-> "running"]]
          PROVE  Of(p, t)' <=> Of(p, t)
      <4>1. DOMAIN Cancelled(e.cell) = Timer
        BY DEF Cancelled
      <4>2. CASE t = u
        <5>1. timer'[t].port = e.cell
          BY <3>4, <4>1, <4>2
        <5> QED BY <5>1, <3>4, <4>2 DEF Of
      <4>3. CASE t # u
        <5>1. timer'[t] = Cancelled(e.cell)[t]
          BY <3>4, <4>1, <4>3
        <5> QED BY <5>1, <3>1, <3>2 DEF Of
      <4> QED BY <4>2, <4>3
    <3> QED BY <1>5, <3>3, <3>4 DEF HandlePort
  <2>5. CASE e.value
    <3>1. /\ timer' = Cancelled(e.cell)
          /\ overtaken' = [overtaken EXCEPT ![e.cell] = \E t \in Timer : TooLate(e.cell, t)]
      BY <1>5, <2>5 DEF HandlePort
    <3>2. ASSUME ~overtaken'[e.cell]
          PROVE  \A t \in Timer : ~Of(e.cell, t)'
      <4>1. \A t \in Timer : ~TooLate(e.cell, t)
        BY <3>1, <3>2, <2>1
      <4>2. \A t \in Timer : timer'[t] = IF Of(e.cell, t) THEN None ELSE timer[t]
        BY <3>1, <4>1 DEF Cancelled
      <4> QED BY <4>2 DEF Of
    <3>3. \A p \in Port : p # e.cell => overtaken'[p] = overtaken[p]
      BY <3>1, <2>1
    <3>4. LeadsTo(e.cell, TRUE)'
      BY <1>1, <1>5, <2>5
    <3>5. \A p \in Port : \A up : p # e.cell /\ LeadsTo(p, up) => LeadsTo(p, up)'
      BY <1>1
    <3>6. ASSUME NEW p \in Port, ~history'[lastEventId'][p]
          PROVE  (\E t \in Timer : Of(p, t)') \/ LeadsTo(p, FALSE)'
      <4>1. p # e.cell
        BY <2>3, <2>5, <3>6
      <4> QED BY <4>1, <3>6, <2>2, <2>4, <3>5, <1>0
    <3>7. ASSUME NEW p \in Port, history'[lastEventId'][p], ~overtaken'[p]
          PROVE  (\A t \in Timer : ~Of(p, t)') /\ LeadsTo(p, TRUE)'
      <4>1. CASE p = e.cell
        BY <4>1, <3>2, <3>4, <3>7
      <4>2. CASE p # e.cell
        BY <4>2, <3>7, <2>2, <2>4, <3>3, <3>5, <1>0
      <4> QED BY <4>1, <4>2
    <3> QED BY <3>6, <3>7 DEF PortsFollow
  <2>6. CASE ~e.value
    <3>1. overtaken' = overtaken
      BY <1>5, <2>6 DEF HandlePort
    <3>2. \E t \in Timer : Of(e.cell, t)'
      <4>1. PICK t \in Timer : timer' = [Cancelled(e.cell) EXCEPT ![t] = [port |-> e.cell, phase |-> "running"]]
        BY <1>5, <2>6 DEF HandlePort
      <4>2. timer'[t] = [port |-> e.cell, phase |-> "running"]
        BY <4>1 DEF Cancelled
      <4>3. timer'[t] \in Thread
        BY <4>2, <2>1 DEF Thread
      <4>4. Of(e.cell, t)'
        BY <4>2, <4>3, NoneIsNoThread DEF Of
      <4> QED BY <4>4
    <3>3. \A p \in Port : \A up : LeadsTo(p, up) => LeadsTo(p, up)'
      BY <1>1, <2>6
    <3>4. ASSUME NEW p \in Port, ~history'[lastEventId'][p]
          PROVE  (\E t \in Timer : Of(p, t)') \/ LeadsTo(p, FALSE)'
      <4>1. CASE p = e.cell
        BY <4>1, <3>2
      <4>2. CASE p # e.cell
        BY <4>2, <3>4, <2>2, <2>4, <3>3, <1>0
      <4> QED BY <4>1, <4>2
    <3>5. ASSUME NEW p \in Port, history'[lastEventId'][p], ~overtaken'[p]
          PROVE  (\A t \in Timer : ~Of(p, t)') /\ LeadsTo(p, TRUE)'
      <4>1. p # e.cell
        BY <2>3, <2>6, <3>5
      <4> QED BY <4>1, <3>5, <2>2, <2>4, <3>1, <3>3, <1>0
    <3> QED BY <3>4, <3>5 DEF PortsFollow
  <2> QED BY <2>5, <2>6
<1> QED BY <1>3, <1>4, <1>5

LEMMA PortsNextEvent ==
    ASSUME PortsInvariant, NextEvent, NothingLost'
    PROVE  PortsKept
<1> PICK e \in Event :
        /\ Next1(e)
        /\ UNCHANGED faucet
        /\ \/ HandleDebounced(e)
           \/ HandleUninitialized(e)
           \/ HandleOutdated(e)
           \/ HandleOutOfOrder(e)
           \/ HandleOther(e)
           \/ HandlePort(e)
  BY DEF NextEvent
<1>1. NothingLost
  BY DEF NothingLost, faucet
<1>2. ~HandleUninitialized(e) /\ ~HandleOutOfOrder(e)
  <2>1. /\ lastEventId # None /\ lastEventId \in Nat /\ Len(history) \in Nat /\ Len(channel) \in Nat
        /\ e.id # None => e.id = Len(history) - Len(channel) /\ e.id <= lastEventId + 1
    BY <1>1, HandledInOrder
  <2> QED BY <2>1 DEF HandleUninitialized, HandleOutOfOrder, Fresh
<1>3. CASE HandleDebounced(e) \/ HandleOutdated(e) \/ HandleOther(e) \/ HandlePort(e)
  BY <1>1, <1>3, HandlersInOrder, HandledLeadsTo, HandlersPortsFollow DEF PortsKept
<1> QED BY <1>2, <1>3

LEMMA PortsStep == PortsInvariant /\ [Next]_vars => PortsInvariant'
<1> SUFFICES ASSUME PortsInvariant, [Next]_vars PROVE PortsInvariant'
  OBVIOUS
<1>0. Following'
  BY FollowingStep DEF PortsInvariant
<1> SUFFICES PortsKept
  BY <1>0 DEF PortsInvariant, PortsKept
<1> SUFFICES ASSUME NothingLost' PROVE PortsKept
  BY PortsLost
<1>1. ASSUME NEW c \in Cell, NEW v \in BOOLEAN, Publish(c, v) PROVE PortsKept
  BY <1>1, PortsPublish
<1>2. CASE CloseConnection \/ RestartFaucet \/ ScrapeFails \/ Disconnect
  BY <1>2 DEF CloseConnection, RestartFaucet, ScrapeFails, VarzFails, Disconnect, NothingLost, faucet
<1>3. CASE Connect \/ ConnectFails
  BY <1>3, PortsConnection
<1>4. CASE Restore
  BY <1>4, PortsRestore
<1>5. CASE Resync
  BY <1>5 DEF Resync, Scrape, NothingLost, faucet, PortsInvariant, RunIsRestored
<1>6. CASE Block
  BY <1>6, PortsBlock
<1>7. CASE Receive
  BY <1>7, PortsReceive
<1>8. CASE NextEvent
  BY <1>8, PortsNextEvent
<1>9. ASSUME NEW t \in Timer, Expire(t) \/ Untrack(t) PROVE PortsKept
  <2>1. timer \in [Timer -> Thread \cup {None}] /\ timer[t] \in Thread
    BY <1>9 DEF Expire, Untrack, Phase, PortsInvariant, Following, TypeOK
  <2>2. \E phase : timer' = [timer EXCEPT ![t].phase = phase]
    BY <1>9 DEF Expire, Untrack
  <2>3. \A p \in Port, u \in Timer : Of(p, u)' <=> Of(p, u)
    <3> SUFFICES ASSUME NEW p \in Port, NEW u \in Timer PROVE Of(p, u)' <=> Of(p, u)
      OBVIOUS
    <3>1. PICK phase : timer' = [timer EXCEPT ![t].phase = phase]
      BY <2>2
    <3>2. CASE u # t
      BY <3>1, <3>2, <2>1 DEF Of
    <3>3. CASE u = t
      <4>1. timer'[t].port = timer[t].port
        BY <3>1, <2>1 DEF Thread
      <4>2. timer' \in [Timer -> Thread \cup {None}] /\ timer'[t] \in Thread
        BY <1>9, <2>1 DEF Expire, Untrack, Thread
      <4> QED BY <3>3, <4>1, <4>2, <2>1, NoneIsNoThread DEF Of
    <3> QED BY <3>2, <3>3
  <2>4. UNCHANGED <<history, link, channel, dropped, loop, buffer, lastEventId, previous,
                    restored, view, overtaken>>
    BY <1>9 DEF Expire, Untrack, faucet, collector
  <2> QED BY <2>3, <2>4, PortsSame
<1>10. ASSUME NEW t \in Timer, AppendDown(t) PROVE PortsKept
  BY <1>10, PortsAppendDown
<1>11. CASE UNCHANGED vars
  BY <1>11, PortsSame DEF vars, faucet, timers, collector, Of
<1> QED BY <1>1, <1>2, <1>3, <1>4, <1>5, <1>6, <1>7, <1>8, <1>9, <1>10, <1>11 DEF Next, Debounce

\* When all is quiet and nothing was lost, a port is shown down if it is down, and up if it
\* is up and no timer's callback was overtaken: the debouncing of any number of ports, by
\* any number of timers, delays the state of a port and never replaces it.
THEOREM PortsAreRight == Spec => []Inv
<1>1. PortsInvariant => Inv
  <2> SUFFICES ASSUME PortsInvariant, Quiet, ~dropped, NEW p \in Port
               PROVE  /\ ~Last(history)[p] => PortState(p) = "down"
                      /\ Last(history)[p] /\ ~overtaken[p] => PortState(p) = "up"
    BY DEF Inv, QuietPortsAreRight, PortsInvariant, Following
  <2>1. /\ NothingLost /\ Synchronised /\ channel = <<>> /\ InBuffer = {}
        /\ \A t \in Timer : ~Of(p, t)
    BY DEF Quiet, NothingLost, Synchronised, InBuffer, Of
  <2>2. lastEventId \in 1 .. Len(history) /\ Len(history) \in Nat
    BY <2>1, LastState DEF PortsInvariant, Following, OthersInOrder
  <2>3. lastEventId >= Len(history)
    BY <2>1, <2>2 DEF PortsInvariant, HorizonInOrder
  <2>4. history[lastEventId] = Last(history)
    BY <2>2, <2>3 DEF Last
  <2>5. /\ ~Last(history)[p] => LeadsTo(p, FALSE)
        /\ Last(history)[p] /\ ~overtaken[p] => LeadsTo(p, TRUE)
    BY <2>1, <2>4 DEF PortsInvariant, PortsFollow
  <2> QED BY <2>1, <2>5 DEF LeadsTo, PortState
<1> QED BY <1>1, PortsInit, PortsStep, PTL DEF Spec

=============================================================================
