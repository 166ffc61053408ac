------------------------- MODULE AuthenticatorProofs -------------------------
(***************************************************************************)
(* What Authenticator and RadiusPacket promise for any devices, segments,  *)
(* server answers, identifier space and number of requests, and for any    *)
(* bytes, lengths and number of AVPs.                                      *)
(*                                                                         *)
(* Two invariants carry the proofs about Authenticator.  Consistent says   *)
(* that what the receiving thread holds exists: it needs nothing of the    *)
(* identifiers.  Matched says that an identifier stands for the last       *)
(* request it was given to, however often it was used.                     *)
(*                                                                         *)
(* Two more carry those about RadiusPacket, at the end.  CodecInv says     *)
(* that what is left of a packet are AVPs; what is accepted has the bytes  *)
(* that were signed, and AVPs are known by their bytes.  CodecComplete     *)
(* says what the loop has read of a packet that is well formed: others,    *)
(* the parts of an EAP-Message with their position, and others.            *)
(***************************************************************************)
EXTENDS Authenticator, RadiusPacket, SequenceTheorems, WellFoundedInduction, TLAPS

\* A response was given to a request that was sent.
Answered == \A n \in Nonce : responses[n] # None => n \in DOMAIN requests

\* The identifier of every request sent has a device.
Recorded == \A n \in DOMAIN requests : packetIdToMac[requests[n].id] # None

\* The receiving thread holds a response, and then the device it took it for.
Held ==
    /\ receiver.pc \in {"parsed", "found", "checked"} =>
          receiver.nonce \in Nonce /\ responses[receiver.nonce] # None
    /\ receiver.pc \in {"found", "checked"} => receiver.mac \in Mac

Consistent == TypeOK /\ Answered /\ Recorded /\ Held

\* What is stored for an identifier is that of the last request it was given to.
LastUse ==
    \A n \in DOMAIN requests :
        LET k == reqAuthenticator[requests[n].id] IN
        /\ k \in DOMAIN requests /\ k >= n
        /\ requests[k].id = requests[n].id
        /\ requests[k].mac = packetIdToMac[requests[n].id]

\* The device the receiving thread has found is one that the answer may be taken for.
HeldMatches ==
    receiver.pc \in {"found", "checked"} => AnswerFor(receiver.nonce, receiver.mac)

Matched == LastUse /\ HeldMatches

-----------------------------------------------------------------------------
(* Identifiers and requests. *)

LEMMA ModStep ==
    ASSUME NEW i \in Nat \ {0}, NEW a \in 0..(i - 1)
    PROVE  /\ (a + 1) % i \in 0..(i - 1)
           /\ a + 1 < i => (a + 1) % i = a + 1
           /\ a + 1 = i => (a + 1) % i = 0
  OBVIOUS

\* A request sent extends the requests by one, and keeps the others.
LEMMA SendAppends ==
    ASSUME TypeOK, NEW m \in Mac, SendMabRequest(m)
    PROVE  /\ requests' \in Seq(Request)
           /\ Len(requests') = Len(requests) + 1 /\ Len(requests') <= MaxRequests
           /\ DOMAIN requests' = DOMAIN requests \cup {Len(requests) + 1}
           /\ \A n \in DOMAIN requests : requests'[n] = requests[n]
           /\ requests'[Len(requests) + 1] = [mac |-> m, id |-> nextRadiusId]
           /\ Len(requests) + 1 \notin DOMAIN requests
<1>. DEFINE r == [mac |-> m, id |-> nextRadiusId]
<1>1. r \in Request
  BY DEF TypeOK, Request
<1>2. requests \in Seq(Request) /\ requests' = Append(requests, r) /\ Len(requests) < MaxRequests
  BY DEF TypeOK, SendMabRequest
<1>. HIDE DEF r
<1>3. /\ requests' \in Seq(Request) /\ Len(requests') = Len(requests) + 1
      /\ DOMAIN requests' = DOMAIN requests \cup {Len(requests) + 1}
      /\ \A n \in DOMAIN requests : requests'[n] = requests[n]
      /\ requests'[Len(requests) + 1] = r
      /\ Len(requests) + 1 \notin DOMAIN requests
  BY <1>1, <1>2
<1>4. Len(requests') <= MaxRequests
  BY <1>2, <1>3, ConfigAssumption
<1>. QED
  BY <1>3, <1>4 DEF r

\* A request sent, or none, leaves what is known of identifiers well-typed and
\* every identifier in use with a device.
LEMMA SendKeeps ==
    ASSUME TypeOK, Recorded, NEW m \in Mac,
           SendMabRequest(m) \/ UNCHANGED idVars
    PROVE  /\ nextRadiusId' \in Id
           /\ packetIdToMac' \in [Id -> Mac \cup {None}]
           /\ reqAuthenticator' \in [Id -> {0} \cup Nonce]
           /\ requests' \in Seq(Request) /\ Len(requests') <= MaxRequests
           /\ DOMAIN requests \subseteq DOMAIN requests'
           /\ \A n \in DOMAIN requests : requests'[n] = requests[n]
           /\ Recorded'
<1>1. CASE UNCHANGED idVars
  BY <1>1 DEF TypeOK, idVars, Recorded
<1>2. CASE SendMabRequest(m)
  <2>1. nextRadiusId' \in Id
    BY <1>2, ModStep, ConfigAssumption DEF TypeOK, SendMabRequest, Id
  <2>2. packetIdToMac' \in [Id -> Mac \cup {None}]
    BY <1>2 DEF TypeOK, SendMabRequest
  <2>3. Len(requests) + 1 \in Nonce
    BY <1>2, ConfigAssumption DEF TypeOK, SendMabRequest, Nonce
  <2>4. reqAuthenticator' \in [Id -> {0} \cup Nonce]
    BY <1>2, <2>3 DEF TypeOK, SendMabRequest
  <2>5. Recorded'
    <3>1. SUFFICES ASSUME NEW n \in DOMAIN requests'
                   PROVE  packetIdToMac'[requests'[n].id] # None
      BY DEF Recorded
    <3>2. /\ nextRadiusId \in Id /\ packetIdToMac \in [Id -> Mac \cup {None}]
          /\ packetIdToMac' = [packetIdToMac EXCEPT ![nextRadiusId] = m] /\ m # None
      BY <1>2, ConfigAssumption DEF TypeOK, SendMabRequest
    <3>3. CASE n = Len(requests) + 1
      <4>1. requests'[n] = [mac |-> m, id |-> nextRadiusId]
        BY <1>2, <3>3, SendAppends
      <4>2. requests'[n].id = nextRadiusId
        BY <4>1
      <4>. QED
        BY <3>2, <4>2
    <3>4. CASE n \in DOMAIN requests
      <4>1. requests'[n] = requests[n]
        BY <1>2, <3>4, SendAppends
      <4>2. requests[n] \in Request
        <5>1. requests \in Seq(Request)
          BY DEF TypeOK
        <5>. QED
          BY <3>4, <5>1
      <4>3. requests[n].id \in Id /\ packetIdToMac[requests[n].id] # None
        BY <3>4, <4>2 DEF Recorded, Request
      <4>4. packetIdToMac'[requests[n].id] # None
        BY <3>2, <4>3
      <4>. QED
        BY <4>1, <4>4
    <3>5. n \in DOMAIN requests \/ n = Len(requests) + 1
      <4>1. DOMAIN requests' = DOMAIN requests \cup {Len(requests) + 1}
        BY <1>2, SendAppends
      <4>. QED
        BY <3>1, <4>1
    <3>. QED
      BY <3>3, <3>4, <3>5
  <2>. QED
    BY <1>2, <2>1, <2>2, <2>4, <2>5, SendAppends
<1>. QED
  BY <1>1, <1>2

-----------------------------------------------------------------------------
(* What the receiving thread holds exists. *)

LEMMA ConsistentInit == Init => Consistent
<1>. SUFFICES ASSUME Init PROVE Consistent
  OBVIOUS
<1>1. requests = <<>> /\ Len(requests) = 0 /\ DOMAIN requests = {}
  BY DEF Init, QueryInit
<1>2. requests \in Seq(Request) /\ Len(requests) <= MaxRequests
  BY <1>1, ConfigAssumption
<1>3. nextRadiusId \in Id /\ receiver \in Receiver
  BY ConfigAssumption DEF Init, QueryInit, Id, Receiver, Waiting
<1>4. TypeOK
  BY <1>2, <1>3 DEF Init, QueryInit, TypeOK
<1>5. Answered /\ Recorded /\ Held
  BY <1>1 DEF Init, QueryInit, Answered, Recorded, Held, Waiting
<1>. QED
  BY <1>4, <1>5 DEF Consistent

\* Placements and the heartbeat change sessions, access and the identifiers.
LEMMA SessionStepConsistent ==
    ASSUME Consistent, NEW m \in Mac,
           \/ \E connected \in BOOLEAN : ProcessDevicePlacement(m, connected)
           \/ HandleSmTimer(m)
    PROVE  Consistent'
<1>1. UNCHANGED <<responses, receiver>>
  BY DEF ProcessDevicePlacement, HandleSmTimer
<1>2. SendMabRequest(m) \/ UNCHANGED idVars
  BY DEF ProcessDevicePlacement, HandleSmTimer, Learn, LearnAgain, LeaveUnknown, Leave,
         RequestTimeout, Reauthenticate
<1>3. sessions' \in [Mac -> Session \cup {None}]
  <2>1. sessions \in [Mac -> Session \cup {None}]
    BY DEF Consistent, TypeOK
  <2>2. Unauthenticated \in Session /\ [Unauthenticated EXCEPT !.state = "REQUEST"] \in Session
    BY ConfigAssumption DEF Unauthenticated, Session, SessionState
  <2>3. CASE \E connected \in BOOLEAN : ProcessDevicePlacement(m, connected)
    BY <2>1, <2>2, <2>3, Zenon DEF ProcessDevicePlacement, Learn, LearnAgain, LeaveUnknown, Leave
  <2>4. CASE RequestTimeout(m)
    <3>1. sessions[m] \in Session /\ sessions[m] # None
      BY <2>1, <2>4 DEF RequestTimeout
    <3>2. CASE sessions[m].retries < MaxRadiusRetries
      <4>1. sessions' = [sessions EXCEPT ![m].retries = @ + 1]
        BY <2>4, <3>2 DEF RequestTimeout
      <4>2. [sessions[m] EXCEPT !.retries = @ + 1] \in Session
        BY <3>1, <3>2, ConfigAssumption DEF Session
      <4>. QED
        BY <2>1, <4>1, <4>2
    <3>3. CASE ~(sessions[m].retries < MaxRadiusRetries)
      BY <2>1, <2>2, <2>4, <3>3 DEF RequestTimeout
    <3>. QED
      BY <3>2, <3>3
  <2>5. CASE Reauthenticate(m)
    <3>1. sessions[m] \in Session
      BY <2>1, <2>5 DEF Reauthenticate
    <3>2. [sessions[m] EXCEPT !.state = "REQUEST"] \in Session
      BY <3>1 DEF Session, SessionState
    <3>. QED
      BY <2>1, <2>5, <3>2 DEF Reauthenticate
  <2>. QED
    BY <2>3, <2>4, <2>5 DEF HandleSmTimer
<1>4. access' \in [Mac -> Segment \cup {None}]
  BY DEF Consistent, TypeOK, ProcessDevicePlacement, HandleSmTimer, Learn, LearnAgain,
         LeaveUnknown, Leave, RequestTimeout, Reauthenticate
<1>5. TypeOK /\ Recorded
  BY DEF Consistent
<1>6. TypeOK'
  <2>1. /\ nextRadiusId' \in Id
        /\ packetIdToMac' \in [Id -> Mac \cup {None}]
        /\ reqAuthenticator' \in [Id -> {0} \cup Nonce]
        /\ requests' \in Seq(Request) /\ Len(requests') <= MaxRequests
    BY <1>2, <1>5, SendKeeps
  <2>2. responses' \in [Nonce -> Response \cup {None}] /\ receiver' \in Receiver
    BY <1>1, <1>5 DEF TypeOK
  <2>. QED
    BY <1>3, <1>4, <2>1, <2>2 DEF TypeOK
<1>7. Recorded' /\ DOMAIN requests \subseteq DOMAIN requests'
  BY <1>2, <1>5, SendKeeps
<1>8. Answered'
  BY <1>1, <1>7 DEF Consistent, Answered
<1>9. Held'
  BY <1>1 DEF Consistent, Held
<1>. QED
  BY <1>6, <1>7, <1>8, <1>9 DEF Consistent

LEMMA ConsistentStep == Consistent /\ [Next]_vars => Consistent'
<1>. SUFFICES ASSUME Consistent, [Next]_vars PROVE Consistent'
  OBVIOUS
<1>0. TypeOK /\ Answered /\ Recorded /\ Held
  BY DEF Consistent
<1>1. CASE \E m \in Mac : \/ \E connected \in BOOLEAN : ProcessDevicePlacement(m, connected)
                           \/ HandleSmTimer(m)
  BY <1>1, SessionStepConsistent
<1>2. ASSUME NEW n \in Nonce, ServerAnswers(n) PROVE Consistent'
  <2>1. PICK response \in Response : Answer(n, response)
    BY <1>2 DEF ServerAnswers
  <2>2. UNCHANGED <<sessions, idVars, receiver, access>>
    BY <2>1 DEF Answer
  <2>3. responses' = [responses EXCEPT ![n] = response] /\ n \in DOMAIN requests
    BY <2>1 DEF Answer
  <2>4. response # None
    BY NoneAssumption
  <2>5. responses \in [Nonce -> Response \cup {None}]
    BY <1>0 DEF TypeOK
  <2>6. responses' \in [Nonce -> Response \cup {None}]
    BY <2>3, <2>5
  <2>7. TypeOK'
    BY <1>0, <2>2, <2>6 DEF TypeOK, idVars
  <2>8. Answered'
    BY <1>0, <2>2, <2>3, <2>5 DEF Answered, idVars
  <2>9. Recorded'
    BY <1>0, <2>2 DEF Recorded, idVars
  <2>10. Held'
    BY <1>0, <2>2, <2>3, <2>4, <2>5 DEF Held
  <2>. QED
    BY <2>7, <2>8, <2>9, <2>10 DEF Consistent
<1>3. ASSUME NEW n \in Nonce, ReceiveRadiusMessage(n) PROVE Consistent'
  <2>1. UNCHANGED <<sessions, idVars, responses, access>> /\ responses[n] # None
    BY <1>3 DEF ValidPacket, ValidatePacket, ReceiveRadiusMessage
  <2>2. receiver' \in {Dead(n), [pc |-> "parsed", nonce |-> n, mac |-> None]}
    BY <1>3 DEF ReceiveRadiusMessage, Waiting
  <2>3. receiver' \in Receiver
    BY <2>2 DEF Receiver, Dead
  <2>4. Held'
    BY <2>1, <2>2 DEF Held, Dead
  <2>. QED
    BY <1>0, <2>1, <2>3, <2>4 DEF Consistent, TypeOK, Answered, Recorded, idVars
<1>4. CASE FindMac
  <2>1. UNCHANGED <<sessions, idVars, responses, access>> /\ receiver.pc = "parsed"
    BY <1>4 DEF FindMac
  <2>2. receiver.nonce \in Nonce /\ responses[receiver.nonce] # None
    BY <1>0, <2>1 DEF Held
  <2>3. receiver.nonce \in DOMAIN requests
    BY <1>0, <2>2 DEF Answered
  <2>. DEFINE mac == packetIdToMac[requests[receiver.nonce].id]
  <2>4. mac # None
    BY <1>0, <2>3 DEF Recorded
  <2>5. mac \in Mac
    <3>1. requests[receiver.nonce] \in Request
      BY <1>0, <2>3 DEF TypeOK
    <3>2. requests[receiver.nonce].id \in Id
      BY <3>1 DEF Request
    <3>. QED
      BY <1>0, <2>4, <3>2 DEF TypeOK
  <2>6. receiver' \in {Dead(receiver.nonce), [pc |-> "found", nonce |-> receiver.nonce, mac |-> mac]}
    BY <1>0, <1>4 DEF FindMac, TypeOK, Receiver
  <2>. HIDE DEF mac
  <2>7. receiver' \in Receiver
    BY <2>2, <2>5, <2>6 DEF Receiver, Dead
  <2>8. Held'
    BY <2>1, <2>2, <2>5, <2>6 DEF Held, Dead
  <2>. QED
    BY <1>0, <2>1, <2>7, <2>8 DEF Consistent, TypeOK, Answered, Recorded, idVars
<1>5. CASE CheckSession
  <2>1. UNCHANGED <<sessions, idVars, responses, access>> /\ receiver.pc = "found"
    BY <1>5 DEF CheckSession
  <2>2. receiver' = Waiting \/ receiver' = [receiver EXCEPT !.pc = "checked"]
    BY <1>5 DEF CheckSession
  <2>3. receiver' \in Receiver
    BY <1>0, <2>2 DEF TypeOK, Receiver, Waiting
  <2>4. Held'
    BY <1>0, <2>1, <2>2 DEF Held, Waiting, TypeOK, Receiver
  <2>. QED
    BY <1>0, <2>1, <2>3, <2>4 DEF Consistent, TypeOK, Answered, Recorded, idVars
<1>6. CASE CompleteRadiusResult
  <2>1. UNCHANGED <<idVars, responses>> /\ receiver.pc = "checked"
    BY <1>6 DEF CompleteRadiusResult
  <2>2. receiver' \in Receiver /\ Held'
    BY <1>0, <1>6 DEF CompleteRadiusResult, TypeOK, Receiver, Waiting, Dead, Held
  <2>3. responses[receiver.nonce] \in Response
    BY <1>0, <2>1 DEF Held, TypeOK
  <2>4. /\ sessions' \in [Mac -> Session \cup {None}]
        /\ access' \in [Mac -> Segment \cup {None}]
    <3>1. CASE UNCHANGED <<sessions, access>>
      BY <1>0, <3>1 DEF TypeOK
    <3>2. CASE ApplyResult(receiver.mac, responses[receiver.nonce]) /\ ~UNCHANGED <<sessions, access>>
      <4>1. Unauthenticated \in Session /\ [Unauthenticated EXCEPT !.state = "ACCEPT"] \in Session
        BY ConfigAssumption DEF Unauthenticated, Session, SessionState
      <4>2. responses[receiver.nonce].segment \in Segment \cup {None}
        BY <2>3 DEF Response
      <4>3. sessions \in [Mac -> Session \cup {None}] /\ access \in [Mac -> Segment \cup {None}]
        BY <1>0 DEF TypeOK
      <4>4. /\ \E e \in Session : sessions' = [sessions EXCEPT ![receiver.mac] = e]
            /\ \E e \in Segment \cup {None} : access' = [access EXCEPT ![receiver.mac] = e]
        BY <3>2, <4>1, <4>2, Zenon DEF ApplyResult
      <4>. QED
        BY ONLY <4>3, <4>4
    <3>. QED
      BY <1>6, <3>1, <3>2 DEF CompleteRadiusResult
  <2>. QED
    BY <1>0, <2>1, <2>2, <2>4 DEF Consistent, TypeOK, Answered, Recorded, idVars
<1>7. CASE UNCHANGED vars
  BY <1>0, <1>7 DEF Consistent, TypeOK, Answered, Recorded, Held, vars
<1>. QED
  BY <1>1, <1>2, <1>3, <1>4, <1>5, <1>6, <1>7 DEF Next

LEMMA ConsistentAlways == Spec => []Consistent
  BY ConsistentInit, ConsistentStep, PTL DEF Spec

\* TypeOK, for any devices, segments, server answers and bounds: every variable
\* of the authenticator keeps its type.
THEOREM TypeCorrect == Spec => []TypeOK
<1>1. Consistent => TypeOK
  BY DEF Consistent
<1>. QED
  BY <1>1, ConsistentAlways, PTL

-----------------------------------------------------------------------------
(* Access and sessions. *)

LEMMA NoAccessStep ==
    Consistent /\ NoAccessWithoutSession /\ [Next]_vars => NoAccessWithoutSession'
<1>. SUFFICES ASSUME Consistent, NoAccessWithoutSession, [Next]_vars,
                     NEW m \in Mac, access'[m] # None
              PROVE  sessions'[m] # None /\ sessions'[m].state \in {"REQUEST", "ACCEPT"}
  BY DEF NoAccessWithoutSession
<1>. DEFINE NewSession(state) == [Unauthenticated EXCEPT !.state = state]
<1>1. /\ sessions \in [Mac -> Session \cup {None}]
      /\ access \in [Mac -> Segment \cup {None}]
  BY DEF Consistent, TypeOK
<1>2. access[m] # None => sessions[m] # None /\ sessions[m].state \in {"REQUEST", "ACCEPT"}
  BY DEF NoAccessWithoutSession
<1>3. \A state \in SessionState : NewSession(state) \in Session /\ NewSession(state).state = state
  BY ConfigAssumption DEF Unauthenticated, Session, SessionState
<1>4. None \notin Session
  BY NoneAssumption
<1>5. ASSUME NEW x \in Mac, NEW connected \in BOOLEAN, ProcessDevicePlacement(x, connected)
      PROVE  sessions'[m] # None /\ sessions'[m].state \in {"REQUEST", "ACCEPT"}
  <2>1. CASE Learn(x)
    BY <1>1, <1>2, <1>3, <1>4, <2>1 DEF Learn, SessionState
  <2>2. CASE LeaveUnknown(x)
    BY <1>1, <1>2, <2>2 DEF LeaveUnknown
  <2>3. CASE Leave(x)
    BY <1>1, <1>2, <2>3 DEF Leave
  <2>4. CASE LearnAgain(x)
    BY <1>2, <2>4 DEF LearnAgain
  <2>. QED
    BY <1>5, <2>1, <2>2, <2>3, <2>4 DEF ProcessDevicePlacement
<1>6. ASSUME NEW x \in Mac, HandleSmTimer(x)
      PROVE  sessions'[m] # None /\ sessions'[m].state \in {"REQUEST", "ACCEPT"}
  <2>1. CASE Reauthenticate(x)
    <3>1. sessions[x] \in Session
      BY <1>1, <2>1 DEF Reauthenticate
    <3>2. [sessions[x] EXCEPT !.state = "REQUEST"] \in Session
      BY <3>1 DEF Session, SessionState
    <3>. QED
      BY <1>1, <1>2, <1>4, <2>1, <3>1, <3>2 DEF Reauthenticate, Session
  <2>2. CASE RequestTimeout(x)
    <3>1. sessions[x] \in Session /\ sessions[x].state = "REQUEST"
      BY <1>1, <2>2 DEF RequestTimeout
    <3>2. CASE sessions[x].retries < MaxRadiusRetries
      <4>1. sessions' = [sessions EXCEPT ![x].retries = @ + 1] /\ UNCHANGED access
        BY <2>2, <3>2 DEF RequestTimeout
      <4>2. [sessions[x] EXCEPT !.retries = @ + 1] \in Session
        BY <3>1, <3>2, ConfigAssumption DEF Session
      <4>. QED
        BY <1>1, <1>2, <1>4, <3>1, <4>1, <4>2 DEF Session
    <3>3. CASE ~(sessions[x].retries < MaxRadiusRetries)
      BY <1>1, <1>2, <2>2, <3>3 DEF RequestTimeout
    <3>. QED
      BY <3>2, <3>3
  <2>. QED
    BY <1>6, <2>1, <2>2 DEF HandleSmTimer
<1>7. CASE CompleteRadiusResult
  <2>1. CASE UNCHANGED <<sessions, access>>
    BY <1>2, <2>1
  <2>2. CASE ApplyResult(receiver.mac, responses[receiver.nonce]) /\ ~UNCHANGED <<sessions, access>>
    <3>1. receiver.mac \in Mac
      BY <1>7 DEF CompleteRadiusResult, Consistent, Held
    <3>2. CASE responses[receiver.nonce].code = "ACCEPT"
      <4>1. sessions' = [sessions EXCEPT ![receiver.mac] = NewSession("ACCEPT")]
        BY <2>2, <3>2 DEF ApplyResult
      <4>2. m # receiver.mac => access'[m] = access[m]
        BY <1>1, <2>2 DEF ApplyResult
      <4>3. NewSession("ACCEPT") # None /\ NewSession("ACCEPT").state = "ACCEPT"
        BY <1>3, <1>4 DEF SessionState
      <4>. HIDE DEF NewSession
      <4>. QED
        BY <1>1, <1>2, <3>1, <4>1, <4>2, <4>3
    <3>3. CASE responses[receiver.nonce].code # "ACCEPT"
      BY <1>1, <1>2, <2>2, <3>1, <3>3 DEF ApplyResult
    <3>. QED
      BY <3>2, <3>3
  <2>. QED
    BY <1>7, <2>1, <2>2 DEF CompleteRadiusResult
<1>8. CASE UNCHANGED <<sessions, access>>
  BY <1>2, <1>8
<1>. QED
  BY <1>5, <1>6, <1>7, <1>8 DEF Next, ServerAnswers, Answer, ValidPacket, ValidatePacket, ReceiveRadiusMessage,
     FindMac, CheckSession, vars

\* NoAccessWithoutSession, for any devices, answers and reuse of identifiers: a
\* device that has left or is unauthenticated was told to have no access.
THEOREM AccessNeedsSession == Spec => []NoAccessWithoutSession
<1>1. Init => NoAccessWithoutSession
  BY DEF Init, QueryInit, NoAccessWithoutSession
<1>. QED
  BY <1>1, NoAccessStep, ConsistentAlways, PTL DEF Spec

-----------------------------------------------------------------------------
(* Identifiers, which are used again. *)

LEMMA MatchedInit == Init => Matched
<1>. SUFFICES ASSUME Init PROVE Matched
  OBVIOUS
<1>1. requests = <<>> /\ DOMAIN requests = {}
  BY DEF Init, QueryInit
<1>. QED
  BY <1>1 DEF Init, QueryInit, Matched, LastUse, HeldMatches, Waiting

\* A request takes its identifier over from the one before.
LEMMA LastUseKept ==
    ASSUME TypeOK, LastUse, NEW m \in Mac,
           SendMabRequest(m) \/ UNCHANGED idVars
    PROVE  LastUse'
<1>1. CASE UNCHANGED idVars
  BY <1>1 DEF LastUse, idVars
<1>2. CASE SendMabRequest(m)
  <2>. DEFINE last_ == Len(requests) + 1
              Stored(n) == reqAuthenticator[requests[n].id]
  <2>1. /\ DOMAIN requests' = DOMAIN requests \cup {last_}
        /\ \A n \in DOMAIN requests : requests'[n] = requests[n]
        /\ requests'[last_] = [mac |-> m, id |-> nextRadiusId]
    BY <1>2, SendAppends
  <2>2. /\ packetIdToMac' = [packetIdToMac EXCEPT ![nextRadiusId] = m]
        /\ reqAuthenticator' = [reqAuthenticator EXCEPT ![nextRadiusId] = last_]
    BY <1>2 DEF SendMabRequest
  <2>3. /\ packetIdToMac \in [Id -> Mac \cup {None}] /\ reqAuthenticator \in [Id -> {0} \cup Nonce]
        /\ nextRadiusId \in Id
    BY DEF TypeOK
  <2>4. DOMAIN requests = 1 .. Len(requests) /\ Len(requests) \in Nat
    BY DEF TypeOK
  <2>5. \A n \in DOMAIN requests' : n \in Nat /\ last_ >= n
    BY <2>1, <2>4
  <2>6. \A n \in DOMAIN requests : requests[n].id \in Id
    <3>1. requests \in Seq(Request)
      BY DEF TypeOK
    <3>2. \A n \in DOMAIN requests : requests[n] \in Request
      BY <3>1
    <3>. QED
      BY <3>2 DEF Request
  <2>. HIDE DEF last_
  <2>7. requests'[last_].id = nextRadiusId /\ requests'[last_].mac = m /\ last_ \in DOMAIN requests'
    BY <2>1
  <2>8. reqAuthenticator'[nextRadiusId] = last_ /\ packetIdToMac'[nextRadiusId] = m
    BY <2>2, <2>3
  <2>9. ASSUME NEW n \in DOMAIN requests'
        PROVE  LET k == reqAuthenticator'[requests'[n].id] IN
               /\ k \in DOMAIN requests' /\ k >= n
               /\ requests'[k].id = requests'[n].id
               /\ requests'[k].mac = packetIdToMac'[requests'[n].id]
    <3>1. CASE requests'[n].id = nextRadiusId
      BY <2>5, <2>7, <2>8, <3>1
    <3>2. CASE requests'[n].id # nextRadiusId
      <4>1. n \in DOMAIN requests /\ requests'[n] = requests[n]
        BY <2>1, <2>7, <3>2
      <4>2. /\ reqAuthenticator'[requests[n].id] = Stored(n)
            /\ packetIdToMac'[requests[n].id] = packetIdToMac[requests[n].id]
        BY <2>2, <2>3, <2>6, <3>2, <4>1
      <4>3. /\ Stored(n) \in DOMAIN requests /\ Stored(n) >= n
            /\ requests[Stored(n)].id = requests[n].id
            /\ requests[Stored(n)].mac = packetIdToMac[requests[n].id]
        BY <4>1 DEF LastUse
      <4>. HIDE DEF Stored
      <4>. QED
        BY <2>1, <4>1, <4>2, <4>3
    <3>. QED
      BY <3>1, <3>2
  <2>. QED
    BY <2>9 DEF LastUse
<1>. QED
  BY <1>1, <1>2

LEMMA MatchedStep ==
    ASSUME Consistent, Matched, [Next]_vars
    PROVE  Matched'
<1>0. TypeOK /\ Answered /\ Recorded /\ Held /\ LastUse /\ HeldMatches
  BY DEF Consistent, Matched
<1>1. ASSUME NEW m \in Mac, \/ \E connected \in BOOLEAN : ProcessDevicePlacement(m, connected)
                            \/ HandleSmTimer(m)
      PROVE  Matched'
  <2>1. UNCHANGED <<responses, receiver>>
    BY <1>1 DEF ProcessDevicePlacement, HandleSmTimer
  <2>2. SendMabRequest(m) \/ UNCHANGED idVars
    BY <1>1 DEF ProcessDevicePlacement, HandleSmTimer, Learn, LearnAgain, LeaveUnknown, Leave,
           RequestTimeout, Reauthenticate
  <2>3. LastUse'
    BY <1>0, <2>2, LastUseKept
  <2>4. /\ DOMAIN requests \subseteq DOMAIN requests'
        /\ \A n \in DOMAIN requests : requests'[n] = requests[n]
    BY <1>0, <2>2, SendKeeps
  <2>5. HeldMatches'
    <3>1. SUFFICES ASSUME receiver.pc \in {"found", "checked"}
                   PROVE  AnswerFor(receiver.nonce, receiver.mac)'
      BY <2>1 DEF HeldMatches
    <3>2. receiver.nonce \in DOMAIN requests /\ AnswerFor(receiver.nonce, receiver.mac)
      BY <1>0, <3>1 DEF HeldMatches, Held, Answered
    <3>. QED
      BY <2>1, <2>4, <3>2 DEF AnswerFor
  <2>. QED
    BY <2>3, <2>5 DEF Matched
<1>2. ASSUME NEW n \in Nonce, ServerAnswers(n) PROVE Matched'
  BY <1>0, <1>2 DEF ServerAnswers, Answer, Matched, LastUse, HeldMatches, AnswerFor, idVars
<1>3. ASSUME NEW n \in Nonce, ReceiveRadiusMessage(n) PROVE Matched'
  BY <1>0, <1>3 DEF ReceiveRadiusMessage, Matched, LastUse, HeldMatches, AnswerFor, idVars, Waiting, Dead
<1>4. CASE FindMac
  <2>1. UNCHANGED <<sessions, idVars, responses, access>> /\ receiver.pc = "parsed"
    BY <1>4 DEF FindMac
  <2>2. receiver.nonce \in DOMAIN requests
    BY <1>0, <2>1 DEF Held, Answered
  <2>3. AnswerFor(receiver.nonce, packetIdToMac[requests[receiver.nonce].id])
    BY <1>0, <2>2 DEF LastUse, AnswerFor
  <2>4. receiver'.pc = "found" => /\ receiver'.nonce = receiver.nonce
                                  /\ receiver'.mac = packetIdToMac[requests[receiver.nonce].id]
    BY <1>0, <1>4 DEF FindMac, TypeOK, Receiver, Dead
  <2>5. receiver'.pc # "checked"
    BY <1>0, <1>4 DEF FindMac, TypeOK, Receiver, Dead
  <2>. QED
    BY <1>0, <2>1, <2>3, <2>4, <2>5 DEF Matched, LastUse, HeldMatches, AnswerFor, idVars
<1>5. CASE CheckSession
  <2>1. UNCHANGED <<sessions, idVars, responses, access>> /\ receiver.pc = "found"
    BY <1>5 DEF CheckSession
  <2>2. receiver'.pc = "checked" => receiver'.mac = receiver.mac /\ receiver'.nonce = receiver.nonce
    BY <1>0, <1>5 DEF CheckSession, Waiting, TypeOK, Receiver
  <2>3. receiver'.pc # "found"
    BY <1>0, <1>5 DEF CheckSession, Waiting, TypeOK, Receiver
  <2>. QED
    BY <1>0, <2>1, <2>2, <2>3 DEF Matched, LastUse, HeldMatches, AnswerFor, idVars
<1>6. CASE CompleteRadiusResult
  <2>1. UNCHANGED <<idVars, responses>> /\ receiver'.pc \in {"waiting", "dead"}
    BY <1>6 DEF CompleteRadiusResult, Waiting, Dead
  <2>. QED
    BY <1>0, <2>1 DEF Matched, LastUse, HeldMatches, idVars
<1>7. CASE UNCHANGED vars
  BY <1>0, <1>7 DEF Matched, LastUse, HeldMatches, AnswerFor, idVars, vars
<1>. QED
  BY <1>1, <1>2, <1>3, <1>4, <1>5, <1>6, <1>7 DEF Next

LEMMA MatchedAlways == Spec => [](Consistent /\ Matched)
<1>1. Consistent /\ Matched /\ [Next]_vars => Matched'
  BY MatchedStep
<1>. QED
  BY <1>1, MatchedInit, ConsistentAlways, PTL DEF Spec

\* AccessIsServerGranted, however often identifiers are used again: a device is given the
\* access of an accept for a request of its own, or for one whose identifier it was given
\* later, and only while its session waits for an answer.
THEOREM AccessIsGranted == Spec => AccessIsServerGranted
<1>. DEFINE Granted == \A m \in Mac : access'[m] \notin {None, access[m]} =>
                /\ sessions[m] # None /\ sessions[m].state = "REQUEST"
                /\ responses[receiver.nonce] = [code |-> "ACCEPT", segment |-> access'[m]]
                /\ AnswerFor(receiver.nonce, m)
<1>1. Consistent /\ Matched /\ [Next]_vars => [Granted]_vars
  <2>. SUFFICES ASSUME Consistent, Matched, Next, NEW m \in Mac, access'[m] \notin {None, access[m]}
                PROVE  /\ sessions[m] # None /\ sessions[m].state = "REQUEST"
                       /\ responses[receiver.nonce] = [code |-> "ACCEPT", segment |-> access'[m]]
                       /\ AnswerFor(receiver.nonce, m)
    OBVIOUS
  <2>0. TypeOK /\ Held /\ HeldMatches
    BY DEF Consistent, Matched
  <2>1. ASSUME NEW x \in Mac, \/ \E connected \in BOOLEAN : ProcessDevicePlacement(x, connected)
                              \/ HandleSmTimer(x)
        PROVE  FALSE
    <3>1. access' = access \/ access' = [access EXCEPT ![x] = None]
      BY <2>1 DEF ProcessDevicePlacement, HandleSmTimer, Learn, LearnAgain, LeaveUnknown, Leave,
             RequestTimeout, Reauthenticate
    <3>. QED
      BY <2>0, <3>1 DEF TypeOK
  <2>2. CASE CompleteRadiusResult
    <3>. DEFINE answer == responses[receiver.nonce]
    <3>1. receiver.pc = "checked" /\ receiver.mac \in Mac /\ answer \in Response
      BY <2>0, <2>2 DEF CompleteRadiusResult, Held, TypeOK
    <3>2. sessions[receiver.mac] # None /\ ApplyResult(receiver.mac, answer)
      BY <2>2 DEF CompleteRadiusResult
    <3>3. /\ sessions[receiver.mac].state = "REQUEST"
          /\ access' = [access EXCEPT ![receiver.mac] =
                           IF answer.code = "ACCEPT" THEN answer.segment ELSE None]
      BY <3>2 DEF ApplyResult
    <3>4. m = receiver.mac /\ answer.code = "ACCEPT" /\ access'[m] = answer.segment
      BY <2>0, <3>3 DEF TypeOK
    <3>5. answer = [code |-> "ACCEPT", segment |-> access'[m]]
      BY <3>1, <3>4 DEF Response
    <3>. QED
      BY <2>0, <3>1, <3>2, <3>3, <3>4, <3>5 DEF HeldMatches
  <2>3. CASE UNCHANGED access
    BY <2>3
  <2>. QED
    BY <2>1, <2>2, <2>3 DEF Next, ServerAnswers, Answer, ReceiveRadiusMessage, FindMac, CheckSession
<1>. QED
  BY <1>1, MatchedAlways, PTL DEF Spec, AccessIsServerGranted

-----------------------------------------------------------------------------
(* The receiving thread. *)

\* ReceiverSurvives, however often identifiers are used again and whatever is lost, late or
\* repeated: nothing ends the thread but a response that cannot be read, an identifier that
\* was used again, a device that leaves at the wrong time and a callback that raises.
THEOREM ReceiverIsNotKilled == Spec => ReceiverSurvives
<1>. DEFINE Survives ==
            receiver'.pc = "dead" /\ receiver.pc # "dead" =>
               LET n == receiver'.nonce IN
               \/ responses[n].code \in {"UNREADABLE", "UNDECODABLE"}
               \/ receiver.pc = "waiting" /\ UsedAgain(n)
               \/ /\ receiver.pc = "checked"
                  /\ \/ sessions[receiver.mac] = None
                     \/ receiver.mac \in MayRaise /\ sessions[receiver.mac].state = "REQUEST"
<1>1. Consistent /\ Matched /\ [Next]_vars => [Survives]_vars
  <2>. SUFFICES ASSUME Consistent, Matched, Next
                PROVE  Survives
    OBVIOUS
  <2>0. TypeOK /\ Answered /\ LastUse
    BY DEF Consistent, Matched
  <2>1. ASSUME NEW n \in Nonce, ReceiveRadiusMessage(n) PROVE Survives
    <3>1. n \in DOMAIN requests
      BY <2>0, <2>1 DEF ReceiveRadiusMessage, Answered
    <3>2. CASE responses[n].code = "UNREADABLE"
      BY <2>1, <3>2 DEF ReceiveRadiusMessage, Dead
    <3>3. CASE ValidPacket(n) /\ responses[n].code # "UNREADABLE"
      BY <2>1, <3>3 DEF ReceiveRadiusMessage, Waiting
    <3>4. CASE ~ValidPacket(n)
      <4>. DEFINE k == reqAuthenticator[requests[n].id]
      <4>1. k \in DOMAIN requests /\ k >= n /\ requests[k].id = requests[n].id
        BY <2>0, <3>1 DEF LastUse
      <4>2. k # n
        <5>1. n \in Nat /\ n # 0
          BY ConfigAssumption DEF Nonce
        <5>. QED
          BY <3>4, <5>1 DEF ValidPacket, ValidatePacket
      <4>3. DOMAIN requests \subseteq Nat
        BY <2>0 DEF TypeOK
      <4>. HIDE DEF k
      <4>4. k > n
        BY <3>1, <4>1, <4>2, <4>3
      <4>5. UsedAgain(n)
        BY <4>1, <4>4 DEF UsedAgain
      <4>. QED
        BY <2>1, <4>5, <3>4 DEF ReceiveRadiusMessage, Dead, Waiting
    <3>. QED
      BY <3>2, <3>3, <3>4
  <2>2. CASE FindMac
    BY <2>0, <2>2 DEF FindMac, TypeOK, Receiver, Dead
  <2>3. CASE CheckSession
    BY <2>0, <2>3 DEF CheckSession, TypeOK, Receiver, Waiting
  <2>4. CASE CompleteRadiusResult
    BY <2>4 DEF CompleteRadiusResult, Waiting, Dead
  <2>5. CASE UNCHANGED receiver
    BY <2>5
  <2>. QED
    BY <2>1, <2>2, <2>3, <2>4, <2>5 DEF Next, ProcessDevicePlacement, HandleSmTimer,
       ServerAnswers, Answer
<1>. QED
  BY <1>1, MatchedAlways, PTL DEF Spec, ReceiverSurvives

-----------------------------------------------------------------------------
(* RadiusPacket: induction, which the numbers and sequences below need. *)

\* The concatenation of sequences over a set is associative.
Associates(S) == \A x, y, z \in Seq(S) : (x \o y) \o z = x \o (y \o z)

\* That of sequences over any set is.
LEMMA Regroup ==
    ASSUME NEW S
    PROVE  Associates(S)
<1>1. \A x, y, z \in Seq(S) : (x \o y) \o z = x \o (y \o z)
  BY ConcatAssociative
<1> QED BY <1>1, Zenon DEF Associates

\* Induction over the natural numbers, for a set: a least number outside of it has none below.
LEMMA NaturalsByInduction ==
    ASSUME NEW S, 0 \in S, \A n \in Nat : n \in S => n + 1 \in S
    PROVE  Nat \subseteq S
<1> DEFINE Missing == {n \in Nat : n \notin S}
<1>1. SUFFICES ASSUME Missing # {} PROVE FALSE
  OBVIOUS
<1>2. PICK x \in Missing : \A y \in Missing : ~(<<y, x>> \in OpToRel(<, Nat))
  <2>1. Missing \subseteq Nat
    OBVIOUS
  <2> HIDE DEF Missing
  <2> QED BY <1>1, <2>1, WFMin, NatLessThanWellFounded
<1>3. x \in Nat /\ x - 1 \in Nat /\ x - 1 \in Missing
  OBVIOUS
<1>4. <<x - 1, x>> \in OpToRel(<, Nat)
  BY <1>3 DEF OpToRel
<1> QED BY <1>2, <1>3, <1>4

\* The same up to a number.
LEMMA IntervalByInduction ==
    ASSUME NEW last_ \in Nat, NEW S, 0 \in S, \A n \in 0 .. last_ : n \in S /\ n < last_ => n + 1 \in S
    PROVE  0 .. last_ \subseteq S
<1> DEFINE T == {n \in Nat : n <= last_ => n \in S}
<1>1. 0 \in T
  OBVIOUS
<1>2. \A n \in Nat : n \in T => n + 1 \in T
  OBVIOUS
<1>3. Nat \subseteq T
  <2> HIDE DEF T
  <2> QED BY <1>1, <1>2, NaturalsByInduction
<1> QED BY <1>3

\* Induction over sequences: a set with the empty one and with each the longer ones.
LEMMA SequencesByInduction ==
    ASSUME NEW S, NEW T, <<>> \in T, \A s \in Seq(S), e \in S : s \in T => Append(s, e) \in T
    PROVE  Seq(S) \subseteq T
<1> DEFINE Ok == {n \in Nat : \A s \in Seq(S) : Len(s) = n => s \in T}
<1>1. 0 \in Ok
  <2>1. \A s \in Seq(S) : Len(s) = 0 => s = <<>>
    BY EmptySeq
  <2> QED BY <2>1
<1>2. ASSUME NEW n \in Nat, n \in Ok PROVE n + 1 \in Ok
  <2> SUFFICES ASSUME NEW s \in Seq(S), Len(s) = n + 1 PROVE s \in T
    OBVIOUS
  <2>1. s # <<>>
    BY EmptySeq
  <2>2. PICK t \in Seq(S), e \in S : s = Append(t, e)
    BY <2>1, SequenceEmptyOrAppend
  <2>3. Len(t) = n
    BY <2>2, AppendProperties, LenProperties
  <2> QED BY <1>2, <2>2, <2>3
<1>3. Nat \subseteq Ok
  <2> HIDE DEF Ok
  <2> QED BY <1>1, <1>2, NaturalsByInduction
<1>4. \A s \in Seq(S) : Len(s) \in Nat
  BY LenProperties
<1> QED BY <1>3, <1>4

-----------------------------------------------------------------------------
(* FlattenSeq. *)

\* Its function by recursion is what its equation says.
LEMMA FlattenExists ==
    ASSUME NEW s, NEW last_ \in Nat
    PROVE  \E f : f = [i \in 1 .. last_ |-> IF i = 1 THEN s[i] ELSE f[i - 1] \o s[i]]
<1> DEFINE Ok == {k \in Nat : \E f : f = [i \in 1 .. k |-> IF i = 1 THEN s[i] ELSE f[i - 1] \o s[i]]}
<1>1. 0 \in Ok
  <2> DEFINE f == [i \in 1 .. 0 |-> s[i]]
  <2>1. f = [i \in 1 .. 0 |-> IF i = 1 THEN s[i] ELSE f[i - 1] \o s[i]]
    <3>1. 1 .. 0 = {}
      OBVIOUS
    <3>2. f = [i \in {} |-> s[i]]
      BY <3>1
    <3>3. [i \in {} |-> s[i]] = [i \in {} |-> IF i = 1 THEN s[i] ELSE f[i - 1] \o s[i]]
      BY Zenon
    <3> QED BY <3>1, <3>2, <3>3, Zenon
  <2>2. \E h : h = [i \in 1 .. 0 |-> IF i = 1 THEN s[i] ELSE h[i - 1] \o s[i]]
    <3> HIDE DEF f
    <3> QED BY <2>1, Zenon
  <2> QED BY <2>2
<1>2. ASSUME NEW k \in Nat, k \in Ok PROVE k + 1 \in Ok
  <2>1. PICK f : f = [i \in 1 .. k |-> IF i = 1 THEN s[i] ELSE f[i - 1] \o s[i]]
    BY <1>2
  <2> DEFINE g == [i \in 1 .. k + 1 |-> IF i = k + 1 THEN (IF i = 1 THEN s[i] ELSE f[k] \o s[i]) ELSE f[i]]
  <2>2. \A i \in 1 .. k + 1 : g[i] = IF i = 1 THEN s[i] ELSE g[i - 1] \o s[i]
    <3>1. \A i \in 1 .. k : f[i] = IF i = 1 THEN s[i] ELSE f[i - 1] \o s[i]
      BY <2>1
    <3>2. (\A i \in 1 .. k : g[i] = f[i]) /\ g[k + 1] = IF k + 1 = 1 THEN s[k + 1] ELSE f[k] \o s[k + 1]
      <4>1. \A i \in 1 .. k : i \in 1 .. k + 1 /\ i # k + 1
        BY ONLY k \in Nat
      <4>2. k + 1 \in 1 .. k + 1
        BY ONLY k \in Nat
      <4> QED BY <4>1, <4>2, Zenon
    <3> HIDE DEF g
    <3> QED BY <3>1, <3>2
  <2>3. g = [i \in 1 .. k + 1 |-> IF i = 1 THEN s[i] ELSE g[i - 1] \o s[i]]
    BY <2>2
  <2>4. \E h : h = [i \in 1 .. k + 1 |-> IF i = 1 THEN s[i] ELSE h[i - 1] \o s[i]]
    <3> HIDE DEF g
    <3> QED BY <2>3, Zenon
  <2>5. k + 1 \in Nat
    OBVIOUS
  <2> QED BY <2>4, <2>5, Zenon
<1>3. Nat \subseteq Ok
  <2> HIDE DEF Ok
  <2> QED BY <1>1, <1>2, NaturalsByInduction
<1> QED BY <1>3

\* The function that FlattenSeq is made of.
Flatten(s) ==
    LET flatten[i \in 1 .. Len(s)] == IF i = 1 THEN s[i] ELSE flatten[i - 1] \o s[i]
    IN  flatten

\* Each of its values is the one before and one more element.
LEMMA FlattenIs ==
    ASSUME NEW s, Len(s) \in Nat
    PROVE  \A i \in 1 .. Len(s) : Flatten(s)[i] = IF i = 1 THEN s[i] ELSE Flatten(s)[i - 1] \o s[i]
<1>1. \E flatten : flatten = [i \in 1 .. Len(s) |-> IF i = 1 THEN s[i] ELSE flatten[i - 1] \o s[i]]
  <2> DEFINE l == Len(s)
  <2>1. l \in Nat
    OBVIOUS
  <2> HIDE DEF l
  <2>2. \E flatten : flatten = [i \in 1 .. l |-> IF i = 1 THEN s[i] ELSE flatten[i - 1] \o s[i]]
    BY ONLY <2>1, FlattenExists, Zenon
  <2> QED BY <2>2 DEF l
<1>2. Flatten(s) = [i \in 1 .. Len(s) |-> IF i = 1 THEN s[i] ELSE Flatten(s)[i - 1] \o s[i]]
  BY ONLY <1>1, Zenon DEF Flatten
<1> QED BY <1>2

\* What FlattenSeq makes of sequences of sequences.
LEMMA FlattenOfNone == FlattenSeq(<<>>) = <<>>
BY DEF FlattenSeq

\* FlattenSeq is the last of them.
LEMMA FlattenSeqIs ==
    ASSUME NEW s, Len(s) \in Nat \ {0}
    PROVE  FlattenSeq(s) = Flatten(s)[Len(s)]
BY DEF FlattenSeq, Flatten

\* One more element goes to the end.
LEMMA FlattenOfMore ==
    ASSUME NEW S, NEW s \in Seq(Seq(S)), NEW x \in Seq(S)
    PROVE  FlattenSeq(Append(s, x)) = FlattenSeq(s) \o x
<1> DEFINE t == Append(s, x)
           n == Len(s)
<1>1. /\ n \in Nat /\ Len(t) = n + 1
      /\ \A i \in 1 .. n : t[i] = s[i]
      /\ t[n + 1] = x
  BY LenProperties, AppendProperties
<1>2. /\ \A i \in 1 .. n : Flatten(s)[i] = IF i = 1 THEN s[i] ELSE Flatten(s)[i - 1] \o s[i]
      /\ \A i \in 1 .. n + 1 : Flatten(t)[i] = IF i = 1 THEN t[i] ELSE Flatten(t)[i - 1] \o t[i]
  <2> HIDE DEF t
  <2>1. Len(s) \in Nat /\ Len(t) \in Nat
    BY <1>1
  <2> QED BY <1>1, <2>1, FlattenIs
<1> HIDE DEF t, n
<1>3. \A i \in 1 .. n : Flatten(t)[i] = Flatten(s)[i]
  <2> DEFINE Ok == {k \in Nat : k \in 1 .. n => Flatten(t)[k] = Flatten(s)[k]}
  <2>1. 0 \in Ok
    BY <1>1
  <2>2. ASSUME NEW k \in Nat, k \in Ok PROVE k + 1 \in Ok
    <3> SUFFICES ASSUME k + 1 \in 1 .. n PROVE Flatten(t)[k + 1] = Flatten(s)[k + 1]
      OBVIOUS
    <3>1. k + 1 \in 1 .. n + 1 /\ (k + 1) - 1 = k
      BY <1>1
    <3>2. CASE k = 0
      BY <1>1, <1>2, <3>1, <3>2
    <3>3. CASE k # 0
      <4>1. k \in 1 .. n
        BY <3>3, <1>1
      <4>2. Flatten(t)[k] = Flatten(s)[k]
        BY <4>1, <2>2
      <4>3. k + 1 # 1
        BY <3>3
      <4>4. Flatten(s)[k + 1] = Flatten(s)[k] \o s[k + 1]
        <5>1. Flatten(s)[k + 1] = Flatten(s)[(k + 1) - 1] \o s[k + 1]
          BY ONLY <1>2, <4>3, k + 1 \in 1 .. n, Zenon
        <5> QED BY ONLY <5>1, <3>1, Zenon
      <4>5. Flatten(t)[k + 1] = Flatten(t)[k] \o t[k + 1]
        <5>1. Flatten(t)[k + 1] = Flatten(t)[(k + 1) - 1] \o t[k + 1]
          BY ONLY <1>2, <4>3, <3>1, Zenon
        <5> QED BY ONLY <5>1, <3>1, Zenon
      <4>6. t[k + 1] = s[k + 1]
        BY <1>1
      <4> QED BY ONLY <4>2, <4>4, <4>5, <4>6, Zenon
    <3> QED BY <3>2, <3>3
  <2>3. Nat \subseteq Ok
    <3> HIDE DEF Ok
    <3> QED BY <2>1, <2>2, NaturalsByInduction
  <2> QED BY <2>3, <1>1
<1>4. FlattenSeq(t) = Flatten(t)[n + 1]
  BY <1>1, FlattenSeqIs
<1>5. CASE n = 0
  <2>1. s = <<>>
    BY <1>5, EmptySeq DEF n
  <2>2. FlattenSeq(t) = x
    BY <1>1, <1>2, <1>4, <1>5
  <2> QED BY <2>1, <2>2, FlattenOfNone, ConcatEmptySeq DEF t
<1>6. CASE n # 0
  <2>1. n \in 1 .. n /\ n + 1 \in 1 .. n + 1 /\ n + 1 # 1 /\ (n + 1) - 1 = n
    BY <1>1, <1>6
  <2>2. FlattenSeq(t) = Flatten(s)[n] \o x
    <3>1. Flatten(t)[n + 1] = Flatten(t)[(n + 1) - 1] \o t[n + 1]
      BY ONLY <1>2, <2>1, Zenon
    <3>2. Flatten(t)[n + 1] = Flatten(t)[n] \o t[n + 1]
      BY ONLY <3>1, <2>1, Zenon
    <3>3. Flatten(t)[n] = Flatten(s)[n] /\ t[n + 1] = x
      BY <1>1, <1>3, <2>1
    <3> QED BY ONLY <3>2, <3>3, <1>4, Zenon
  <2>3. FlattenSeq(s) = Flatten(s)[n]
    BY <1>1, <1>6, FlattenSeqIs DEF n
  <2> QED BY <2>2, <2>3 DEF t
<1> QED BY <1>5, <1>6

\* What is flattened has the elements of the sequences that it is made of.
LEMMA FlattenType ==
    ASSUME NEW S, NEW s \in Seq(Seq(S))
    PROVE  FlattenSeq(s) \in Seq(S)
<1> DEFINE Ok == {r \in Seq(Seq(S)) : FlattenSeq(r) \in Seq(S)}
<1>1. <<>> \in Ok
  BY FlattenOfNone, EmptySeq
<1>2. ASSUME NEW r \in Seq(Seq(S)), NEW e \in Seq(S), r \in Ok PROVE Append(r, e) \in Ok
  <2>1. FlattenSeq(Append(r, e)) = FlattenSeq(r) \o e
    BY FlattenOfMore
  <2>2. FlattenSeq(r) \in Seq(S)
    BY <1>2
  <2>3. FlattenSeq(r) \o e \in Seq(S)
    BY <2>2, ConcatProperties
  <2>4. Append(r, e) \in Seq(Seq(S))
    BY AppendProperties
  <2> QED BY <2>1, <2>3, <2>4
<1>3. Seq(Seq(S)) \subseteq Ok
  <2> HIDE DEF Ok
  <2> QED BY <1>1, <1>2, SequencesByInduction
<1> QED BY <1>3

-----------------------------------------------------------------------------
(* What each element of a sequence becomes, one after the other: Wire, PackAttributes, the
   others and the values of Merged are of this form. *)

\* The maps that say what.
Maps(D, S) == [D -> Seq(S)]

Flat(G, r) == FlattenSeq([i \in DOMAIN r |-> G[r[i]]])

\* A function on 1 .. n is a sequence of that length.
LEMMA MapIsSeq ==
    ASSUME NEW S, NEW n \in Nat, NEW f \in [1 .. n -> S]
    PROVE  f \in Seq(S) /\ Len(f) = n /\ DOMAIN f = 1 .. n
<1>1. f \in Seq(S)
  BY SeqDef
<1>2. Len(f) \in Nat /\ DOMAIN f = 1 .. Len(f)
  BY <1>1, LenProperties
<1>3. 1 .. Len(f) = 1 .. n
  BY <1>2
<1>4. Len(f) = n
  BY ONLY <1>2, <1>3, n \in Nat
<1> QED BY <1>1, <1>2, <1>4

\* Nothing becomes of no elements.
LEMMA FlatOfNone ==
    ASSUME NEW G
    PROVE  Flat(G, <<>>) = <<>>
<1> DEFINE f == [i \in DOMAIN <<>> |-> G[<<>>[i]]]
<1>1. DOMAIN <<>> = 1 .. 0
  OBVIOUS
<1>2. f \in [1 .. 0 -> {}]
  BY <1>1
<1> HIDE DEF f
<1>3. f \in Seq({}) /\ Len(f) = 0
  BY <1>2, MapIsSeq
<1>4. f = <<>>
  BY <1>3, EmptySeq
<1> QED BY <1>4, FlattenOfNone DEF Flat, f

\* What becomes of one more element goes to the end.
LEMMA FlatOfMore ==
    ASSUME NEW D, NEW S, NEW G \in Maps(D, S), NEW r \in Seq(D), NEW e \in D
    PROVE  Flat(G, r) \in Seq(S) /\ Flat(G, Append(r, e)) = Flat(G, r) \o G[e]
<1> DEFINE t == Append(r, e)
           n == Len(r)
           f == [i \in DOMAIN r |-> G[r[i]]]
           g == [i \in DOMAIN t |-> G[t[i]]]
<1>1. /\ n \in Nat /\ Len(t) = n + 1 /\ t \in Seq(D)
      /\ DOMAIN r = 1 .. n /\ DOMAIN t = 1 .. n + 1
      /\ \A i \in 1 .. n : t[i] = r[i] /\ r[i] \in D
      /\ t[n + 1] = e
  <2>1. t \in Seq(D)
    BY AppendProperties
  <2> QED BY <2>1, LenProperties, AppendProperties, ElementOfSeq
<1>2. /\ f \in [1 .. n -> Seq(S)] /\ \A i \in 1 .. n : f[i] = G[r[i]]
  BY <1>1 DEF Maps
<1>3. g \in [1 .. n + 1 -> Seq(S)] /\ \A i \in 1 .. n + 1 : g[i] = G[t[i]]
  <2> HIDE DEF t
  <2>1. \A i \in 1 .. n + 1 : t[i] \in D
    BY <1>1, ElementOfSeq
  <2> QED BY <1>1, <2>1 DEF Maps
<1> HIDE DEF f, g, n, t
<1>4. f \in Seq(Seq(S)) /\ Len(f) = n /\ g \in Seq(Seq(S)) /\ Len(g) = n + 1
  BY <1>1, <1>2, <1>3, MapIsSeq
<1>5. G[e] \in Seq(S)
  BY DEF Maps
<1>6. g = Append(f, G[e])
  <2>1. /\ Append(f, G[e]) \in Seq(Seq(S)) /\ Len(Append(f, G[e])) = n + 1
        /\ \A i \in 1 .. n : Append(f, G[e])[i] = f[i]
        /\ Append(f, G[e])[n + 1] = G[e]
    BY <1>4, <1>5, AppendProperties
  <2>2. \A i \in 1 .. n + 1 : g[i] = Append(f, G[e])[i]
    <3>1. \A i \in 1 .. n : i \in 1 .. n + 1 /\ g[i] = Append(f, G[e])[i]
      <4> DEFINE h == Append(f, G[e])
      <4>1. \A i \in 1 .. n : h[i] = f[i]
        BY <2>1
      <4> HIDE DEF h
      <4>2. \A i \in 1 .. n : i \in 1 .. n + 1
        BY <1>1
      <4>3. \A i \in 1 .. n : i \in 1 .. n + 1 /\ g[i] = h[i]
        <5> SUFFICES ASSUME NEW i \in 1 .. n PROVE g[i] = h[i]
          BY <4>2
        <5>1. t[i] = r[i] /\ f[i] = G[r[i]] /\ g[i] = G[t[i]] /\ h[i] = f[i]
          BY ONLY <4>1, <4>2, <1>1, <1>2, <1>3, i \in 1 .. n
        <5> QED BY ONLY <5>1
      <4> QED BY ONLY <4>3, Zenon DEF h
    <3>2. n + 1 \in 1 .. n + 1 /\ g[n + 1] = Append(f, G[e])[n + 1]
      BY <1>1, <1>3, <2>1
    <3>3. \A i \in 1 .. n + 1 : i \in 1 .. n \/ i = n + 1
      BY <1>1
    <3> QED BY ONLY <3>1, <3>2, <3>3, Zenon
  <2> QED BY <2>1, <2>2, <1>4, SeqEqual
<1>7. FlattenSeq(g) = FlattenSeq(f) \o G[e] /\ FlattenSeq(f) \in Seq(S)
  BY <1>4, <1>5, <1>6, FlattenOfMore, FlattenType
<1> QED BY <1>7 DEF Flat, f, g, t

\* All that becomes of them is of one kind.
LEMMA FlatType ==
    ASSUME NEW D, NEW S, NEW G \in Maps(D, S), NEW r \in Seq(D)
    PROVE  Flat(G, r) \in Seq(S)
<1>1. CASE r = <<>>
  BY <1>1, FlatOfNone, EmptySeq
<1>2. CASE r # <<>>
  <2>1. PICK q \in Seq(D), e \in D : r = Append(q, e)
    BY <1>2, SequenceEmptyOrAppend
  <2> QED BY <2>1, FlatOfMore
<1> QED BY <1>1, <1>2

\* What becomes of one element.
LEMMA FlatOfOne ==
    ASSUME NEW D, NEW S, NEW G \in Maps(D, S), NEW e \in D
    PROVE  Flat(G, <<e>>) = G[e]
<1>1. <<>> \in Seq(D) /\ Append(<<>>, e) = <<e>>
  BY EmptySeq
<1>2. Flat(G, Append(<<>>, e)) = Flat(G, <<>>) \o G[e]
  <2>1. \A r \in Seq(D) : Flat(G, Append(r, e)) = Flat(G, r) \o G[e]
    BY FlatOfMore
  <2> QED BY <1>1, <2>1, Zenon
<1>3. G[e] \in Seq(S)
  BY DEF Maps
<1> QED BY <1>1, <1>2, <1>3, FlatOfNone, ConcatEmptySeq

\* What becomes of two sequences is joined.
LEMMA FlatOfBoth ==
    ASSUME NEW D, NEW S, NEW G \in Maps(D, S), NEW r \in Seq(D), NEW q \in Seq(D)
    PROVE  Flat(G, r \o q) = Flat(G, r) \o Flat(G, q)
<1> DEFINE Ok == {x \in Seq(D) : Flat(G, r \o x) = Flat(G, r) \o Flat(G, x)}
<1>1. <<>> \in Ok
  <2>1. Flat(G, r) \in Seq(S)
    BY FlatType
  <2> QED BY <2>1, FlatOfNone, ConcatEmptySeq, EmptySeq
<1>2. ASSUME NEW x \in Seq(D), NEW e \in D, x \in Ok PROVE Append(x, e) \in Ok
  <2>1. /\ r \o x \in Seq(D) /\ <<e>> \in Seq(D)
        /\ Flat(G, r) \in Seq(S) /\ Flat(G, x) \in Seq(S) /\ G[e] \in Seq(S)
    <3>1. r \o x \in Seq(D)
      BY ConcatProperties
    <3>2. <<e>> \in Seq(D)
      OBVIOUS
    <3>3. Flat(G, r) \in Seq(S) /\ Flat(G, x) \in Seq(S)
      BY FlatType
    <3>4. G[e] \in Seq(S)
      BY DEF Maps
    <3> QED BY <3>1, <3>2, <3>3, <3>4
  <2>2. r \o Append(x, e) = Append(r \o x, e)
    <3> DEFINE h == <<e>>
    <3>1. Append(x, e) = x \o h /\ Append(r \o x, e) = (r \o x) \o h /\ h \in Seq(D)
      BY <2>1, AppendIsConcat
    <3> HIDE DEF h
    <3>2. r \in Seq(D) /\ x \in Seq(D) /\ Associates(D)
      BY <2>1, Regroup
    <3>3. (r \o x) \o h = r \o (x \o h)
      BY ONLY <3>1, <3>2, Zenon DEF Associates
    <3> QED BY ONLY <3>1, <3>3, Zenon
  <2>3. Flat(G, Append(r \o x, e)) = Flat(G, r \o x) \o G[e]
    <3>1. \A y \in Seq(D) : Flat(G, Append(y, e)) = Flat(G, y) \o G[e]
      BY FlatOfMore
    <3> QED BY <2>1, <3>1, Zenon
  <2>4. Flat(G, r \o x) = Flat(G, r) \o Flat(G, x)
    BY <1>2
  <2>5. Flat(G, Append(x, e)) = Flat(G, x) \o G[e]
    BY FlatOfMore
  <2>6. (Flat(G, r) \o Flat(G, x)) \o G[e] = Flat(G, r) \o (Flat(G, x) \o G[e])
    <3>1. Associates(S)
      BY Regroup
    <3> QED BY ONLY <2>1, <3>1, Zenon DEF Associates
  <2>7. Append(x, e) \in Seq(D)
    BY AppendProperties
  <2> QED BY <2>2, <2>3, <2>4, <2>5, <2>6, <2>7
<1>3. Seq(D) \subseteq Ok
  <2> HIDE DEF Ok
  <2> QED BY <1>1, <1>2, SequencesByInduction
<1> QED BY <1>3

\* Two such steps are one.
LEMMA FlatOfFlat ==
    ASSUME NEW C, NEW D, NEW S, NEW H \in Maps(C, D), NEW G \in Maps(D, S), NEW K \in Maps(C, S),
           NEW r \in Seq(C), \A c \in C : K[c] = Flat(G, H[c])
    PROVE  Flat(G, Flat(H, r)) = Flat(K, r)
<1> DEFINE Ok == {x \in Seq(C) : Flat(G, Flat(H, x)) = Flat(K, x)}
<1>1. <<>> \in Ok
  BY FlatOfNone, EmptySeq
<1>2. ASSUME NEW x \in Seq(C), NEW e \in C, x \in Ok PROVE Append(x, e) \in Ok
  <2>1. H[e] \in Seq(D) /\ Flat(H, x) \in Seq(D) /\ Append(x, e) \in Seq(C)
    BY FlatType, AppendProperties DEF Maps
  <2>2. Flat(H, Append(x, e)) = Flat(H, x) \o H[e] /\ Flat(K, Append(x, e)) = Flat(K, x) \o K[e]
    <3>1. H \in Maps(C, D) /\ K \in Maps(C, S) /\ x \in Seq(C) /\ e \in C
      BY <1>2
    <3>2. Flat(H, Append(x, e)) = Flat(H, x) \o H[e]
      BY ONLY <3>1, FlatOfMore
    <3>3. Flat(K, Append(x, e)) = Flat(K, x) \o K[e]
      BY ONLY <3>1, FlatOfMore
    <3> QED BY <3>2, <3>3
  <2>3. Flat(G, Flat(H, x) \o H[e]) = Flat(G, Flat(H, x)) \o Flat(G, H[e])
    BY <2>1, FlatOfBoth
  <2>4. Flat(G, Flat(H, x)) = Flat(K, x) /\ K[e] = Flat(G, H[e])
    BY <1>2
  <2> QED BY <2>1, <2>2, <2>3, <2>4
<1>3. Seq(C) \subseteq Ok
  <2> HIDE DEF Ok
  <2> QED BY <1>1, <1>2, SequencesByInduction
<1> QED BY <1>3

\* Elements that stay as they are, and elements that vanish.
LEMMA FlatOfKept ==
    ASSUME NEW D, NEW S, NEW G \in Maps(D, S), NEW E, E \subseteq D \cap S,
           NEW r \in Seq(E), \A d \in E : G[d] = <<d>>
    PROVE  Flat(G, r) = r
<1> DEFINE Ok == {x \in Seq(E) : Flat(G, x) = x}
<1>1. <<>> \in Ok
  BY FlatOfNone, EmptySeq
<1>2. ASSUME NEW x \in Seq(E), NEW e \in E, x \in Ok PROVE Append(x, e) \in Ok
  <2>1. x \in Seq(D) /\ Append(x, e) \in Seq(E)
    BY AppendProperties, SeqMonotonic
  <2>2. Flat(G, Append(x, e)) = Flat(G, x) \o G[e]
    BY <2>1, FlatOfMore
  <2>3. Append(x, e) = x \o <<e>>
    BY AppendIsConcat
  <2> QED BY <1>2, <2>1, <2>2, <2>3
<1>3. Seq(E) \subseteq Ok
  <2> HIDE DEF Ok
  <2> QED BY <1>1, <1>2, SequencesByInduction
<1> QED BY <1>3

\* Elements that nothing becomes of are dropped.
LEMMA FlatOfDropped ==
    ASSUME NEW D, NEW S, NEW G \in Maps(D, S), NEW E, E \subseteq D, NEW r \in Seq(E), \A d \in E : G[d] = <<>>
    PROVE  Flat(G, r) = <<>>
<1> DEFINE Ok == {x \in Seq(E) : Flat(G, x) = <<>>}
<1>1. <<>> \in Ok
  BY FlatOfNone, EmptySeq
<1>2. ASSUME NEW x \in Seq(E), NEW e \in E, x \in Ok PROVE Append(x, e) \in Ok
  <2>1. x \in Seq(D) /\ Append(x, e) \in Seq(E)
    BY AppendProperties, SeqMonotonic
  <2>2. Flat(G, Append(x, e)) = Flat(G, x) \o G[e]
    BY <2>1, FlatOfMore
  <2>3. <<>> \o <<>> = <<>>
    BY EmptySeq, ConcatEmptySeq
  <2> QED BY <1>2, <2>1, <2>2, <2>3
<1>3. Seq(E) \subseteq Ok
  <2> HIDE DEF Ok
  <2> QED BY <1>1, <1>2, SequencesByInduction
<1> QED BY <1>3

\* What integer division computes.
LEMMA DivisionLaw ==
    ASSUME NEW L \in Nat, NEW m \in Nat \ {0}, NEW n, n = L \div m
    PROVE  n \in Nat /\ m * n <= L /\ L < m * n + m
OBVIOUS

\* As many chunks as the data need, all but the last of them full.
LEMMA ChunksLaw ==
    ASSUME NEW d, Len(d) \in Nat, NEW n, n = Chunks(d)
    PROVE  /\ n \in Nat /\ Len(d) <= n * MaxDataLength
           /\ n > 0 => (n - 1) * MaxDataLength < Len(d)
           /\ n = 0 <=> Len(d) = 0
<1> DEFINE m == MaxDataLength
           L == Len(d)
<1>1. m \in Nat \ {0} /\ L \in Nat
  BY BytesAssumption
<1>2. n = (L + m - 1) \div m
  BY DEF Chunks
<1> HIDE DEF m, L
<1>3. L + m - 1 \in Nat
  BY <1>1
<1>4. n \in Nat /\ m * n <= L + m - 1 /\ L + m - 1 < m * n + m
  BY ONLY <1>1, <1>2, <1>3, DivisionLaw
<1>5. m * n = n * m /\ (n - 1) * m = n * m - m /\ 0 * m = 0
  BY ONLY <1>1, <1>4
<1>6. n >= 1 => n * m >= m
  BY ONLY <1>1, <1>4
<1> QED BY <1>1, <1>4, <1>5, <1>6 DEF m, L

-----------------------------------------------------------------------------
(* Attributes, their values, and the AVPs and bytes they are packed into. *)

Octet == 0 .. 255
Attrs == [type : Type, data : Seq(Octet)]

ValueOf(t) == [a \in Attrs |-> IF a.type = t THEN a.data ELSE <<>>]
WireOf == [a \in Attrs |-> Avp(a.type, a.data)]

\* The AVPs of an attribute.
Chunk(d, i) == SubSeq(d, (i - 1) * MaxDataLength + 1, Min2(i * MaxDataLength, Len(d)))
Chunked(d, n) == [i \in 1 .. n |-> Attribute(EAPMessage, Chunk(d, i))]
SplitOf == [a \in Attrs |-> IF a.type = EAPMessage THEN Chunked(a.data, Chunks(a.data)) ELSE <<a>>]
PackOf == [a \in Attrs |-> Pack(a)]

\* The data of the attributes of a type, and all AVPs of a list.
Value(t, r) == Flat(ValueOf(t), r)
Split(r) == Flat(SplitOf, r)

\* A type and data are those of the attribute made of them.
LEMMA AttributeIs ==
    ASSUME NEW t \in Type, NEW d \in Seq(Octet)
    PROVE  Attribute(t, d) \in Attrs /\ Attribute(t, d).type = t /\ Attribute(t, d).data = d
BY DEF Attribute, Attrs

\* An AVP byte by byte: its type, its length, its data.
LEMMA AvpIs ==
    ASSUME NEW t \in Nat, NEW d \in Seq(Octet)
    PROVE  /\ d \in Seq(Nat) /\ <<t, Len(d) + 2>> \in Seq(Nat) /\ Avp(t, d) \in Seq(Nat)
           /\ Len(Avp(t, d)) = Len(d) + 2
           /\ Avp(t, d)[1] = t /\ Avp(t, d)[2] = Len(d) + 2
           /\ \A i \in 1 .. Len(d) : Avp(t, d)[i + 2] = d[i]
<1> DEFINE h == <<t, Len(d) + 2>>
<1>1. Len(d) \in Nat
  BY LenProperties
<1>2. h \in Seq(Nat) /\ Len(h) = 2 /\ h[1] = t /\ h[2] = Len(d) + 2
  BY <1>1
<1>3. d \in Seq(Nat)
  <2>1. Octet \subseteq Nat
    BY DEF Octet
  <2> QED BY <2>1, SeqMonotonic
<1> HIDE DEF h
<1>4. /\ h \o d \in Seq(Nat) /\ Len(h \o d) = 2 + Len(d)
      /\ \A i \in 1 .. 2 + Len(d) : (h \o d)[i] = IF i <= 2 THEN h[i] ELSE d[i - 2]
  <2>1. /\ h \o d \in Seq(Nat) /\ Len(h \o d) = Len(h) + Len(d)
        /\ \A i \in 1 .. Len(h) + Len(d) : (h \o d)[i] = IF i <= Len(h) THEN h[i] ELSE d[i - Len(h)]
    <3>1. h \in Seq(Nat) /\ d \in Seq(Nat)
      BY ONLY <1>2, <1>3
    <3> QED BY ONLY <3>1, ConcatProperties
  <2> QED BY ONLY <1>2, <2>1
<1>5. 1 \in 1 .. 2 + Len(d) /\ 2 \in 1 .. 2 + Len(d) /\ (h \o d)[1] = t /\ (h \o d)[2] = Len(d) + 2
  BY <1>1, <1>2, <1>4
<1>6. \A i \in 1 .. Len(d) : (h \o d)[i + 2] = d[i]
  <2> TAKE i \in 1 .. Len(d)
  <2>1. i + 2 \in 1 .. 2 + Len(d) /\ ~(i + 2 <= 2) /\ (i + 2) - 2 = i
    BY <1>1
  <2> QED BY <1>4, <2>1
<1> QED BY <1>1, <1>2, <1>3, <1>4, <1>5, <1>6 DEF Avp, h

\* Types fit in a byte and are not 0, which last is before the first AVP.
LEMMA TypesAreNumbers == Type \subseteq 1 .. 255
BY DEF Type, NASPort, Class, CallingStationId, EAPMessage, MessageAuthenticator, TunnelPrivateGroupID

\* The chunks of a value are data, and all but the last have the full length (Concat.pack).
LEMMA ChunkIs ==
    ASSUME NEW d \in Seq(Octet), NEW n \in 0 .. Chunks(d)
    PROVE  /\ \A i \in 1 .. n : /\ Chunk(d, i) \in Seq(Octet)
                                /\ Len(Chunk(d, i)) = Min2(i * MaxDataLength, Len(d)) - (i - 1) * MaxDataLength
                                /\ Attribute(EAPMessage, Chunk(d, i)) \in Attrs
           /\ Chunked(d, n) \in Seq(Attrs) /\ Len(Chunked(d, n)) = n /\ DOMAIN Chunked(d, n) = 1 .. n
           /\ \A i \in 1 .. n : Chunked(d, n)[i] = Attribute(EAPMessage, Chunk(d, i))
<1> DEFINE m == MaxDataLength
           L == Len(d)
<1>1. m \in Nat \ {0} /\ L \in Nat
  BY BytesAssumption, LenProperties
<1>2. /\ Chunks(d) \in Nat /\ L <= Chunks(d) * m
      /\ Chunks(d) > 0 => (Chunks(d) - 1) * m < L
  BY <1>1, ChunksLaw
<1>3. ASSUME NEW i \in 1 .. n
      PROVE  Chunk(d, i) \in Seq(Octet) /\ Len(Chunk(d, i)) = Min2(i * m, L) - (i - 1) * m
  <2>1. i \in Nat /\ i > 0 /\ i <= Chunks(d) /\ Chunks(d) > 0
    BY <1>2
  <2> DEFINE lo == (i - 1) * m
             hi == Min2(i * m, L)
             top == (Chunks(d) - 1) * m
  <2>2. lo \in Nat /\ i * m = lo + m /\ lo <= top
    <3>1. \A x, y \in Nat : x <= y => x * m <= y * m
      BY ONLY <1>1
    <3>2. i - 1 \in Nat /\ Chunks(d) - 1 \in Nat /\ i - 1 <= Chunks(d) - 1
      BY <2>1, <1>2
    <3>3. lo \in Nat /\ lo <= top
      BY <1>1, <3>1, <3>2
    <3>4. i * m = lo + m
      BY ONLY <1>1, <2>1
    <3> QED BY <3>3, <3>4
  <2>3. top < L
    BY <1>2, <2>1
  <2>4. hi \in lo + 1 .. L
    <3>1. top \in Nat
      BY <1>1, <1>2, <2>1
    <3> HIDE DEF top, lo, m, L
    <3> QED BY <1>1, <2>2, <2>3, <3>1 DEF Min2
  <2> HIDE DEF lo, hi
  <2>5. \A j \in lo + 1 .. hi : d[j] \in Octet
    BY <2>2, <2>4, ElementOfSeq
  <2>6. lo + 1 \in Int /\ hi \in Int /\ lo + 1 <= hi /\ hi - (lo + 1) + 1 = hi - lo
    BY <1>1, <2>2, <2>4
  <2>7. SubSeq(d, lo + 1, hi) \in Seq(Octet) /\ Len(SubSeq(d, lo + 1, hi)) = hi - lo
    BY <2>5, <2>6, SubSeqProperties
  <2> QED BY <2>7 DEF Chunk, lo, hi
<1>4. \A i \in 1 .. n : Attribute(EAPMessage, Chunk(d, i)) \in Attrs
  BY <1>3, AttributeIs DEF Type
<1>5. n \in Nat /\ Chunked(d, n) \in [1 .. n -> Attrs]
  BY <1>2, <1>4 DEF Chunked
<1>6. Chunked(d, n) \in Seq(Attrs) /\ Len(Chunked(d, n)) = n /\ DOMAIN Chunked(d, n) = 1 .. n
  BY <1>5, MapIsSeq
<1> QED BY <1>3, <1>4, <1>6 DEF Chunked

\* Every attribute has data, bytes and AVPs.
LEMMA MapsOfAttributes ==
    /\ \A t : ValueOf(t) \in Maps(Attrs, Octet)
    /\ WireOf \in Maps(Attrs, Nat)
    /\ SplitOf \in Maps(Attrs, Attrs)
<1>1. \A t : ValueOf(t) \in Maps(Attrs, Octet)
  BY EmptySeq DEF ValueOf, Maps, Attrs
<1>2. WireOf \in Maps(Attrs, Nat)
  <2>1. \A a \in Attrs : a.type \in Nat /\ a.data \in Seq(Octet)
    <3>1. Type \subseteq Nat
      BY TypesAreNumbers
    <3> QED BY <3>1 DEF Attrs
  <2>2. \A a \in Attrs : Avp(a.type, a.data) \in Seq(Nat)
    BY <2>1, AvpIs
  <2> QED BY <2>2 DEF WireOf, Maps
<1>3. \A a \in Attrs : a.type = EAPMessage => Chunked(a.data, Chunks(a.data)) \in Seq(Attrs)
  <2> TAKE a \in Attrs
  <2> DEFINE d == a.data
  <2>1. d \in Seq(Octet)
    BY DEF Attrs
  <2> HIDE DEF d
  <2>2. Chunks(d) \in 0 .. Chunks(d)
    BY <2>1, ChunksLaw, LenProperties
  <2>3. Chunked(d, Chunks(d)) \in Seq(Attrs)
    BY <2>1, <2>2, ChunkIs
  <2> QED BY <2>3 DEF d
<1>4. SplitOf \in Maps(Attrs, Attrs)
  BY <1>3 DEF SplitOf, Maps
<1> QED BY <1>1, <1>2, <1>4

\* The chunks of a value are the value again.
LEMMA ChunksAreTheValue ==
    ASSUME NEW d \in Seq(Octet)
    PROVE  Value(EAPMessage, Chunked(d, Chunks(d))) = d
<1> DEFINE m == MaxDataLength
           L == Len(d)
           c == Chunks(d)
           G == ValueOf(EAPMessage)
           Ok == {k \in 0 .. c : Flat(G, Chunked(d, k)) = SubSeq(d, 1, Min2(k * m, L))}
<1>1. m \in Nat \ {0} /\ L \in Nat /\ G \in Maps(Attrs, Octet)
  BY BytesAssumption, LenProperties, MapsOfAttributes
<1>2. /\ c \in Nat /\ L <= c * m
      /\ c > 0 => (c - 1) * m < L
      /\ c = 0 <=> L = 0
  BY <1>1, ChunksLaw
<1>3. \A k \in 0 .. c : Chunked(d, k) \in Seq(Attrs) /\ Len(Chunked(d, k)) = k
  BY <1>2, ChunkIs
<1>4. 0 \in Ok
  <2>1. 0 \in 0 .. c
    BY <1>2
  <2>2. Chunked(d, 0) = <<>>
    BY <1>3, <2>1, EmptySeq
  <2>3. 0 * m = 0 /\ Min2(0, L) = 0
    BY <1>1 DEF Min2
  <2>4. SubSeq(d, 1, 0) = <<>>
    BY SubSeqEmpty
  <2> HIDE DEF G, m, L, c
  <2> QED BY <2>1, <2>2, <2>3, <2>4, FlatOfNone
<1>5. \A k \in 0 .. c : k \in Ok /\ k < c => k + 1 \in Ok
  <2> SUFFICES ASSUME NEW k \in 0 .. c, k < c, Flat(G, Chunked(d, k)) = SubSeq(d, 1, Min2(k * m, L))
               PROVE  k + 1 \in 0 .. c /\ Flat(G, Chunked(d, k + 1)) = SubSeq(d, 1, Min2((k + 1) * m, L))
    OBVIOUS
  <2> DEFINE lo == k * m
             hi == Min2((k + 1) * m, L)
             e == Attribute(EAPMessage, Chunk(d, k + 1))
  <2>1. k \in Nat /\ k + 1 \in 0 .. c /\ k + 1 \in 1 .. k + 1 /\ (k + 1) - 1 = k
    BY <1>2
  <2>2. lo \in Nat /\ lo < L
    <3>1. \A x, y \in Nat : x <= y => x * m <= y * m
      BY ONLY <1>1
    <3>2. c - 1 \in Nat /\ k <= c - 1 /\ c > 0
      BY <1>2, <2>1
    <3>3. k * m \in Nat /\ k * m <= (c - 1) * m
      BY ONLY <1>1, <2>1, <3>1, <3>2
    <3>4. (c - 1) * m < L /\ (c - 1) * m \in Nat
      BY ONLY <1>1, <1>2, <3>2
    <3> HIDE DEF m, L, c
    <3> QED BY ONLY <1>1, <3>3, <3>4 DEF lo
  <2>3. (k + 1) * m = lo + m
    BY ONLY <1>1, <2>1
  <2>4. Min2(lo, L) = lo /\ hi \in lo .. L
    <3> HIDE DEF lo, m, L
    <3> QED BY <1>1, <2>2, <2>3 DEF Min2
  <2>5. e \in Attrs /\ G[e] = Chunk(d, k + 1)
    <3>1. Chunk(d, k + 1) \in Seq(Octet) /\ e \in Attrs
      BY <2>1, ChunkIs
    <3>2. e.type = EAPMessage /\ e.data = Chunk(d, k + 1)
      BY DEF Attribute
    <3> HIDE DEF e
    <3> QED BY <3>1, <3>2 DEF ValueOf
  <2>6. Chunked(d, k + 1) = Append(Chunked(d, k), e)
    <3> DEFINE s == Chunked(d, k + 1)
               t == Chunked(d, k)
    <3>1. /\ s \in Seq(Attrs) /\ Len(s) = k + 1 /\ t \in Seq(Attrs) /\ Len(t) = k
          /\ \A i \in 1 .. k + 1 : s[i] = Attribute(EAPMessage, Chunk(d, i))
          /\ \A i \in 1 .. k : t[i] = Attribute(EAPMessage, Chunk(d, i))
      BY <2>1, ChunkIs
    <3> HIDE DEF s, t
    <3> DEFINE u == Append(t, e)
    <3>2. u \in Seq(Attrs) /\ Len(u) = k + 1 /\ u[k + 1] = e /\ \A i \in 1 .. k : u[i] = t[i]
      BY <2>5, <3>1, AppendProperties
    <3> HIDE DEF u
    <3>3. \A i \in 1 .. k + 1 : s[i] = u[i]
      <4>1. TAKE i \in 1 .. k + 1
      <4>2. CASE i = k + 1
        BY <2>1, <3>1, <3>2, <4>2
      <4>3. CASE i \in 1 .. k
        <5>1. t[i] = Attribute(EAPMessage, Chunk(d, i))
          BY ONLY <3>1, <4>3
        <5>2. s[i] = Attribute(EAPMessage, Chunk(d, i))
          BY ONLY <3>1, <4>1
        <5>3. u[i] = t[i]
          BY ONLY <3>2, <4>3
        <5> QED BY ONLY <5>1, <5>2, <5>3
      <4> QED BY <2>1, <4>2, <4>3
    <3>4. s = u
      BY <3>1, <3>2, <3>3, SeqEqual
    <3> QED BY <3>4 DEF s, t, u
  <2>7. Flat(G, Append(Chunked(d, k), e)) = Flat(G, Chunked(d, k)) \o G[e]
    <3>1. Chunked(d, k) \in Seq(Attrs)
      BY <1>3
    <3> DEFINE t == Chunked(d, k)
    <3>2. t \in Seq(Attrs) /\ e \in Attrs
      BY <2>5, <3>1
    <3> HIDE DEF G, e, t
    <3>3. Flat(G, Append(t, e)) = Flat(G, t) \o G[e]
      BY ONLY <1>1, <3>2, FlatOfMore
    <3> QED BY <3>3 DEF t
  <2>8. Chunk(d, k + 1) = SubSeq(d, lo + 1, hi)
    BY <2>1 DEF Chunk
  <2>9. SubSeq(d, 1, lo) \o SubSeq(d, lo + 1, hi) = SubSeq(d, 1, hi)
    <3>1. 1 \in 1 .. Len(d) + 1 /\ lo \in 1 - 1 .. Len(d) /\ hi \in lo .. Len(d)
      BY <1>1, <2>2, <2>4
    <3> HIDE DEF lo, hi
    <3> QED BY <3>1, ConcatAdjacentSubSeq
  <2> HIDE DEF G, e
  <2> QED BY <2>1, <2>4, <2>5, <2>6, <2>7, <2>8, <2>9
<1>6. 0 .. c \subseteq Ok
  <2> HIDE DEF Ok, c
  <2> QED BY <1>2, <1>4, <1>5, IntervalByInduction
<1>7. Flat(G, Chunked(d, c)) = SubSeq(d, 1, Min2(c * m, L))
  <2>1. c \in 0 .. c
    BY <1>2
  <2> QED BY <1>6, <2>1
<1>8. Min2(c * m, L) = L
  BY <1>1, <1>2 DEF Min2
<1> QED BY <1>7, <1>8, SubSeqFull DEF Value

\* The attributes that are joined, and the others.
Parts == {a \in Attrs : a.type = EAPMessage}
Others == {a \in Attrs : a.type # EAPMessage}

\* What an EAP-Message is split into.
LEMMA ChunksOfAttribute ==
    ASSUME NEW a \in Parts
    PROVE  /\ a.data \in Seq(Octet) /\ Chunks(a.data) \in Nat
           /\ SplitOf[a] = Chunked(a.data, Chunks(a.data))
           /\ SplitOf[a] \in Seq(Parts) /\ Len(SplitOf[a]) = Chunks(a.data)
<1> DEFINE d == a.data
           c == Chunks(d)
<1>1. d \in Seq(Octet) /\ a \in Attrs /\ a.type = EAPMessage
  BY DEF Parts, Attrs
<1>2. c \in Nat
  BY <1>1, ChunksLaw, LenProperties
<1>3. SplitOf[a] = Chunked(d, c)
  BY <1>1 DEF SplitOf
<1> HIDE DEF d
<1>4. c \in 0 .. c
  BY <1>2
<1>5. /\ Len(Chunked(d, c)) = c
      /\ \A i \in 1 .. c : Attribute(EAPMessage, Chunk(d, i)) \in Attrs
  BY <1>1, <1>4, ChunkIs
<1>6. \A i \in 1 .. c : Attribute(EAPMessage, Chunk(d, i)) \in Parts
  BY <1>5 DEF Parts, Attribute
<1>7. Chunked(d, c) \in [1 .. c -> Parts]
  BY <1>6 DEF Chunked
<1>8. Chunked(d, c) \in Seq(Parts)
  <2> HIDE DEF c
  <2> QED BY <1>2, <1>7, MapIsSeq
<1> QED BY <1>1, <1>2, <1>3, <1>5, <1>8 DEF d

\* An attribute and its AVPs have the same value.
LEMMA SplitValue ==
    ASSUME NEW t \in Type, NEW r \in Seq(Attrs)
    PROVE  Split(r) \in Seq(Attrs) /\ Value(t, Split(r)) = Value(t, r)
<1> DEFINE G == ValueOf(t)
<1>1. G \in Maps(Attrs, Octet) /\ SplitOf \in Maps(Attrs, Attrs)
  BY MapsOfAttributes
<1>2. ASSUME NEW a \in Attrs PROVE G[a] = Flat(G, SplitOf[a])
  <2>1. CASE a.type # EAPMessage
    <3>1. SplitOf[a] = <<a>>
      BY <2>1 DEF SplitOf
    <3> HIDE DEF G
    <3> QED BY <1>1, <3>1, FlatOfOne
  <2>2. CASE a.type = EAPMessage
    <3>1. a \in Parts
      BY <2>2 DEF Parts
    <3>2. CASE t = EAPMessage
      <4>1. Flat(G, SplitOf[a]) = a.data
        BY <3>1, <3>2, ChunksOfAttribute, ChunksAreTheValue DEF Value
      <4> QED BY <2>2, <3>2, <4>1 DEF ValueOf
    <3>3. CASE t # EAPMessage
      <4>1. SplitOf[a] \in Seq(Parts) /\ Parts \subseteq Attrs
        BY <3>1, ChunksOfAttribute DEF Parts
      <4>2. \A p \in Parts : G[p] = <<>>
        BY <3>3 DEF ValueOf, Parts
      <4>3. G[a] = <<>>
        BY <3>1, <4>2
      <4> HIDE DEF G
      <4>4. Flat(G, SplitOf[a]) = <<>>
        BY <1>1, <4>1, <4>2, FlatOfDropped
      <4> QED BY <4>3, <4>4
    <3> QED BY <3>2, <3>3
  <2> QED BY <2>1, <2>2
<1>3. Split(r) \in Seq(Attrs)
  BY <1>1, FlatType DEF Split
<1>4. Flat(G, Flat(SplitOf, r)) = Flat(G, r)
  <2> HIDE DEF G
  <2> QED BY <1>1, <1>2, FlatOfFlat
<1> QED BY <1>3, <1>4 DEF Value, Split

\* To pack an attribute is to write its AVPs.
LEMMA PackIsWire ==
    ASSUME NEW a \in Attrs
    PROVE  Pack(a) \in Seq(Nat) /\ Pack(a) = Flat(WireOf, SplitOf[a])
<1>1. CASE a.type # EAPMessage
  <2>1. SplitOf[a] = <<a>> /\ Pack(a) = WireOf[a]
    BY <1>1 DEF SplitOf, Pack, WireOf
  <2>2. Flat(WireOf, <<a>>) = WireOf[a]
    BY MapsOfAttributes, FlatOfOne
  <2> QED BY <2>1, <2>2, MapsOfAttributes DEF Maps
<1>2. CASE a.type = EAPMessage
  <2> DEFINE d == a.data
             c == Chunks(d)
  <2>1. a \in Parts
    BY <1>2 DEF Parts
  <2>2. /\ d \in Seq(Octet) /\ c \in Nat
        /\ SplitOf[a] = Chunked(d, c) /\ SplitOf[a] \in Seq(Attrs)
    <3>1. Parts \subseteq Attrs
      BY DEF Parts
    <3> QED BY <2>1, <3>1, ChunksOfAttribute, SeqMonotonic
  <2>3. Pack(a) = FlattenSeq([i \in 1 .. c |-> Avp(EAPMessage, Chunk(d, i))])
    BY <1>2 DEF Pack, Chunk
  <2> HIDE DEF d
  <2>4. c \in 0 .. c
    BY <2>2
  <2>5. /\ DOMAIN Chunked(d, c) = 1 .. c
        /\ \A i \in 1 .. c : /\ Chunked(d, c)[i] = Attribute(EAPMessage, Chunk(d, i))
                             /\ Attribute(EAPMessage, Chunk(d, i)) \in Attrs
    BY <2>2, <2>4, ChunkIs
  <2>6. \A i \in 1 .. c : WireOf[Chunked(d, c)[i]] = Avp(EAPMessage, Chunk(d, i))
    <3> SUFFICES ASSUME NEW i \in 1 .. c PROVE WireOf[Chunked(d, c)[i]] = Avp(EAPMessage, Chunk(d, i))
      OBVIOUS
    <3> DEFINE e == Attribute(EAPMessage, Chunk(d, i))
    <3>1. e \in Attrs /\ Chunked(d, c)[i] = e
      BY <2>5
    <3>2. e.type = EAPMessage /\ e.data = Chunk(d, i)
      BY DEF Attribute
    <3> HIDE DEF e
    <3>3. WireOf[e] = Avp(e.type, e.data)
      BY <3>1 DEF WireOf
    <3> QED BY <3>1, <3>2, <3>3
  <2> HIDE DEF c
  <2>7. [i \in DOMAIN Chunked(d, c) |-> WireOf[Chunked(d, c)[i]]] = [i \in 1 .. c |-> Avp(EAPMessage, Chunk(d, i))]
    BY <2>5, <2>6
  <2>8. Flat(WireOf, SplitOf[a]) = Pack(a)
    BY <2>2, <2>3, <2>7 DEF Flat
  <2>9. Flat(WireOf, SplitOf[a]) \in Seq(Nat)
    BY <2>2, MapsOfAttributes, FlatType
  <2> QED BY <2>8, <2>9
<1> QED BY <1>1, <1>2

\* A list of attributes is packed as the AVPs that its attributes are split into.
LEMMA Packing ==
    ASSUME NEW r \in Seq(Attrs)
    PROVE  /\ Wire(r) = Flat(WireOf, r) /\ Wire(r) \in Seq(Nat)
           /\ PackAttributes(r) = Wire(Split(r)) /\ PackAttributes(r) \in Seq(Nat)
           /\ Split(r) \in Seq(Attrs) /\ PackAttributes(r) = Flat(PackOf, r)
<1>1. ASSUME NEW q \in Seq(Attrs) PROVE Wire(q) = Flat(WireOf, q) /\ Wire(q) \in Seq(Nat)
  <2>1. \A i \in DOMAIN q : WireOf[q[i]] = Avp(q[i].type, q[i].data)
    BY ElementOfSeq, LenProperties DEF WireOf
  <2>2. [i \in DOMAIN q |-> WireOf[q[i]]] = [i \in DOMAIN q |-> Avp(q[i].type, q[i].data)]
    BY <2>1
  <2>3. Wire(q) = Flat(WireOf, q)
    BY <2>2 DEF Wire, Flat
  <2>4. WireOf \in Maps(Attrs, Nat) /\ q \in Seq(Attrs)
    BY <1>1, MapsOfAttributes
  <2>5. Flat(WireOf, q) \in Seq(Nat)
    BY ONLY <2>4, FlatType
  <2> QED BY <2>3, <2>5
<1>2. Split(r) \in Seq(Attrs)
  BY MapsOfAttributes, FlatType DEF Split
<1>3. PackOf \in Maps(Attrs, Nat)
  BY PackIsWire DEF PackOf, Maps
<1>4. PackAttributes(r) = Flat(PackOf, r)
  <2>1. \A i \in DOMAIN r : PackOf[r[i]] = Pack(r[i])
    BY ElementOfSeq, LenProperties DEF PackOf
  <2>2. [i \in DOMAIN r |-> PackOf[r[i]]] = [i \in DOMAIN r |-> Pack(r[i])]
    BY <2>1
  <2> QED BY <2>2 DEF PackAttributes, Flat
<1>5. Flat(WireOf, Flat(SplitOf, r)) = Flat(PackOf, r)
  <2>1. \A a \in Attrs : PackOf[a] = Flat(WireOf, SplitOf[a])
    BY PackIsWire DEF PackOf
  <2> QED BY <1>3, <2>1, MapsOfAttributes, FlatOfFlat
<1> QED BY <1>1, <1>2, <1>4, <1>5 DEF Split

\* The bytes of AVPs, one after the other.
LEMMA WireIs ==
    /\ Wire(<<>>) = <<>>
    /\ \A r, q \in Seq(Attrs) : Wire(r \o q) = Wire(r) \o Wire(q)
    /\ \A a \in Attrs : Wire(<<a>>) = Avp(a.type, a.data) /\ Avp(a.type, a.data) \in Seq(Nat)
    /\ \A r \in Seq(Attrs), a \in Attrs : Wire(Append(r, a)) = Wire(r) \o Avp(a.type, a.data)
<1>1. <<>> \in Seq(Attrs) /\ WireOf \in Maps(Attrs, Nat)
  BY EmptySeq, MapsOfAttributes
<1>2. Wire(<<>>) = <<>>
  BY <1>1, Packing, FlatOfNone
<1>3. \A r, q \in Seq(Attrs) : Wire(r \o q) = Wire(r) \o Wire(q)
  <2> TAKE r, q \in Seq(Attrs)
  <2>1. r \o q \in Seq(Attrs)
    BY ConcatProperties
  <2>2. Flat(WireOf, r \o q) = Flat(WireOf, r) \o Flat(WireOf, q)
    BY <1>1, FlatOfBoth
  <2> QED BY <2>1, <2>2, Packing
<1>4. \A a \in Attrs : WireOf[a] = Avp(a.type, a.data) /\ WireOf[a] \in Seq(Nat)
  BY <1>1 DEF WireOf, Maps
<1>5. \A a \in Attrs : Wire(<<a>>) = WireOf[a]
  <2> TAKE a \in Attrs
  <2>1. <<a>> \in Seq(Attrs)
    OBVIOUS
  <2>2. Wire(<<a>>) = Flat(WireOf, <<a>>)
    BY <2>1, Packing
  <2>3. Flat(WireOf, <<a>>) = WireOf[a]
    BY <1>1, FlatOfOne
  <2> QED BY <2>2, <2>3
<1>6. \A r \in Seq(Attrs), a \in Attrs : Wire(Append(r, a)) = Wire(r) \o WireOf[a]
  <2> TAKE r \in Seq(Attrs), a \in Attrs
  <2>1. Append(r, a) = r \o <<a>> /\ <<a>> \in Seq(Attrs)
    BY AppendIsConcat
  <2> QED BY <1>3, <1>5, <2>1
<1> QED BY <1>2, <1>3, <1>4, <1>5, <1>6

\* The bytes of AVPs start with those of the first.
LEMMA FirstAvp ==
    ASSUME NEW r \in Seq(Attrs), r # <<>>
    PROVE  /\ r[1] \in Attrs /\ Tail(r) \in Seq(Attrs) /\ Len(Tail(r)) = Len(r) - 1
           /\ r = <<r[1]>> \o Tail(r)
           /\ Wire(r) = Avp(r[1].type, r[1].data) \o Wire(Tail(r))
<1>1. Len(r) \in Nat /\ 1 \in 1 .. Len(r) /\ Len(r) \in 1 .. Len(r)
  BY EmptySeq
<1>2. r[1] \in Attrs /\ Tail(r) \in Seq(Attrs) /\ Len(Tail(r)) = Len(r) - 1
  BY <1>1, ElementOfSeq, HeadTailProperties
<1>3. r = <<r[1]>> \o Tail(r)
  <2>1. SubSeq(r, 1, Len(r)) = <<r[1]>> \o SubSeq(r, 1 + 1, Len(r))
    BY <1>1, SubSeqRecursiveFirst
  <2>2. Tail(r) = SubSeq(r, 2, Len(r)) /\ SubSeq(r, 1, Len(r)) = r
    BY TailIsSubSeq, SubSeqFull
  <2> QED BY <2>1, <2>2
<1>4. <<r[1]>> \in Seq(Attrs)
  BY <1>2
<1> DEFINE h == <<r[1]>>
           t == Tail(r)
<1>5. Wire(h \o t) = Wire(h) \o Wire(t)
  <2>1. h \in Seq(Attrs) /\ t \in Seq(Attrs)
    BY <1>2, <1>4
  <2> HIDE DEF h, t
  <2> QED BY <2>1, WireIs
<1>6. Wire(h) = Avp(r[1].type, r[1].data)
  BY <1>2, WireIs
<1> QED BY <1>2, <1>3, <1>5, <1>6

\* The first AVP of a packet can be read from its bytes.
LEMMA AvpIsRead ==
    ASSUME NEW a \in Attrs, NEW w \in Seq(Nat), NEW x, x = Avp(a.type, a.data) \o w
    PROVE  /\ x \in Seq(Nat) /\ Len(x) = Len(a.data) + 2 + Len(w)
           /\ x[1] = a.type /\ x[2] = Len(a.data) + 2
           /\ \A i \in 1 .. Len(a.data) : x[i + 2] = a.data[i]
<1> DEFINE d == a.data
           v == Avp(a.type, d)
<1>1. d \in Seq(Octet) /\ a.type \in Nat /\ Len(d) \in Nat /\ Len(w) \in Nat
  <2>1. Type \subseteq Nat
    BY TypesAreNumbers
  <2> QED BY <2>1, LenProperties DEF Attrs
<1>2. /\ v \in Seq(Nat) /\ Len(v) = Len(d) + 2
      /\ v[1] = a.type /\ v[2] = Len(d) + 2
      /\ \A i \in 1 .. Len(d) : v[i + 2] = d[i]
  BY <1>1, AvpIs
<1> HIDE DEF v, d
<1>3. /\ v \o w \in Seq(Nat) /\ Len(v \o w) = Len(v) + Len(w)
      /\ \A i \in 1 .. Len(v) + Len(w) : (v \o w)[i] = IF i <= Len(v) THEN v[i] ELSE w[i - Len(v)]
  BY <1>2, ConcatProperties
<1>4. x = v \o w
  BY DEF v, d
<1>5. \A i \in 1 .. Len(d) + 2 : x[i] = v[i]
  BY <1>1, <1>2, <1>3, <1>4
<1>6. 1 \in 1 .. Len(d) + 2 /\ 2 \in 1 .. Len(d) + 2 /\ \A i \in 1 .. Len(d) : i + 2 \in 1 .. Len(d) + 2
  BY <1>1
<1> QED BY <1>1, <1>2, <1>3, <1>4, <1>5, <1>6 DEF d

\* No two sequences of AVPs have the same bytes.
LEMMA WireIsInjective ==
    ASSUME NEW A \in Seq(Attrs), NEW B \in Seq(Attrs), Wire(A) = Wire(B)
    PROVE  A = B
<1> DEFINE Ok == {n \in Nat : \A r, q \in Seq(Attrs) : Len(r) = n /\ Wire(r) = Wire(q) => r = q}
<1>1. \A r \in Seq(Attrs) : r # <<>> => Wire(r) # <<>>
  <2> SUFFICES ASSUME NEW r \in Seq(Attrs), r # <<>> PROVE Wire(r) # <<>>
    OBVIOUS
  <2> DEFINE a == r[1]
             w == Wire(Tail(r))
  <2>1. a \in Attrs /\ w \in Seq(Nat) /\ Wire(r) = Avp(a.type, a.data) \o w
    BY FirstAvp, Packing
  <2>2. Len(a.data) \in Nat /\ Len(w) \in Nat
    BY <2>1, LenProperties DEF Attrs
  <2> HIDE DEF a, w
  <2>3. Len(Wire(r)) = Len(a.data) + 2 + Len(w)
    BY <2>1, AvpIsRead
  <2> QED BY <2>2, <2>3, EmptySeq
<1>2. 0 \in Ok
  <2> SUFFICES ASSUME NEW r \in Seq(Attrs), NEW q \in Seq(Attrs), Len(r) = 0, Wire(r) = Wire(q) PROVE r = q
    OBVIOUS
  <2>1. r = <<>>
    BY EmptySeq
  <2>2. Wire(q) = <<>>
    BY <2>1, WireIs
  <2> QED BY <1>1, <2>1, <2>2
<1>3. ASSUME NEW n \in Nat, n \in Ok PROVE n + 1 \in Ok
  <2> SUFFICES ASSUME NEW r \in Seq(Attrs), NEW q \in Seq(Attrs), Len(r) = n + 1, Wire(r) = Wire(q) PROVE r = q
    OBVIOUS
  <2>1. r # <<>>
    BY EmptySeq
  <2>2. q # <<>>
    BY <1>1, <2>1, WireIs
  <2> DEFINE a == r[1]
             b == q[1]
             s == Tail(r)
             t == Tail(q)
  <2>3. /\ a \in Attrs /\ s \in Seq(Attrs) /\ Len(s) = n /\ r = <<a>> \o s /\ Wire(r) = Avp(a.type, a.data) \o Wire(s)
        /\ b \in Attrs /\ t \in Seq(Attrs) /\ q = <<b>> \o t /\ Wire(q) = Avp(b.type, b.data) \o Wire(t)
    <3>1. Len(r) - 1 = n
      OBVIOUS
    <3>2. /\ a \in Attrs /\ s \in Seq(Attrs) /\ Len(s) = Len(r) - 1
          /\ r = <<a>> \o s /\ Wire(r) = Avp(a.type, a.data) \o Wire(s)
      BY <2>1, FirstAvp, Zenon
    <3>3. b \in Attrs /\ t \in Seq(Attrs) /\ q = <<b>> \o t /\ Wire(q) = Avp(b.type, b.data) \o Wire(t)
      BY <2>2, FirstAvp, Zenon
    <3> HIDE DEF a, b, s, t
    <3> QED BY <3>1, <3>2, <3>3, Zenon
  <2> HIDE DEF a, b, s, t
  <2>4. Wire(s) \in Seq(Nat) /\ Wire(t) \in Seq(Nat) /\ a.data \in Seq(Octet) /\ b.data \in Seq(Octet)
    BY <2>3, Packing DEF Attrs
  <2> DEFINE w == Wire(r)
  <2>5. w = Avp(a.type, a.data) \o Wire(s) /\ w = Avp(b.type, b.data) \o Wire(t)
    BY <2>3
  <2> HIDE DEF w
  <2>6. /\ w[1] = a.type /\ w[2] = Len(a.data) + 2 /\ \A i \in 1 .. Len(a.data) : w[i + 2] = a.data[i]
        /\ w[1] = b.type /\ w[2] = Len(b.data) + 2 /\ \A i \in 1 .. Len(b.data) : w[i + 2] = b.data[i]
    <3> DEFINE y == Wire(s)
               z == Wire(t)
    <3>1. a \in Attrs /\ y \in Seq(Nat) /\ w = Avp(a.type, a.data) \o y
      BY <2>3, <2>4, <2>5
    <3>2. b \in Attrs /\ z \in Seq(Nat) /\ w = Avp(b.type, b.data) \o z
      BY <2>3, <2>4, <2>5
    <3> HIDE DEF y, z
    <3>3. w[1] = a.type /\ w[2] = Len(a.data) + 2 /\ \A i \in 1 .. Len(a.data) : w[i + 2] = a.data[i]
      BY ONLY <3>1, AvpIsRead
    <3>4. w[1] = b.type /\ w[2] = Len(b.data) + 2 /\ \A i \in 1 .. Len(b.data) : w[i + 2] = b.data[i]
      BY ONLY <3>2, AvpIsRead
    <3> QED BY <3>3, <3>4, Zenon
  <2>7. Len(a.data) = Len(b.data)
    <3>1. Len(a.data) \in Nat /\ Len(b.data) \in Nat
      BY <2>4, LenProperties
    <3> QED BY <2>6, <3>1
  <2>8. a.data = b.data
    <3>1. \A i \in 1 .. Len(a.data) : a.data[i] = b.data[i]
      BY <2>6, <2>7
    <3> QED BY <2>4, <2>7, <3>1, SeqEqual
  <2>9. a = b
    <3>1. a.type = b.type
      BY <2>6
    <3>2. a \in Attrs /\ b \in Attrs
      BY <2>3
    <3>3. a = [type |-> a.type, data |-> a.data] /\ b = [type |-> b.type, data |-> b.data]
      BY <3>2 DEF Attrs
    <3> QED BY ONLY <3>1, <3>3, <2>8, Zenon
  <2>10. Wire(s) = Wire(t)
    <3> DEFINE v == Avp(a.type, a.data)
    <3>1. v \in Seq(Nat) /\ v \o Wire(s) = v \o Wire(t)
      BY <2>3, <2>5, <2>9, WireIs
    <3> HIDE DEF v
    <3>2. \A x, y, z \in Seq(Nat) : x \o y = x \o z => y = z
      BY ONLY ConcatSimplifications, Zenon
    <3> QED BY ONLY <2>4, <3>1, <3>2, Zenon
  <2>11. s = t
    BY <1>3, <2>3, <2>10
  <2> QED BY <2>3, <2>9, <2>11
<1>4. Nat \subseteq Ok
  <2> HIDE DEF Ok
  <2> QED BY <1>2, <1>3, NaturalsByInduction
<1>5. Len(A) \in Nat
  BY LenProperties
<1> QED BY <1>4, <1>5

\* The data of the attributes of a type, one after the other.
LEMMA ValueIs ==
    ASSUME NEW t
    PROVE  /\ Value(t, <<>>) = <<>>
           /\ \A r, q \in Seq(Attrs) : Value(t, r \o q) = Value(t, r) \o Value(t, q)
           /\ \A r \in Seq(Attrs) : Value(t, r) \in Seq(Octet)
           /\ \A a \in Attrs : Value(t, <<a>>) = IF a.type = t THEN a.data ELSE <<>>
<1> DEFINE V == ValueOf(t)
<1>1. V \in Maps(Attrs, Octet)
  BY MapsOfAttributes
<1>2. \A a \in Attrs : V[a] = IF a.type = t THEN a.data ELSE <<>>
  BY DEF ValueOf
<1> HIDE DEF V
<1>3. /\ \A r, q \in Seq(Attrs) : Flat(V, r \o q) = Flat(V, r) \o Flat(V, q)
      /\ \A r \in Seq(Attrs) : Flat(V, r) \in Seq(Octet)
      /\ \A a \in Attrs : Flat(V, <<a>>) = V[a]
      /\ Flat(V, <<>>) = <<>>
  BY <1>1, FlatOfBoth, FlatType, FlatOfOne, FlatOfNone
<1> QED BY <1>2, <1>3 DEF Value, V

\* The header of each AVP has two bytes.
LEMMA WireLength ==
    ASSUME NEW r \in Seq(Parts)
    PROVE  Len(Wire(r)) = 2 * Len(r) + Len(Value(EAPMessage, r))
<1> DEFINE Ok == {q \in Seq(Parts) : Len(Wire(q)) = 2 * Len(q) + Len(Value(EAPMessage, q))}
<1>1. Parts \subseteq Attrs
  BY DEF Parts
<1>2. <<>> \in Ok
  BY WireIs, ValueIs, EmptySeq
<1>3. ASSUME NEW q \in Seq(Parts), NEW a \in Parts, q \in Ok PROVE Append(q, a) \in Ok
  <2>1. q \in Seq(Attrs) /\ a \in Attrs /\ <<a>> \in Seq(Attrs)
    BY <1>1, SeqMonotonic
  <2>2. a.data \in Seq(Octet) /\ a.type \in Nat /\ a.type = EAPMessage
    <3>1. Type \subseteq Nat
      BY TypesAreNumbers
    <3> QED BY <3>1 DEF Attrs, Parts
  <2> DEFINE x == Wire(q)
             y == Avp(a.type, a.data)
             u == Value(EAPMessage, q)
             v == a.data
  <2>3. Append(q, a) = q \o <<a>> /\ Append(q, a) \in Seq(Parts) /\ Len(Append(q, a)) = Len(q) + 1
    BY AppendIsConcat, AppendProperties
  <2>4. Wire(Append(q, a)) = x \o y
    BY <2>1, WireIs
  <2>5. Value(EAPMessage, q \o <<a>>) = u \o v
    BY <2>1, <2>2, ValueIs
  <2>6. x \in Seq(Nat) /\ y \in Seq(Nat) /\ u \in Seq(Octet) /\ v \in Seq(Octet) /\ Len(y) = Len(v) + 2
    BY <2>1, <2>2, Packing, ValueIs, AvpIs
  <2>7. Len(x) = 2 * Len(q) + Len(u) /\ Len(q) \in Nat
    BY <1>3, LenProperties
  <2> HIDE DEF x, y, u, v
  <2>8. Len(x \o y) = Len(x) + Len(y) /\ Len(u \o v) = Len(u) + Len(v) /\ Len(u) \in Nat /\ Len(v) \in Nat
    BY <2>6, ConcatProperties, LenProperties
  <2>9. Len(x) + Len(y) = 2 * (Len(q) + 1) + (Len(u) + Len(v))
    BY ONLY <2>6, <2>7, <2>8
  <2>10. Len(x \o y) = 2 * (Len(q) + 1) + Len(u \o v)
    BY <2>8, <2>9
  <2> QED BY <2>3, <2>4, <2>5, <2>10
<1>4. Seq(Parts) \subseteq Ok
  <2> HIDE DEF Ok
  <2> QED BY <1>2, <1>3, SequencesByInduction
<1> QED BY <1>4

\* full_length is the number of bytes that an attribute is packed into.
LEMMA FullLengthIs ==
    ASSUME NEW a \in Attrs
    PROVE  FullLength(a) = Len(Pack(a)) /\ FullLength(a) \in Nat
<1>1. a.data \in Seq(Octet) /\ a.type \in Nat /\ Len(a.data) \in Nat
  <2>1. Type \subseteq Nat
    BY TypesAreNumbers
  <2> QED BY <2>1, LenProperties DEF Attrs
<1>2. CASE a.type # EAPMessage
  BY <1>1, <1>2, AvpIs DEF FullLength, Pack
<1>3. CASE a.type = EAPMessage
  <2> DEFINE s == SplitOf[a]
  <2>1. a \in Parts /\ Parts \subseteq Attrs
    BY <1>3 DEF Parts
  <2>2. s \in Seq(Parts) /\ Len(s) = Chunks(a.data) /\ s = Chunked(a.data, Chunks(a.data)) /\ Chunks(a.data) \in Nat
    BY <2>1, ChunksOfAttribute
  <2> HIDE DEF s
  <2>3. s \in Seq(Attrs)
    BY <2>1, <2>2, SeqMonotonic
  <2>4. Pack(a) = Wire(s)
    BY <2>3, PackIsWire, Packing DEF s
  <2>5. Value(EAPMessage, s) = a.data
    BY <1>1, <2>2, ChunksAreTheValue
  <2>6. Len(Wire(s)) = 2 * Chunks(a.data) + Len(a.data)
    BY <2>2, <2>5, WireLength
  <2> QED BY <1>1, <1>3, <2>2, <2>4, <2>6 DEF FullLength
<1> QED BY <1>2, <1>3

\* The sums of the lengths of attributes.
IsTotal(f, r, last_) == f = [n \in 0 .. last_ |-> IF n = 0 THEN 0 ELSE f[n - 1] + FullLength(r[n])]

\* There is such a function.
LEMMA TotalExists ==
    ASSUME NEW r, NEW last_ \in Nat
    PROVE  \E f : IsTotal(f, r, last_)
<1> DEFINE Ok == {k \in Nat : \E f : f = [n \in 0 .. k |-> IF n = 0 THEN 0 ELSE f[n - 1] + FullLength(r[n])]}
<1>1. 0 \in Ok
  <2> DEFINE f == [n \in 0 .. 0 |-> 0]
  <2>1. f = [n \in 0 .. 0 |-> IF n = 0 THEN 0 ELSE f[n - 1] + FullLength(r[n])]
    OBVIOUS
  <2>2. \E h : h = [n \in 0 .. 0 |-> IF n = 0 THEN 0 ELSE h[n - 1] + FullLength(r[n])]
    <3> HIDE DEF f
    <3> QED BY <2>1, Zenon
  <2>3. 0 \in Nat
    OBVIOUS
  <2> QED BY <2>2, <2>3, Zenon
<1>2. ASSUME NEW k \in Nat, k \in Ok PROVE k + 1 \in Ok
  <2>1. PICK f : f = [n \in 0 .. k |-> IF n = 0 THEN 0 ELSE f[n - 1] + FullLength(r[n])]
    BY <1>2
  <2> DEFINE g == [n \in 0 .. k + 1 |-> IF n = k + 1 THEN f[k] + FullLength(r[k + 1]) ELSE f[n]]
  <2>2. \A n \in 0 .. k + 1 : g[n] = IF n = 0 THEN 0 ELSE g[n - 1] + FullLength(r[n])
    <3>1. \A n \in 0 .. k : f[n] = IF n = 0 THEN 0 ELSE f[n - 1] + FullLength(r[n])
      BY <2>1
    <3>2. (\A n \in 0 .. k : g[n] = f[n]) /\ g[k + 1] = f[k] + FullLength(r[k + 1])
      OBVIOUS
    <3> HIDE DEF g
    <3> QED BY <3>1, <3>2
  <2>3. g = [n \in 0 .. k + 1 |-> IF n = 0 THEN 0 ELSE g[n - 1] + FullLength(r[n])]
    BY <2>2
  <2>4. \E h : h = [n \in 0 .. k + 1 |-> IF n = 0 THEN 0 ELSE h[n - 1] + FullLength(r[n])]
    <3> HIDE DEF g
    <3> QED BY <2>3, Zenon
  <2>5. k + 1 \in Nat
    OBVIOUS
  <2> QED BY <2>4, <2>5, Zenon
<1>3. Nat \subseteq Ok
  <2> HIDE DEF Ok
  <2> QED BY <1>1, <1>2, NaturalsByInduction
<1> QED BY <1>3 DEF IsTotal

\* Lengths are these sums.
LEMMA LengthsAre ==
    ASSUME NEW r, Len(r) \in Nat
    PROVE  \A n \in 0 .. Len(r) : Lengths(r)[n] = IF n = 0 THEN 0 ELSE Lengths(r)[n - 1] + FullLength(r[n])
<1>1. \E f : IsTotal(f, r, Len(r))
  BY TotalExists
<1>2. Lengths(r) = [n \in 0 .. Len(r) |-> IF n = 0 THEN 0 ELSE Lengths(r)[n - 1] + FullLength(r[n])]
  BY ONLY <1>1, Zenon DEF Lengths, IsTotal
<1> QED BY <1>2

\* The bytes of attributes, one after the other.
LEMMA PackAttributesIs ==
    /\ PackAttributes(<<>>) = <<>>
    /\ \A r, q \in Seq(Attrs) : PackAttributes(r \o q) = PackAttributes(r) \o PackAttributes(q)
    /\ \A a \in Attrs : PackAttributes(<<a>>) = Pack(a)
<1>1. PackOf \in Maps(Attrs, Nat) /\ \A a \in Attrs : PackOf[a] = Pack(a)
  BY PackIsWire DEF PackOf, Maps
<1>2. \A r \in Seq(Attrs) : PackAttributes(r) = Flat(PackOf, r)
  BY Packing
<1>3. <<>> \in Seq(Attrs)
  BY EmptySeq
<1>4. \A r, q \in Seq(Attrs) : r \o q \in Seq(Attrs) /\ Flat(PackOf, r \o q) = Flat(PackOf, r) \o Flat(PackOf, q)
  BY <1>1, ConcatProperties, FlatOfBoth
<1>5. \A a \in Attrs : <<a>> \in Seq(Attrs) /\ Flat(PackOf, <<a>>) = PackOf[a]
  <2>1. \A a \in Attrs : <<a>> \in Seq(Attrs)
    OBVIOUS
  <2>2. \A a \in Attrs : Flat(PackOf, <<a>>) = PackOf[a]
    BY <1>1, FlatOfOne
  <2> QED BY <2>1, <2>2
<1>6. PackAttributes(<<>>) = <<>>
  BY ONLY <1>2, <1>3, FlatOfNone
<1>7. \A r, q \in Seq(Attrs) : PackAttributes(r \o q) = PackAttributes(r) \o PackAttributes(q)
  BY ONLY <1>2, <1>4, Zenon
<1>8. \A a \in Attrs : PackAttributes(<<a>>) = Pack(a)
  BY ONLY <1>1, <1>2, <1>5, Zenon
<1> QED BY <1>6, <1>7, <1>8

\* The lengths are those of what comes before.
LEMMA LengthsLaw ==
    ASSUME NEW r \in Seq(Attrs)
    PROVE  \A n \in 0 .. Len(r) : Lengths(r)[n] = Len(PackAttributes(SubSeq(r, 1, n)))
<1> DEFINE L == Len(r)
           f == Lengths(r)
           p(n) == SubSeq(r, 1, n)
           Ok == {n \in 0 .. L : f[n] = Len(PackAttributes(p(n)))}
<1>1. L \in Nat
  BY LenProperties
<1>2. \A n \in 0 .. L : f[n] = IF n = 0 THEN 0 ELSE f[n - 1] + FullLength(r[n])
  BY <1>1, LengthsAre
<1>3. \A n \in 0 .. L : p(n) \in Seq(Attrs)
  <2> TAKE n \in 0 .. L
  <2>1. \A i \in 1 .. n : r[i] \in Attrs
    BY <1>1, ElementOfSeq
  <2>2. 1 \in Int /\ n \in Int
    BY <1>1
  <2> QED BY <2>1, <2>2, SubSeqProperties
<1>4. 0 \in Ok
  <2>1. SubSeq(r, 1, 0) = <<>>
    BY SubSeqEmpty
  <2>2. 0 \in 0 .. L /\ f[0] = 0
    BY <1>1, <1>2
  <2> HIDE DEF f, L
  <2> QED BY <2>1, <2>2, PackAttributesIs, EmptySeq
<1>5. \A n \in 0 .. L : n \in Ok /\ n < L => n + 1 \in Ok
  <2> SUFFICES ASSUME NEW n \in 0 .. L, n < L, f[n] = Len(PackAttributes(p(n)))
               PROVE  n + 1 \in 0 .. L /\ f[n + 1] = Len(PackAttributes(p(n + 1)))
    OBVIOUS
  <2> DEFINE a == r[n + 1]
  <2>1. n + 1 \in 0 .. L /\ n + 1 \in 1 .. L /\ n + 1 # 0 /\ (n + 1) - 1 = n /\ 1 \in 1 .. L /\ n + 1 \in 1 .. Len(r)
    BY <1>1
  <2>2. f[n + 1] = f[n] + FullLength(a)
    BY <1>2, <2>1
  <2>3. p(n + 1) = p(n) \o <<a>>
    <3>1. SubSeq(r, 1, n + 1) = SubSeq(r, 1, (n + 1) - 1) \o <<r[n + 1]>>
      BY <2>1, SubSeqRecursiveSecond
    <3> QED BY <2>1, <3>1
  <2>4. p(n) \in Seq(Attrs) /\ a \in Attrs /\ <<a>> \in Seq(Attrs)
    BY <1>3, <2>1, ElementOfSeq
  <2> DEFINE q == p(n)
             x == PackAttributes(q)
  <2>5. PackAttributes(q \o <<a>>) = x \o Pack(a)
    <3> HIDE DEF a, q
    <3> QED BY <2>4, PackAttributesIs DEF q
  <2>6. x \in Seq(Nat) /\ Pack(a) \in Seq(Nat) /\ FullLength(a) = Len(Pack(a))
    BY <2>4, Packing, PackIsWire, FullLengthIs
  <2>7. Len(x \o Pack(a)) = Len(x) + Len(Pack(a))
    <3> DEFINE y == Pack(a)
    <3>1. x \in Seq(Nat) /\ y \in Seq(Nat)
      BY <2>6
    <3> HIDE DEF x, y
    <3>2. Len(x \o y) = Len(x) + Len(y)
      BY <3>1, ConcatProperties
    <3> QED BY <3>2 DEF y
  <2> QED BY <2>1, <2>2, <2>3, <2>5, <2>6, <2>7
<1>6. 0 .. L \subseteq Ok
  <2> HIDE DEF Ok, L
  <2> QED BY <1>1, <1>4, <1>5, IntervalByInduction
<1> QED BY <1>6

\* The length in the header counts the bytes that are packed.
LEMMA PacketLengthIs ==
    ASSUME NEW r \in Seq(Attrs)
    PROVE  PacketLength(r) = HeaderLength + Len(PackAttributes(r))
<1>1. Len(r) \in 0 .. Len(r)
  BY LenProperties
<1>2. SubSeq(r, 1, Len(r)) = r
  BY SubSeqFull
<1> QED BY <1>1, <1>2, LengthsLaw DEF PacketLength

\* Digests are equal just if the AVPs are the same: attributes that have been joined and
\* placed are split into those that were signed.
LEMMA SameBytes ==
    ASSUME NEW r \in Seq(Attrs), NEW q \in Seq(Attrs)
    PROVE  Packed(r) = Hashed(Wire(q)) <=> Split(r) = q
<1> DEFINE x == PackAttributes(r)
           y == Wire(q)
           n == PacketLength(r)
           m == HeaderLength + Len(y)
<1>1. /\ x \in Seq(Nat) /\ y \in Seq(Nat) /\ x = Wire(Split(r)) /\ Split(r) \in Seq(Attrs)
  BY Packing
<1>2. n = HeaderLength + Len(x) /\ n \in Nat /\ m \in Nat
  <2>1. Len(x) \in Nat /\ Len(y) \in Nat /\ HeaderLength \in Nat
    BY <1>1, LenProperties, BytesAssumption
  <2> QED BY <2>1, PacketLengthIs
<1>3. ASSUME Split(r) = q PROVE Packed(r) = Hashed(Wire(q))
  BY <1>1, <1>2, <1>3 DEF Packed, Hashed
<1>4. ASSUME Packed(r) = Hashed(Wire(q)) PROVE Split(r) = q
  <2>1. <<n>> \o x = <<m>> \o y
    BY <1>4 DEF Packed, Hashed
  <2> HIDE DEF x, y, n, m
  <2>2. /\ <<n>> \in Seq(Nat) /\ <<m>> \in Seq(Nat) /\ Len(<<n>>) = 1 /\ Len(<<m>>) = 1
        /\ <<n>>[1] = n /\ <<m>>[1] = m
    BY <1>2
  <2> DEFINE nn == <<n>>
             mm == <<m>>
  <2>3. nn \in Seq(Nat) /\ mm \in Seq(Nat) /\ Len(nn) = 1 /\ Len(mm) = 1 /\ nn[1] = n /\ mm[1] = m
    BY <2>2
  <2>4. nn \o x = mm \o y
    BY <2>1
  <2> HIDE DEF nn, mm
  <2>5. (nn \o x)[1] = n /\ (mm \o y)[1] = m
    <3>1. /\ \A i \in 1 .. Len(nn) + Len(x) : (nn \o x)[i] = IF i <= Len(nn) THEN nn[i] ELSE x[i - Len(nn)]
          /\ \A i \in 1 .. Len(mm) + Len(y) : (mm \o y)[i] = IF i <= Len(mm) THEN mm[i] ELSE y[i - Len(mm)]
      BY <1>1, <2>3, ConcatProperties
    <3>2. Len(x) \in Nat /\ Len(y) \in Nat
      BY <1>1, LenProperties
    <3>3. 1 \in 1 .. Len(nn) + Len(x) /\ 1 \in 1 .. Len(mm) + Len(y)
      BY <2>3, <3>2
    <3>4. 1 <= Len(nn) /\ 1 <= Len(mm)
      BY <2>3
    <3>5. (nn \o x)[1] = nn[1]
      BY ONLY <3>4, <3>1, <3>3, Zenon
    <3>6. (mm \o y)[1] = mm[1]
      BY ONLY <3>4, <3>1, <3>3, Zenon
    <3> QED BY <2>3, <3>5, <3>6
  <2>6. n = m
    BY <2>4, <2>5
  <2>7. nn = mm
    BY <2>6 DEF nn, mm
  <2>8. \A u, v, w \in Seq(Nat) : u \o v = u \o w => v = w
    BY ONLY ConcatSimplifications, Zenon
  <2>9. x = y
    BY ONLY <1>1, <2>3, <2>4, <2>7, <2>8, Zenon
  <2>10. Wire(Split(r)) = Wire(q)
    BY <1>1, <2>9 DEF y
  <2> QED BY <1>1, <2>10, WireIsInjective
<1> QED BY <1>3, <1>4

\* Indices of a concatenation of three.
LEMMA ThreeParts ==
    ASSUME NEW S, NEW x \in Seq(S), NEW y \in Seq(S), NEW z \in Seq(S), NEW c, c = x \o (y \o z)
    PROVE  /\ c \in Seq(S) /\ Len(c) = Len(x) + Len(y) + Len(z)
           /\ Len(x) \in Nat /\ Len(y) \in Nat /\ Len(z) \in Nat
           /\ \A i \in 1 .. Len(x) : c[i] = x[i]
           /\ \A i \in 1 .. Len(y) : c[Len(x) + i] = y[i]
           /\ \A i \in 1 .. Len(z) : c[Len(x) + Len(y) + i] = z[i]
<1> DEFINE w == y \o z
<1>1. /\ w \in Seq(S) /\ Len(w) = Len(y) + Len(z)
      /\ \A i \in 1 .. Len(y) + Len(z) : w[i] = IF i <= Len(y) THEN y[i] ELSE z[i - Len(y)]
  BY ConcatProperties
<1> HIDE DEF w
<1>2. c = x \o w
  BY DEF w
<1>3. /\ c \in Seq(S) /\ Len(c) = Len(x) + Len(w)
      /\ \A i \in 1 .. Len(x) + Len(w) : c[i] = IF i <= Len(x) THEN x[i] ELSE w[i - Len(x)]
  <2>1. /\ x \o w \in Seq(S) /\ Len(x \o w) = Len(x) + Len(w)
        /\ \A i \in 1 .. Len(x) + Len(w) : (x \o w)[i] = IF i <= Len(x) THEN x[i] ELSE w[i - Len(x)]
    <3>1. x \in Seq(S) /\ w \in Seq(S)
      BY <1>1
    <3> QED BY ONLY <3>1, ConcatProperties
  <2> QED BY ONLY <1>2, <2>1, Zenon
<1>4. Len(x) \in Nat /\ Len(y) \in Nat /\ Len(z) \in Nat /\ Len(w) \in Nat
  BY <1>1, LenProperties
<1>5. \A i \in 1 .. Len(x) : c[i] = x[i]
  <2> TAKE i \in 1 .. Len(x)
  <2>1. i \in 1 .. Len(x) + Len(w) /\ i <= Len(x)
    BY <1>4
  <2> QED BY ONLY <1>3, <2>1, Zenon
<1>6. \A i \in 1 .. Len(w) : c[Len(x) + i] = w[i]
  <2> TAKE i \in 1 .. Len(w)
  <2> DEFINE k == Len(x) + i
  <2>1. k \in 1 .. Len(x) + Len(w) /\ ~(k <= Len(x)) /\ k - Len(x) = i
    BY <1>4
  <2> HIDE DEF k
  <2>2. c[k] = w[k - Len(x)]
    BY ONLY <1>3, <2>1, Zenon
  <2> QED BY <2>1, <2>2 DEF k
<1>7. \A i \in 1 .. Len(y) : c[Len(x) + i] = y[i]
  <2> TAKE i \in 1 .. Len(y)
  <2>1. i \in 1 .. Len(y) + Len(z) /\ i <= Len(y) /\ i \in 1 .. Len(w)
    BY <1>1, <1>4
  <2>2. w[i] = y[i]
    BY ONLY <1>1, <2>1, Zenon
  <2> QED BY <1>6, <2>1, <2>2
<1>8. \A i \in 1 .. Len(z) : c[Len(x) + Len(y) + i] = z[i]
  <2> TAKE i \in 1 .. Len(z)
  <2> DEFINE k == Len(y) + i
  <2>1. k \in 1 .. Len(y) + Len(z) /\ ~(k <= Len(y)) /\ k - Len(y) = i /\ Len(x) + Len(y) + i = Len(x) + k
    BY <1>4
  <2> HIDE DEF k
  <2>2. w[k] = z[k - Len(y)]
    BY ONLY <1>1, <2>1, Zenon
  <2>3. k \in 1 .. Len(w)
    BY <1>1, <2>1
  <2>4. c[Len(x) + k] = w[k]
    BY <1>6, <2>3
  <2> QED BY <2>1, <2>2, <2>4
<1> QED BY <1>1, <1>3, <1>4, <1>5, <1>7, <1>8

\* Three sequences, one after the other.
IsThree(c, x, y, z) == c = x \o (y \o z)

\* The same of them.
LEMMA PartsOfThree ==
    ASSUME NEW S, NEW x \in Seq(S), NEW y \in Seq(S), NEW z \in Seq(S), NEW c, IsThree(c, x, y, z)
    PROVE  /\ c \in Seq(S) /\ Len(c) = Len(x) + Len(y) + Len(z)
           /\ Len(x) \in Nat /\ Len(y) \in Nat /\ Len(z) \in Nat
           /\ \A i \in 1 .. Len(x) : c[i] = x[i]
           /\ \A i \in 1 .. Len(y) : c[Len(x) + i] = y[i]
           /\ \A i \in 1 .. Len(z) : c[Len(x) + Len(y) + i] = z[i]
BY ThreeParts DEF IsThree

\* The middle one of three.
LEMMA MiddleOf ==
    ASSUME NEW S, NEW x \in Seq(S), NEW y \in Seq(S), NEW z \in Seq(S), NEW c, c = x \o (y \o z),
           NEW lo \in Nat, lo = Len(x), NEW hi \in Nat, hi = Len(x) + Len(y)
    PROVE  SubSeq(c, lo + 1, hi) = y
<1>1. /\ c \in Seq(S) /\ Len(c) = Len(x) + Len(y) + Len(z)
      /\ Len(x) \in Nat /\ Len(y) \in Nat /\ Len(z) \in Nat
      /\ \A i \in 1 .. Len(y) : c[Len(x) + i] = y[i]
  BY ThreeParts
<1> DEFINE s == SubSeq(c, lo + 1, hi)
<1>2. \A i \in lo + 1 .. hi : c[i] \in S
  BY <1>1, ElementOfSeq
<1>3. /\ s \in Seq(S) /\ Len(s) = IF lo + 1 <= hi THEN hi - (lo + 1) + 1 ELSE 0
      /\ \A i \in 1 .. hi - (lo + 1) + 1 : s[i] = c[lo + 1 + i - 1]
  BY <1>2, SubSeqProperties
<1> HIDE DEF s
<1>4. Len(s) = Len(y)
  BY <1>1, <1>3
<1>5. \A i \in 1 .. Len(y) : s[i] = y[i]
  <2> TAKE i \in 1 .. Len(y)
  <2>1. i \in 1 .. hi - (lo + 1) + 1 /\ lo + 1 + i - 1 = Len(x) + i
    BY <1>1
  <2>2. s[i] = c[lo + 1 + i - 1]
    BY <1>3, <2>1
  <2> QED BY <1>1, <2>1, <2>2
<1>6. s = y
  BY <1>3, <1>4, <1>5, SeqEqual
<1> QED BY <1>6 DEF s

\* A sequence around one of its elements.
LEMMA AroundElement ==
    ASSUME NEW S, NEW r \in Seq(S), NEW i \in 1 .. Len(r)
    PROVE  /\ SubSeq(r, 1, i - 1) \in Seq(S) /\ SubSeq(r, i + 1, Len(r)) \in Seq(S) /\ <<r[i]>> \in Seq(S)
           /\ r = SubSeq(r, 1, i - 1) \o (<<r[i]>> \o SubSeq(r, i + 1, Len(r)))
<1> DEFINE n == Len(r)
<1>1. n \in Nat /\ i \in Nat /\ i - 1 \in Nat
  BY LenProperties
<1>2. \A j \in 1 .. n : r[j] \in S
  BY ElementOfSeq
<1>3. SubSeq(r, 1, i - 1) \in Seq(S)
  <2>1. \A j \in 1 .. i - 1 : r[j] \in S
    BY <1>1, <1>2
  <2> QED BY <1>1, <2>1, SubSeqProperties
<1>4. SubSeq(r, i + 1, n) \in Seq(S)
  <2>1. \A j \in i + 1 .. n : r[j] \in S
    BY <1>1, <1>2
  <2> QED BY <1>1, <2>1, SubSeqProperties
<1>5. <<r[i]>> \in Seq(S)
  BY <1>2
<1>6. SubSeq(r, i, n) = <<r[i]>> \o SubSeq(r, i + 1, n)
  <2>1. i \in 1 .. Len(r) /\ n \in i .. Len(r)
    BY <1>1
  <2> QED BY <2>1, SubSeqRecursiveFirst
<1>7. SubSeq(r, 1, i - 1) \o SubSeq(r, i, n) = r
  <2>1. 1 \in 1 .. Len(r) + 1 /\ i - 1 \in 1 - 1 .. Len(r) /\ n \in i - 1 .. Len(r) /\ (i - 1) + 1 = i
    BY <1>1
  <2>2. SubSeq(r, 1, i - 1) \o SubSeq(r, (i - 1) + 1, n) = SubSeq(r, 1, n)
    BY <2>1, ConcatAdjacentSubSeq
  <2> QED BY <2>1, <2>2, SubSeqFull
<1> QED BY <1>3, <1>4, <1>5, <1>6, <1>7

\* Parts as a server makes them: all but the last are full, and none is empty.
FullParts(E) ==
    /\ E # <<>>
    /\ \A i \in 1 .. Len(E) : Len(E[i].data) \in 1 .. MaxDataLength
    /\ \A i \in 1 .. Len(E) - 1 : Len(E[i].data) = MaxDataLength

\* Any of them but the last make a multiple of the full length.
LEMMA FullPartsLength ==
    ASSUME NEW E \in Seq(Parts), FullParts(E)
    PROVE  \A k \in 0 .. Len(E) - 1 : Len(Value(EAPMessage, SubSeq(E, 1, k))) = k * MaxDataLength
<1> DEFINE n == Len(E)
           m == MaxDataLength
           top == n - 1
           p(k) == SubSeq(E, 1, k)
           v(k) == Value(EAPMessage, p(k))
           Ok == {k \in 0 .. top : Len(v(k)) = k * m}
<1>1. n \in Nat \ {0} /\ m \in Nat \ {0} /\ top \in Nat
  BY EmptySeq, BytesAssumption DEF FullParts
<1>2. \A k \in 0 .. n : p(k) \in Seq(Attrs)
  <2> TAKE k \in 0 .. n
  <2>1. \A i \in 1 .. k : E[i] \in Attrs
    BY <1>1, ElementOfSeq DEF Parts
  <2>2. 1 \in Int /\ k \in Int
    BY <1>1
  <2> QED BY <2>1, <2>2, SubSeqProperties
<1>3. 0 \in Ok
  <2>1. p(0) = <<>>
    BY SubSeqEmpty
  <2>2. Value(EAPMessage, <<>>) = <<>> /\ Len(<<>>) = 0
    BY ValueIs, EmptySeq
  <2>3. 0 \in 0 .. top /\ 0 * m = 0
    BY <1>1
  <2> HIDE DEF m, top
  <2> QED BY <2>1, <2>2, <2>3
<1>4. \A k \in 0 .. top : k \in Ok /\ k < top => k + 1 \in Ok
  <2> SUFFICES ASSUME NEW k \in 0 .. top, k < top, Len(v(k)) = k * m
               PROVE  k + 1 \in 0 .. top /\ Len(v(k + 1)) = (k + 1) * m
    OBVIOUS
  <2> DEFINE a == E[k + 1]
             d == a.data
  <2>1. /\ k + 1 \in 0 .. top /\ k + 1 \in 1 .. Len(E) - 1 /\ k + 1 \in 1 .. Len(E)
        /\ 1 \in 1 .. Len(E) /\ (k + 1) - 1 = k
        /\ k \in 0 .. n
    BY <1>1
  <2>2. p(k + 1) = p(k) \o <<a>>
    <3>1. k + 1 \in 1 .. Len(E)
      BY <2>1
    <3>2. SubSeq(E, 1, k + 1) = SubSeq(E, 1, (k + 1) - 1) \o <<E[k + 1]>>
      BY <2>1, SubSeqRecursiveSecond
    <3> QED BY <2>1, <3>2
  <2>3. a \in Attrs /\ a.type = EAPMessage /\ d \in Seq(Octet) /\ Len(d) = m
    <3>1. a \in Parts
      BY <2>1, ElementOfSeq
    <3> QED BY <2>1, <3>1 DEF Parts, Attrs, FullParts
  <2>4. Value(EAPMessage, p(k) \o <<a>>) = v(k) \o d /\ v(k) \in Seq(Octet)
    <3> DEFINE q == p(k)
    <3>1. q \in Seq(Attrs) /\ <<a>> \in Seq(Attrs) /\ a \in Attrs
      BY <1>2, <2>1, <2>3
    <3>2. Value(EAPMessage, <<a>>) = d
      BY <2>3, ValueIs
    <3> HIDE DEF q, a, d
    <3>3. Value(EAPMessage, q \o <<a>>) = Value(EAPMessage, q) \o d /\ Value(EAPMessage, q) \in Seq(Octet)
      BY <3>1, <3>2, ValueIs
    <3> QED BY <3>3 DEF q
  <2>5. Len(v(k) \o d) = Len(v(k)) + Len(d)
    <3> DEFINE x == v(k)
    <3>1. x \in Seq(Octet) /\ d \in Seq(Octet)
      BY <2>3, <2>4
    <3> HIDE DEF x, d
    <3>2. Len(x \o d) = Len(x) + Len(d)
      BY <3>1, ConcatProperties
    <3> QED BY <3>2 DEF x
  <2>6. (k + 1) * m = k * m + m
    BY ONLY <1>1, k \in 0 .. top
  <2> QED BY <2>1, <2>2, <2>3, <2>4, <2>5, <2>6
<1>5. 0 .. top \subseteq Ok
  <2> HIDE DEF Ok, top
  <2> QED BY <1>1, <1>3, <1>4, IntervalByInduction
<1> QED BY <1>5

\* Split again, the value of such parts is in the same parts.
LEMMA PartsAreRestored ==
    ASSUME NEW E \in Seq(Parts), FullParts(E), NEW v, v = Value(EAPMessage, E), NEW a, a = Attribute(EAPMessage, v)
    PROVE  a \in Parts /\ v \in Seq(Octet) /\ SplitOf[a] = E
<1> DEFINE n == Len(E)
           m == MaxDataLength
           c == Chunks(v)
<1>1. n \in Nat \ {0} /\ m \in Nat \ {0} /\ E \in Seq(Attrs) /\ n - 1 \in Nat
  <2>1. Parts \subseteq Attrs
    BY DEF Parts
  <2> QED BY <2>1, EmptySeq, BytesAssumption, SeqMonotonic DEF FullParts
<1>2. v \in Seq(Octet) /\ Len(v) \in Nat
  <2>1. v \in Seq(Octet)
    BY <1>1, ValueIs
  <2> QED BY <2>1, LenProperties
<1>3. a \in Parts /\ a.data = v
  BY <1>2 DEF Parts, Attribute, Attrs, Type
<1>4. ASSUME NEW i \in 1 .. n
      PROVE  /\ Len(E[i].data) \in 1 .. m /\ E[i].data \in Seq(Octet)
             /\ (i - 1) * m + Len(E[i].data) <= Len(v)
             /\ i = n => (i - 1) * m + Len(E[i].data) = Len(v)
             /\ SubSeq(v, (i - 1) * m + 1, (i - 1) * m + Len(E[i].data)) = E[i].data
  <2> DEFINE before == SubSeq(E, 1, i - 1)
             after == SubSeq(E, i + 1, n)
             e == E[i]
             x == Value(EAPMessage, before)
             y == e.data
             z == Value(EAPMessage, after)
             lo == (i - 1) * m
             hi == lo + Len(y)
  <2>1. /\ before \in Seq(Attrs) /\ after \in Seq(Attrs) /\ <<e>> \in Seq(Attrs)
        /\ E = before \o (<<e>> \o after)
    BY <1>1, AroundElement
  <2>2. e \in Attrs /\ e.type = EAPMessage /\ y \in Seq(Octet) /\ Len(y) \in 1 .. m
    <3>1. e \in Parts
      BY ElementOfSeq
    <3> QED BY <3>1 DEF Parts, Attrs, FullParts
  <2>3. Len(x) = lo
    <3>1. i - 1 \in 0 .. n - 1
      BY <1>1
    <3> QED BY <3>1, FullPartsLength
  <2>4. v = x \o (y \o z) /\ x \in Seq(Octet) /\ z \in Seq(Octet)
    <3> DEFINE w == <<e>> \o after
               h == <<e>>
    <3>1. h \in Seq(Attrs) /\ after \in Seq(Attrs) /\ before \in Seq(Attrs) /\ w = h \o after
      BY <2>1
    <3>2. Value(EAPMessage, h) = y
      BY <2>2, ValueIs
    <3>3. E = before \o w
      BY <2>1
    <3> HIDE DEF h, w, before, after, e, y
    <3>4. w \in Seq(Attrs)
      BY <3>1, ConcatProperties
    <3>5. Value(EAPMessage, w) = y \o z
      BY <3>1, <3>2, ValueIs
    <3>6. Value(EAPMessage, E) = x \o Value(EAPMessage, w)
      BY <3>1, <3>3, <3>4, ValueIs
    <3> QED BY <3>1, <3>5, <3>6, ValueIs
  <2>5. lo \in Nat /\ hi \in Nat /\ Len(y) \in Nat
    <3>1. i - 1 \in Nat
      BY <1>1
    <3>2. \A j \in Nat : j * m \in Nat
      BY <1>1
    <3>3. lo \in Nat
      BY ONLY <3>1, <3>2, Zenon
    <3>4. Len(y) \in Nat
      BY <2>2, <1>1
    <3> HIDE DEF lo
    <3> QED BY <3>3, <3>4
  <2>6. i = n => z = <<>>
    <3>1. i = n => after = <<>>
      BY <1>1, SubSeqEmpty
    <3> QED BY <3>1, ValueIs
  <2> HIDE DEF x, y, z, lo, before, after
  <2>7. Len(v) = Len(x) + Len(y) + Len(z) /\ Len(z) \in Nat
    BY <2>2, <2>4, ThreeParts
  <2>8. hi = Len(x) + Len(y) /\ lo = Len(x)
    BY <2>3
  <2> HIDE DEF hi
  <2>9. SubSeq(v, lo + 1, hi) = y
    BY <2>2, <2>4, <2>5, <2>8, MiddleOf
  <2>10. hi <= Len(v)
    BY <2>5, <2>7, <2>8
  <2>11. i = n => hi = Len(v)
    BY <2>5, <2>6, <2>7, <2>8, EmptySeq
  <2> QED BY <2>2, <2>9, <2>10, <2>11 DEF hi, lo, y
<1>5. (n - 1) * m < Len(v) /\ Len(v) <= n * m
  <2> DEFINE l == Len(E[n].data)
             lo == (n - 1) * m
  <2>1. n \in 1 .. n
    BY <1>1
  <2>2. lo + l = Len(v) /\ l \in 1 .. m
    BY <1>4, <2>1
  <2>3. lo \in Nat /\ n * m = lo + m
    BY ONLY <1>1
  <2> HIDE DEF lo, l
  <2> QED BY <1>1, <2>2, <2>3 DEF lo
<1>6. c = n
  <2>1. /\ c \in Nat /\ Len(v) <= c * m
        /\ c > 0 => (c - 1) * m < Len(v)
    BY <1>2, ChunksLaw
  <2>2. \A j, k \in Nat : j <= k => j * m <= k * m /\ j * m \in Nat /\ k * m \in Nat
    BY ONLY <1>1
  <2> HIDE DEF c
  <2>3. ASSUME c < n PROVE FALSE
    <3>1. c <= n - 1
      BY <1>1, <2>1, <2>3
    <3>2. c * m <= (n - 1) * m /\ c * m \in Nat /\ (n - 1) * m \in Nat
      BY <1>1, <2>1, <2>2, <3>1
    <3> QED BY <1>2, <1>5, <2>1, <3>2
  <2>4. ASSUME n < c PROVE FALSE
    <3>1. n <= c - 1 /\ c - 1 \in Nat /\ c > 0
      BY <1>1, <2>1, <2>4
    <3>2. n * m <= (c - 1) * m /\ n * m \in Nat /\ (c - 1) * m \in Nat
      BY <1>1, <2>2, <3>1
    <3> QED BY <1>2, <1>5, <2>1, <3>1, <3>2
  <2> QED BY <1>1, <2>1, <2>3, <2>4
<1>7. SplitOf[a] = Chunked(v, n) /\ SplitOf[a] \in Seq(Parts) /\ Len(SplitOf[a]) = n
  <2>1. SplitOf[a] = Chunked(a.data, Chunks(a.data)) /\ SplitOf[a] \in Seq(Parts) /\ Len(SplitOf[a]) = Chunks(a.data)
    BY <1>3, ChunksOfAttribute
  <2> QED BY <1>3, <1>6, <2>1
<1>8. ASSUME NEW i \in 1 .. n PROVE Chunked(v, n)[i] = E[i]
  <2> DEFINE l == Len(E[i].data)
             lo == (i - 1) * m
  <2>1. /\ l \in 1 .. m /\ lo + l <= Len(v) /\ SubSeq(v, lo + 1, lo + l) = E[i].data
        /\ i = n => lo + l = Len(v)
    BY <1>4
  <2>2. lo \in Nat /\ i * m = lo + m
    BY ONLY <1>1, i \in 1 .. n
  <2>3. i # n => l = m
    BY <1>1 DEF FullParts
  <2>4. Min2(i * m, Len(v)) = lo + l
    <3> HIDE DEF lo, l, m
    <3> QED BY <1>1, <1>2, <2>1, <2>2, <2>3 DEF Min2
  <2>5. Chunk(v, i) = E[i].data
    BY <2>1, <2>4 DEF Chunk
  <2>6. E[i] = [type |-> EAPMessage, data |-> E[i].data]
    <3>1. E[i] \in Parts
      BY ElementOfSeq
    <3> QED BY <3>1 DEF Parts, Attrs
  <2> QED BY <2>5, <2>6 DEF Chunked, Attribute
<1>9. SplitOf[a] = E
  <2> DEFINE s == SplitOf[a]
  <2>1. s \in Seq(Parts) /\ Len(s) = Len(E) /\ \A i \in 1 .. Len(s) : s[i] = E[i]
    BY <1>7, <1>8
  <2> HIDE DEF s
  <2>2. s = E
    BY <2>1, SeqEqual
  <2> QED BY <2>2 DEF s
<1> QED BY <1>2, <1>3, <1>9

\* The Message-Authenticators of a list: servers send one at most.
IsAuthenticator(a) == a.type = MessageAuthenticator
OneAuthenticator(r) == \A i, j \in DOMAIN r : IsAuthenticator(r[i]) /\ IsAuthenticator(r[j]) => i = j

\* All Message-Authenticators with the data d.
ResetOf(a, d) == IF IsAuthenticator(a) THEN Attribute(MessageAuthenticator, d) ELSE a
Reset(r, d) == [i \in DOMAIN r |-> ResetOf(r[i], d)]

\* Digests, and the zeros they replace, have the same length.
LEMMA DigestsAreData ==
    /\ Zeros \in Seq(Octet) /\ Digest \in Seq(Octet)
    /\ Len(Zeros) = DigestLength /\ Len(Digest) = DigestLength
<1>1. DigestLength \in Nat
  BY BytesAssumption
<1>2. Zeros \in [1 .. DigestLength -> Octet] /\ Digest \in [1 .. DigestLength -> Octet]
  BY DEF Zeros, Digest, Octet
<1> QED BY <1>1, <1>2, MapIsSeq

\* Only Message-Authenticators are given other data.
LEMMA ResetIs ==
    ASSUME NEW r \in Seq(Attrs), NEW d \in Seq(Octet)
    PROVE  /\ Reset(r, d) \in Seq(Attrs) /\ Len(Reset(r, d)) = Len(r)
           /\ DOMAIN Reset(r, d) = 1 .. Len(r) /\ DOMAIN r = 1 .. Len(r)
           /\ \A i \in 1 .. Len(r) : Reset(r, d)[i] = ResetOf(r[i], d)
<1>1. Len(r) \in Nat /\ DOMAIN r = 1 .. Len(r)
  BY LenProperties
<1>2. \A i \in 1 .. Len(r) : ResetOf(r[i], d) \in Attrs
  <2> TAKE i \in 1 .. Len(r)
  <2>1. r[i] \in Attrs
    BY ElementOfSeq
  <2>2. Attribute(MessageAuthenticator, d) \in Attrs
    BY AttributeIs DEF Type
  <2> QED BY <2>1, <2>2 DEF ResetOf
<1>3. Reset(r, d) \in [1 .. Len(r) -> Attrs] /\ \A i \in 1 .. Len(r) : Reset(r, d)[i] = ResetOf(r[i], d)
  BY <1>1, <1>2 DEF Reset
<1>4. Reset(r, d) \in Seq(Attrs) /\ Len(Reset(r, d)) = Len(r) /\ DOMAIN Reset(r, d) = 1 .. Len(r)
  BY ONLY <1>1, <1>3, MapIsSeq
<1> QED BY <1>1, <1>3, <1>4

\* With one Message-Authenticator at most, it is the first one.
LEMMA AuthenticatorIs ==
    ASSUME NEW r \in Seq(Attrs), NEW d \in Seq(Octet), OneAuthenticator(r)
    PROVE  /\ WithAuthenticator(r, d) = Reset(r, d)
           /\ Has(MessageAuthenticator, r) =>
                /\ First(MessageAuthenticator, r) \in DOMAIN r
                /\ IsAuthenticator(r[First(MessageAuthenticator, r)])
<1> DEFINE I == {i \in 1 .. Len(r) : r[i].type = MessageAuthenticator}
           k == First(MessageAuthenticator, r)
<1>1. Len(r) \in Nat /\ DOMAIN r = 1 .. Len(r)
  BY LenProperties
<1>2. k = IF I # {} THEN Min(I) ELSE 0
  BY DEF First, SelectInSeq
<1>3. ASSUME NEW j \in I PROVE k = j
  <2>1. I = {j}
    BY <1>1 DEF OneAuthenticator, IsAuthenticator
  <2>2. Min({j}) = j
    <3>1. j \in Int
      OBVIOUS
    <3> QED BY <3>1 DEF Min
  <2> HIDE DEF I, k
  <2> QED BY <1>2, <2>1, <2>2
<1>4. I = {} => k = 0
  BY <1>2
<1>5. \A i \in DOMAIN r : i = k <=> IsAuthenticator(r[i])
  <2> TAKE i \in DOMAIN r
  <2>1. CASE IsAuthenticator(r[i])
    <3>1. i \in I
      BY <1>1, <2>1 DEF IsAuthenticator
    <3> HIDE DEF I, k
    <3> QED BY <1>3, <2>1, <3>1
  <2>2. CASE ~IsAuthenticator(r[i])
    <3>1. i \notin I /\ i # 0
      BY <1>1, <2>2 DEF IsAuthenticator
    <3>2. CASE I = {}
      <4> HIDE DEF I, k
      <4> QED BY <1>4, <2>2, <3>1, <3>2
    <3>3. CASE I # {}
      <4>1. PICK j : j \in I
        BY <3>3
      <4> HIDE DEF I, k
      <4> QED BY <1>3, <2>2, <3>1, <4>1
    <3> QED BY <3>2, <3>3
  <2> QED BY <2>1, <2>2
<1>6. WithAuthenticator(r, d) = Reset(r, d)
  <2> HIDE DEF k
  <2>1. \A i \in DOMAIN r : (IF i = k THEN Attribute(MessageAuthenticator, d) ELSE r[i]) = ResetOf(r[i], d)
    BY <1>5 DEF ResetOf
  <2>2. [i \in DOMAIN r |-> IF i = k THEN Attribute(MessageAuthenticator, d) ELSE r[i]] = Reset(r, d)
    BY <2>1 DEF Reset
  <2> QED BY <2>2 DEF WithAuthenticator, k
<1>7. ASSUME Has(MessageAuthenticator, r) PROVE k \in DOMAIN r /\ IsAuthenticator(r[k])
  <2>1. PICK j \in DOMAIN r : IsAuthenticator(r[j])
    BY <1>7 DEF Has, IsAuthenticator
  <2> HIDE DEF k
  <2> QED BY <1>5, <2>1
<1> QED BY <1>6, <1>7

\* Those of two lists are those of each.
LEMMA ResetOfBoth ==
    ASSUME NEW x \in Seq(Attrs), NEW y \in Seq(Attrs), NEW d \in Seq(Octet)
    PROVE  Reset(x \o y, d) = Reset(x, d) \o Reset(y, d)
<1> DEFINE c == x \o y
           u == Reset(x, d)
           v == Reset(y, d)
           w == Reset(c, d)
           e == u \o v
<1>1. /\ c \in Seq(Attrs) /\ Len(c) = Len(x) + Len(y)
      /\ \A i \in 1 .. Len(x) + Len(y) : c[i] = IF i <= Len(x) THEN x[i] ELSE y[i - Len(x)]
  BY ConcatProperties
<1> HIDE DEF c
<1>2. /\ u \in Seq(Attrs) /\ Len(u) = Len(x) /\ \A i \in 1 .. Len(x) : u[i] = ResetOf(x[i], d)
      /\ v \in Seq(Attrs) /\ Len(v) = Len(y) /\ \A i \in 1 .. Len(y) : v[i] = ResetOf(y[i], d)
      /\ w \in Seq(Attrs) /\ Len(w) = Len(c) /\ \A i \in 1 .. Len(c) : w[i] = ResetOf(c[i], d)
  BY <1>1, ResetIs
<1> HIDE DEF u, v, w
<1>3. /\ e \in Seq(Attrs) /\ Len(e) = Len(u) + Len(v)
      /\ \A i \in 1 .. Len(u) + Len(v) : e[i] = IF i <= Len(u) THEN u[i] ELSE v[i - Len(u)]
  <2>1. u \in Seq(Attrs) /\ v \in Seq(Attrs)
    BY <1>2
  <2> QED BY ONLY <2>1, ConcatProperties
<1> HIDE DEF e
<1>4. Len(x) \in Nat /\ Len(y) \in Nat
  BY LenProperties
<1>5. \A i \in 1 .. Len(w) : w[i] = e[i]
  <2> TAKE i \in 1 .. Len(w)
  <2>1. i \in 1 .. Len(x) + Len(y) /\ i \in 1 .. Len(u) + Len(v) /\ i \in 1 .. Len(c)
    BY <1>1, <1>2, <1>4
  <2>2. CASE i <= Len(x)
    <3>1. i \in 1 .. Len(x)
      BY <1>4, <2>1, <2>2
    <3>2. c[i] = x[i] /\ e[i] = u[i]
      BY <1>1, <1>2, <1>3, <2>1, <2>2
    <3> QED BY <1>2, <2>1, <3>1, <3>2
  <2>3. CASE ~(i <= Len(x))
    <3>1. i - Len(x) \in 1 .. Len(y)
      BY <1>4, <2>1, <2>3
    <3>2. c[i] = y[i - Len(x)] /\ e[i] = v[i - Len(x)]
      BY <1>1, <1>2, <1>3, <2>1, <2>3
    <3> QED BY <1>2, <2>1, <3>1, <3>2
  <2> QED BY <2>2, <2>3
<1>6. Len(w) = Len(e)
  BY <1>1, <1>2, <1>3
<1>7. w = e
  BY <1>2, <1>3, <1>5, <1>6, SeqEqual
<1> QED BY <1>7 DEF w, e, u, v, c

\* Parts of an EAP-Message are not changed.
LEMMA ResetOfParts ==
    ASSUME NEW r \in Seq(Attrs), NEW d \in Seq(Octet), \A i \in 1 .. Len(r) : ~IsAuthenticator(r[i])
    PROVE  Reset(r, d) = r
<1>1. \A i \in 1 .. Len(r) : Reset(r, d)[i] = r[i]
  BY ResetIs DEF ResetOf
<1>2. Reset(r, d) \in Seq(Attrs) /\ Len(Reset(r, d)) = Len(r)
  BY ResetIs
<1> QED BY <1>1, <1>2, SeqEqual

\* Only the last data count.
LEMMA ResetTwice ==
    ASSUME NEW r \in Seq(Attrs), NEW d \in Seq(Octet), NEW e \in Seq(Octet)
    PROVE  Reset(Reset(r, d), e) = Reset(r, e)
<1> DEFINE s == Reset(r, d)
           t == Reset(s, e)
           u == Reset(r, e)
<1>1. s \in Seq(Attrs) /\ Len(s) = Len(r) /\ \A i \in 1 .. Len(r) : s[i] = ResetOf(r[i], d)
  BY ResetIs
<1> HIDE DEF s
<1>2. /\ t \in Seq(Attrs) /\ Len(t) = Len(r) /\ \A i \in 1 .. Len(r) : t[i] = ResetOf(s[i], e)
      /\ u \in Seq(Attrs) /\ Len(u) = Len(r) /\ \A i \in 1 .. Len(r) : u[i] = ResetOf(r[i], e)
  BY <1>1, ResetIs
<1>3. \A a : ResetOf(ResetOf(a, d), e) = ResetOf(a, e)
  BY DEF ResetOf, IsAuthenticator, Attribute
<1> HIDE DEF t, u
<1>4. \A i \in 1 .. Len(r) : t[i] = u[i]
  BY <1>1, <1>2, <1>3
<1>5. t = u
  BY <1>2, <1>4, SeqEqual
<1> QED BY <1>5 DEF s, t, u

\* What fits in one AVP.
Short == {a \in Attrs : Len(a.data) <= MaxDataLength}

\* Attributes that fit in one AVP have bytes for types, lengths and data.
LEMMA ShortIs ==
    /\ Short \subseteq Attrs
    /\ \A r \in Seq(Short) : r \in Seq(Attrs) /\ Wire(r) \in Seq(Octet)
<1> DEFINE G == [a \in Short |-> Avp(a.type, a.data)]
<1>1. Short \subseteq Attrs
  BY DEF Short
<1>2. ASSUME NEW a \in Short PROVE Avp(a.type, a.data) \in Seq(Octet)
  <2> DEFINE t == a.type
             d == a.data
  <2>1. t \in 1 .. 255 /\ d \in Seq(Octet) /\ Len(d) <= MaxDataLength
    BY TypesAreNumbers DEF Short, Attrs
  <2> HIDE DEF t, d
  <2>2. Len(d) \in Nat
    BY <2>1, LenProperties
  <2>3. t \in Octet /\ Len(d) + 2 \in Octet
    <3>1. MaxDataLength \in 1 .. 253
      BY BytesAssumption
    <3>2. t \in 1 .. 255 /\ Len(d) \in Nat /\ Len(d) <= MaxDataLength
      BY <2>1, <2>2
    <3>3. t \in Octet
      BY <3>2 DEF Octet
    <3>4. Len(d) + 2 \in 0 .. 255
      <4> DEFINE m == MaxDataLength
                 l == Len(d)
      <4>1. m \in 1 .. 253 /\ l \in Nat /\ l <= m
        BY <3>1, <3>2
      <4> HIDE DEF l, m
      <4>2. l + 2 \in 0 .. 255
        BY ONLY <4>1
      <4> QED BY <4>2 DEF l
    <3> QED BY <3>3, <3>4 DEF Octet
  <2>4. <<t, Len(d) + 2>> \in Seq(Octet)
    BY <2>3
  <2>5. Avp(t, d) \in Seq(Octet)
    BY <2>1, <2>4, ConcatProperties DEF Avp
  <2> QED BY <2>5 DEF t, d
<1>3. G \in Maps(Short, Octet)
  BY <1>2 DEF Maps
<1>4. ASSUME NEW r \in Seq(Short)
      PROVE  r \in Seq(Attrs) /\ Wire(r) \in Seq(Octet)
  <2>1. r \in Seq(Attrs)
    BY <1>1, SeqMonotonic
  <2>2. \A i \in DOMAIN r : r[i] \in Short
    BY LenProperties, ElementOfSeq
  <2>3. Wire(r) = Flat(G, r)
    <3>1. \A i \in DOMAIN r : Avp(r[i].type, r[i].data) = G[r[i]]
      BY <2>2
    <3> HIDE DEF G
    <3>2. [i \in DOMAIN r |-> Avp(r[i].type, r[i].data)] = [i \in DOMAIN r |-> G[r[i]]]
      BY <3>1
    <3> QED BY <3>2 DEF Wire, Flat
  <2> HIDE DEF G
  <2> QED BY <1>3, <2>1, <2>3, FlatType
<1> QED BY <1>1, <1>4

\* Only EAP-Messages are split.
LEMMA SplitOfOthers ==
    ASSUME NEW r \in Seq(Others)
    PROVE  Split(r) = r
<1>1. \A a \in Others : SplitOf[a] = <<a>>
  BY DEF Others, SplitOf
<1>2. SplitOf \in Maps(Attrs, Attrs) /\ Others \subseteq Attrs \cap Attrs
  BY MapsOfAttributes DEF Others
<1> QED BY <1>1, <1>2, FlatOfKept DEF Split

-----------------------------------------------------------------------------
(* Extraction. *)

\* What is read of a packet at a position: the type, length and data of an AVP.
IsNext(a, b, p) ==
    b[p + 1] = a.type /\ b[p + 2] = Len(a.data) + 2 /\ SubSeq(b, p + 3, p + b[p + 2]) = a.data

\* What is left of a packet when so much of it has been read.
IsRest(b, p, read, rest) == b = Wire(read \o rest) /\ p = Len(Wire(read))

\* The next AVP is read as it was written, which leaves less.
LEMMA NextAvp ==
    ASSUME NEW read \in Seq(Attrs), NEW rest \in Seq(Attrs), NEW b, NEW p, IsRest(b, p, read, rest), p < Len(b)
    PROVE  /\ rest # <<>> /\ rest[1] \in Attrs /\ Tail(rest) \in Seq(Attrs)
           /\ IsNext(rest[1], b, p)
           /\ Append(read, rest[1]) \in Seq(Attrs)
           /\ IsRest(b, p + b[p + 2], Append(read, rest[1]), Tail(rest))
           /\ p + b[p + 2] <= Len(b)
<1> SUFFICES ASSUME b = Wire(read \o rest), p = Len(Wire(read))
             PROVE  /\ rest # <<>> /\ rest[1] \in Attrs /\ Tail(rest) \in Seq(Attrs)
                    /\ IsNext(rest[1], b, p)
                    /\ Append(read, rest[1]) \in Seq(Attrs)
                    /\ b = Wire(Append(read, rest[1]) \o Tail(rest))
                    /\ p + b[p + 2] = Len(Wire(Append(read, rest[1])))
                    /\ p + b[p + 2] <= Len(b)
  BY Zenon DEF IsRest
<1> DEFINE x == Wire(read)
<1>1. x \in Seq(Nat) /\ b = x \o Wire(rest)
  BY Packing, WireIs
<1>2. rest # <<>>
  <2> SUFFICES ASSUME rest = <<>> PROVE FALSE
    OBVIOUS
  <2>1. b = x
    <3>1. read \o rest = read
      BY ConcatEmptySeq
    <3> QED BY <3>1
  <2>2. Len(x) \in Nat
    BY <1>1, LenProperties
  <2> QED BY <2>1, <2>2
<1> DEFINE a == rest[1]
           d == a.data
           v == Avp(a.type, d)
           w == Wire(Tail(rest))
<1>3. /\ a \in Attrs /\ Tail(rest) \in Seq(Attrs) /\ rest = <<a>> \o Tail(rest)
      /\ Wire(rest) = v \o w
  BY <1>2, FirstAvp
<1>4. v \in Seq(Nat) /\ w \in Seq(Nat) /\ d \in Seq(Octet) /\ a.type \in Nat
  <2>1. Type \subseteq Nat
    BY TypesAreNumbers
  <2> QED BY <1>3, <2>1, WireIs, Packing DEF Attrs
<1>5. /\ Len(v) = Len(d) + 2 /\ v[1] = a.type /\ v[2] = Len(d) + 2 /\ Len(d) \in Nat
      /\ \A i \in 1 .. Len(d) : v[i + 2] = d[i]
  BY <1>4, AvpIs, LenProperties
<1>6. Append(read, a) \in Seq(Attrs) /\ Wire(Append(read, a)) = x \o v
  BY <1>3, WireIs, AppendProperties
<1>7. read \o rest = Append(read, a) \o Tail(rest)
  <2> DEFINE h == <<a>>
             t == Tail(rest)
  <2>1. h \in Seq(Attrs) /\ t \in Seq(Attrs) /\ rest = h \o t /\ Append(read, a) = read \o h
    BY <1>3, AppendIsConcat
  <2> HIDE DEF h, t
  <2>2. read \o (h \o t) = (read \o h) \o t
    <3>1. read \in Seq(Attrs) /\ h \in Seq(Attrs) /\ t \in Seq(Attrs)
      BY <2>1
    <3>2. Associates(Attrs)
      BY Regroup
    <3> QED BY ONLY <3>1, <3>2, Zenon DEF Associates
  <2> QED BY <2>1, <2>2 DEF t
<1> HIDE DEF x, v, w, a, d
<1>8. p = Len(x) /\ b = x \o (v \o w)
  BY <1>1, <1>3 DEF x
<1>9. /\ Len(b) = Len(x) + Len(v) + Len(w) /\ Len(x) \in Nat /\ Len(v) \in Nat /\ Len(w) \in Nat
      /\ \A i \in 1 .. Len(v) : b[Len(x) + i] = v[i]
      /\ b \in Seq(Nat)
  BY <1>1, <1>4, <1>8, ThreeParts
<1>10. b[p + 1] = a.type /\ b[p + 2] = Len(d) + 2
  <2>1. 1 \in 1 .. Len(v) /\ 2 \in 1 .. Len(v)
    BY <1>5
  <2> QED BY <1>5, <1>8, <1>9, <2>1
<1>11. Len(x \o v) = p + (Len(d) + 2)
  <2>1. Len(x \o v) = Len(x) + Len(v)
    BY <1>1, <1>4, ConcatProperties
  <2> QED BY <1>5, <1>8, <2>1
<1>12. p + (Len(d) + 2) <= Len(b)
  BY <1>5, <1>8, <1>9
<1>13. SubSeq(b, p + 3, p + (Len(d) + 2)) = d
  <2> DEFINE lo == p + 3
             hi == p + (Len(d) + 2)
             s == SubSeq(b, lo, hi)
  <2>1. lo \in Int /\ hi \in Int /\ p \in Nat /\ hi - lo + 1 = Len(d)
    BY <1>5, <1>8, <1>9
  <2>2. \A i \in lo .. hi : b[i] \in Nat
    <3> TAKE i \in lo .. hi
    <3>1. i \in 1 .. Len(b)
      BY <1>5, <1>12, <2>1, <1>9
    <3> QED BY <1>9, <3>1, ElementOfSeq
  <2> HIDE DEF lo, hi
  <2>3. /\ s \in Seq(Nat) /\ Len(s) = IF lo <= hi THEN hi - lo + 1 ELSE 0
        /\ \A i \in 1 .. hi - lo + 1 : s[i] = b[lo + i - 1]
    BY <2>1, <2>2, SubSeqProperties
  <2> HIDE DEF s
  <2>4. Len(s) = Len(d)
    BY <1>5, <2>1, <2>3
  <2>5. \A i \in 1 .. Len(s) : s[i] = d[i]
    <3> TAKE i \in 1 .. Len(s)
    <3>1. i \in 1 .. Len(d) /\ i + 2 \in 1 .. Len(v) /\ lo + i - 1 = Len(x) + (i + 2)
      BY <1>5, <1>8, <1>9, <2>1, <2>4 DEF lo
    <3>2. s[i] = b[lo + i - 1]
      BY <2>1, <2>3, <3>1
    <3>3. b[Len(x) + (i + 2)] = v[i + 2]
      BY <1>9, <3>1
    <3> QED BY <1>5, <3>1, <3>2, <3>3
  <2>6. d \in Seq(Nat)
    <3>1. Octet \subseteq Nat
      BY DEF Octet
    <3> QED BY <1>4, <3>1, SeqMonotonic
  <2>7. s = d
    BY <2>3, <2>4, <2>5, <2>6, SeqEqual
  <2> QED BY <2>7 DEF s, lo, hi
<1> QED BY <1>2, <1>3, <1>6, <1>7, <1>10, <1>11, <1>12, <1>13 DEF a, d, IsNext

-----------------------------------------------------------------------------
(* Building requests. *)

\* The digest replaces the zeros of the Message-Authenticator, whatever comes before it.
LEMMA BuildIs ==
    ASSUME NEW Q \in Seq(Others), \A i \in 1 .. Len(Q) : ~IsAuthenticator(Q[i]),
           NEW r, r = Q \o <<Attribute(MessageAuthenticator, Zeros)>>
    PROVE  r \in Seq(Attrs) /\ OneAuthenticator(r) /\ Build(r) = Wire(Signed(r))
<1> DEFINE e == Attribute(MessageAuthenticator, Zeros)
           f == Attribute(MessageAuthenticator, Digest)
           E == <<e>>
           F == <<f>>
           n == Len(Q)
           k == First(MessageAuthenticator, r)
           x == Wire(Q)
           y == Avp(MessageAuthenticator, Zeros)
           z == Avp(MessageAuthenticator, Digest)
           D == DigestLength
<1>1. MessageAuthenticator \in Type /\ MessageAuthenticator \in Nat /\ MessageAuthenticator # EAPMessage
  BY DEF Type, MessageAuthenticator, EAPMessage
<1>2. /\ e \in Attrs /\ e.type = MessageAuthenticator /\ e.data = Zeros
      /\ f \in Attrs /\ f.type = MessageAuthenticator /\ f.data = Digest
  BY <1>1, DigestsAreData, AttributeIs
<1>3. e \in Others /\ E \in Seq(Others) /\ E \in Seq(Attrs) /\ F \in Seq(Attrs) /\ Q \in Seq(Attrs) /\ Len(E) = 1
  <2>1. e \in Others
    BY <1>1, <1>2 DEF Others
  <2>2. Others \subseteq Attrs
    BY DEF Others
  <2>3. Q \in Seq(Attrs)
    BY <2>2, SeqMonotonic
  <2> HIDE DEF e, f
  <2> QED BY <1>2, <2>1, <2>3
<1> HIDE DEF e, f
<1>4. /\ r \in Seq(Others) /\ r \in Seq(Attrs) /\ Len(r) = n + 1 /\ n \in Nat
      /\ \A i \in 1 .. n : r[i] = Q[i]
      /\ r[n + 1] = e
  <2>1. Others \subseteq Attrs
    BY DEF Others
  <2>2. E[1] = e
    BY DEF E
  <2>3. r = Q \o E
    BY DEF e
  <2> HIDE DEF E
  <2>4. /\ Q \o E \in Seq(Others) /\ Len(Q \o E) = n + 1 /\ n \in Nat
        /\ \A i \in 1 .. n + 1 : (Q \o E)[i] = IF i <= n THEN Q[i] ELSE E[i - n]
    BY <1>3, ConcatProperties, LenProperties
  <2>5. \A i \in 1 .. n : r[i] = Q[i]
    BY <2>3, <2>4
  <2>6. r[n + 1] = e
    BY <2>2, <2>3, <2>4
  <2> QED BY <2>1, <2>3, <2>4, <2>5, <2>6, SeqMonotonic
<1>5. DOMAIN r = 1 .. n + 1
  BY <1>4, LenProperties
<1>6. \A i \in DOMAIN r : IsAuthenticator(r[i]) <=> i = n + 1
  <2> TAKE i \in DOMAIN r
  <2>1. i \in 1 .. n \/ i = n + 1
    BY <1>4, <1>5
  <2>2. CASE i \in 1 .. n
    <3>1. i # n + 1
      BY <1>4, <2>2
    <3> QED BY <1>4, <2>2, <3>1
  <2>3. CASE i = n + 1
    BY <1>2, <1>4, <2>3 DEF IsAuthenticator
  <2> QED BY <2>1, <2>2, <2>3
<1>7. OneAuthenticator(r)
  BY <1>6 DEF OneAuthenticator
<1>8. k = n + 1
  <2>1. n + 1 \in DOMAIN r
    BY <1>4, <1>5
  <2>2. Has(MessageAuthenticator, r)
    BY <1>6, <2>1 DEF Has, IsAuthenticator
  <2>3. k \in DOMAIN r /\ IsAuthenticator(r[k])
    BY <1>4, <1>7, <2>2, DigestsAreData, AuthenticatorIs
  <2> QED BY <1>6, <2>3
<1>9. Signed(r) = Q \o F
  <2>1. Signed(r) = Reset(r, Digest)
    BY <1>4, <1>7, DigestsAreData, AuthenticatorIs DEF Signed
  <2>2. r = Q \o E
    BY DEF e
  <2>3. Reset(Q \o E, Digest) = Reset(Q, Digest) \o Reset(E, Digest)
    <3> HIDE DEF E
    <3> QED BY <1>3, DigestsAreData, ResetOfBoth
  <2>4. Reset(Q, Digest) = Q
    BY <1>3, DigestsAreData, ResetOfParts
  <2>5. Reset(E, Digest) = F
    <3>1. Reset(E, Digest) \in Seq(Attrs) /\ Len(Reset(E, Digest)) = 1 /\ Reset(E, Digest)[1] = ResetOf(E[1], Digest)
      <4> HIDE DEF E
      <4>1. E \in Seq(Attrs) /\ Len(E) = 1 /\ Digest \in Seq(Octet) /\ 1 \in 1 .. 1
        BY <1>3, DigestsAreData
      <4> QED BY ONLY <4>1, ResetIs
    <3>2. ResetOf(E[1], Digest) = f
      BY <1>2 DEF ResetOf, IsAuthenticator, f
    <3>3. Len(F) = 1 /\ F[1] = f
      OBVIOUS
    <3> HIDE DEF F, E
    <3>4. \A i \in 1 .. 1 : Reset(E, Digest)[i] = F[i]
      BY <3>1, <3>2, <3>3
    <3> QED BY <1>3, <3>1, <3>3, <3>4, SeqEqual
  <2> QED BY <2>1, <2>2, <2>3, <2>4, <2>5
<1>10. /\ x \in Seq(Nat) /\ y \in Seq(Nat) /\ z \in Seq(Nat)
       /\ PackAttributes(r) = x \o y /\ Wire(Signed(r)) = x \o z
  <2>1. r = Q \o E
    BY DEF e
  <2>2. Wire(E) = y /\ y \in Seq(Nat) /\ Wire(F) = z /\ z \in Seq(Nat)
    BY <1>2, WireIs
  <2>3. PackAttributes(r) = Wire(r)
    BY <1>4, Packing, SplitOfOthers
  <2> HIDE DEF E, F, y, z
  <2>4. Wire(Q \o E) = x \o Wire(E) /\ Wire(Q \o F) = x \o Wire(F) /\ x \in Seq(Nat)
    BY <1>3, WireIs, Packing
  <2> QED BY <1>9, <2>1, <2>2, <2>3, <2>4
<1>11. IndexOf(MessageAuthenticator, r) = Len(x)
  <2>1. k - 1 = n /\ n \in 0 .. Len(r)
    BY <1>4, <1>8
  <2>2. Lengths(r)[n] = Len(PackAttributes(SubSeq(r, 1, n)))
    BY <1>4, <2>1, LengthsLaw
  <2>3. SubSeq(r, 1, n) = Q
    <3>1. \A i \in 1 .. n : r[i] \in Attrs
      BY <1>4, ElementOfSeq
    <3>2. 1 \in Int /\ n \in Int /\ n - 1 + 1 = n /\ (IF 1 <= n THEN n - 1 + 1 ELSE 0) = n
      BY <1>4
    <3>3. /\ SubSeq(r, 1, n) \in Seq(Attrs) /\ Len(SubSeq(r, 1, n)) = n
          /\ \A i \in 1 .. n : SubSeq(r, 1, n)[i] = r[1 + i - 1]
      <4>1. /\ SubSeq(r, 1, n) \in Seq(Attrs) /\ Len(SubSeq(r, 1, n)) = IF 1 <= n THEN n - 1 + 1 ELSE 0
            /\ \A i \in 1 .. n - 1 + 1 : SubSeq(r, 1, n)[i] = r[1 + i - 1]
        BY <3>1, <3>2, SubSeqProperties
      <4> QED BY <3>2, <4>1
    <3>4. \A i \in 1 .. n : SubSeq(r, 1, n)[i] = Q[i]
      <4> TAKE i \in 1 .. n
      <4>1. 1 + i - 1 = i
        OBVIOUS
      <4> QED BY <1>4, <3>3, <4>1
    <3> QED BY <1>3, <3>3, <3>4, SeqEqual
  <2>4. PackAttributes(Q) = x
    BY <1>3, Packing, SplitOfOthers
  <2> HIDE DEF k
  <2> QED BY <2>1, <2>2, <2>3, <2>4 DEF IndexOf, k
<1> DEFINE p == PackAttributes(r)
           w == Wire(Signed(r))
           b == Build(r)
           o == Len(x) + 2
<1>12. b = [i \in DOMAIN p |-> IF i - o \in 1 .. D THEN Digest[i - o] ELSE p[i]]
  BY <1>11 DEF Build
<1>13. /\ Len(y) = D + 2 /\ y[1] = MessageAuthenticator /\ y[2] = D + 2 /\ \A i \in 1 .. D : y[i + 2] = Zeros[i]
       /\ Len(z) = D + 2 /\ z[1] = MessageAuthenticator /\ z[2] = D + 2 /\ \A i \in 1 .. D : z[i + 2] = Digest[i]
       /\ D \in Nat
  <2>1. Len(Digest) \in Nat
    BY DigestsAreData, LenProperties
  <2>2. \A d \in Seq(Octet) : /\ Len(Avp(MessageAuthenticator, d)) = Len(d) + 2
                               /\ Avp(MessageAuthenticator, d)[1] = MessageAuthenticator
                               /\ Avp(MessageAuthenticator, d)[2] = Len(d) + 2
                               /\ \A i \in 1 .. Len(d) : Avp(MessageAuthenticator, d)[i + 2] = d[i]
    BY ONLY <1>1, AvpIs
  <2>3. Zeros \in Seq(Octet) /\ Digest \in Seq(Octet) /\ Len(Zeros) = D /\ Len(Digest) = D
    BY DigestsAreData
  <2> HIDE DEF D
  <2> QED BY <2>1, <2>2, <2>3
<1> HIDE DEF x, y, z, D
<1>14. /\ Len(x) \in Nat
       /\ p \in Seq(Nat) /\ Len(p) = Len(x) + (D + 2) /\ DOMAIN p = 1 .. Len(p)
       /\ \A i \in 1 .. Len(x) + (D + 2) : p[i] = IF i <= Len(x) THEN x[i] ELSE y[i - Len(x)]
       /\ w \in Seq(Nat) /\ Len(w) = Len(x) + (D + 2) /\ DOMAIN w = 1 .. Len(w)
       /\ \A i \in 1 .. Len(x) + (D + 2) : w[i] = IF i <= Len(x) THEN x[i] ELSE z[i - Len(x)]
  <2>1. p = x \o y /\ w = x \o z /\ x \in Seq(Nat) /\ y \in Seq(Nat) /\ z \in Seq(Nat)
    BY <1>10
  <2> HIDE DEF p, w
  <2>2. /\ x \o y \in Seq(Nat) /\ Len(x \o y) = Len(x) + Len(y)
        /\ \A i \in 1 .. Len(x) + Len(y) : (x \o y)[i] = IF i <= Len(x) THEN x[i] ELSE y[i - Len(x)]
    BY ONLY <2>1, ConcatProperties
  <2>3. /\ x \o z \in Seq(Nat) /\ Len(x \o z) = Len(x) + Len(z)
        /\ \A i \in 1 .. Len(x) + Len(z) : (x \o z)[i] = IF i <= Len(x) THEN x[i] ELSE z[i - Len(x)]
    BY ONLY <2>1, ConcatProperties
  <2>4. Len(x) \in Nat /\ DOMAIN p = 1 .. Len(p) /\ DOMAIN w = 1 .. Len(w)
    BY <2>1, <2>2, <2>3, LenProperties
  <2>5. Len(y) = D + 2 /\ Len(z) = D + 2
    BY <1>13
  <2>6. /\ p \in Seq(Nat) /\ Len(p) = Len(x) + (D + 2)
        /\ \A i \in 1 .. Len(x) + (D + 2) : p[i] = IF i <= Len(x) THEN x[i] ELSE y[i - Len(x)]
    BY ONLY <2>1, <2>2, <2>5, Zenon
  <2>7. /\ w \in Seq(Nat) /\ Len(w) = Len(x) + (D + 2)
        /\ \A i \in 1 .. Len(x) + (D + 2) : w[i] = IF i <= Len(x) THEN x[i] ELSE z[i - Len(x)]
    BY ONLY <2>1, <2>3, <2>5, Zenon
  <2> QED BY <2>4, <2>6, <2>7
<1> HIDE DEF p, w, b
<1>15. \A i \in DOMAIN p : (IF i - o \in 1 .. D THEN Digest[i - o] ELSE p[i]) = w[i]
  <2> TAKE i \in DOMAIN p
  <2>1. i \in 1 .. Len(x) + (D + 2)
    BY <1>14
  <2>2. CASE i <= Len(x)
    <3>1. i - o \notin 1 .. D
      <4> DEFINE l == Len(x)
      <4>1. l \in Nat /\ D \in Nat /\ i \in 1 .. l + (D + 2) /\ i <= l
        BY <1>13, <1>14, <2>1, <2>2
      <4> HIDE DEF l
      <4>2. i - (l + 2) \notin 1 .. D
        BY ONLY <4>1
      <4> QED BY <4>2 DEF l
    <3>2. p[i] = x[i] /\ w[i] = x[i]
      BY ONLY <1>14, <2>1, <2>2, Zenon
    <3> QED BY ONLY <3>1, <3>2, Zenon
  <2>3. CASE i = Len(x) + 1
    <3>1. i - o \notin 1 .. D /\ ~(i <= Len(x)) /\ i - Len(x) = 1
      BY <1>13, <1>14, <2>1, <2>3
    <3>2. p[i] = y[1] /\ w[i] = z[1]
      BY <1>14, <2>1, <3>1
    <3> QED BY <1>13, <3>1, <3>2
  <2>4. CASE i = Len(x) + 2
    <3>1. i - o \notin 1 .. D /\ ~(i <= Len(x)) /\ i - Len(x) = 2
      BY <1>13, <1>14, <2>1, <2>4
    <3>2. p[i] = y[2] /\ w[i] = z[2]
      BY <1>14, <2>1, <3>1
    <3> QED BY <1>13, <3>1, <3>2
  <2>5. CASE i > Len(x) + 2
    <3>1. i - o \in 1 .. D /\ ~(i <= Len(x)) /\ i - Len(x) = (i - o) + 2
      <4> DEFINE l == Len(x)
      <4>1. l \in Nat /\ D \in Nat /\ i \in 1 .. l + (D + 2) /\ i > l + 2
        BY <1>13, <1>14, <2>1, <2>5
      <4> HIDE DEF l
      <4>2. i - (l + 2) \in 1 .. D /\ ~(i <= l) /\ i - l = (i - (l + 2)) + 2
        BY ONLY <4>1
      <4> QED BY <4>2 DEF l
    <3> HIDE DEF o
    <3>2. w[i] = z[(i - o) + 2]
      BY <1>14, <2>1, <3>1
    <3>3. z[(i - o) + 2] = Digest[i - o]
      BY <1>13, <3>1
    <3> QED BY <3>1, <3>2, <3>3, Zenon
  <2>6. i <= Len(x) \/ i = Len(x) + 1 \/ i = Len(x) + 2 \/ i > Len(x) + 2
    <3> DEFINE l == Len(x)
    <3>1. l \in Nat /\ D \in Nat /\ i \in 1 .. l + (D + 2)
      BY <1>13, <1>14, <2>1
    <3> HIDE DEF l
    <3>2. i <= l \/ i = l + 1 \/ i = l + 2 \/ i > l + 2
      BY ONLY <3>1
    <3> QED BY <3>2 DEF l
  <2> QED BY <2>2, <2>3, <2>4, <2>5, <2>6
<1>16. b = [i \in DOMAIN p |-> w[i]]
  BY <1>12, <1>15
<1>17. b = w
  <2>1. w = [i \in DOMAIN w |-> w[i]] /\ DOMAIN w = DOMAIN p
    BY <1>14
  <2> QED BY <1>16, <2>1
<1> QED BY <1>4, <1>7, <1>17 DEF b, w

-----------------------------------------------------------------------------
(* What is sent. *)

\* A digest fits in one AVP.
LEMMA DigestLengthIs ==
    DigestLength \in Nat \ {0} /\ MaxDataLength \in Nat \ {0} /\ DigestLength <= MaxDataLength
BY BytesAssumption

\* The values that are enumerated are bytes.
LEMMA ValuesAre ==
    ASSUME NEW n \in Nat, NEW d \in Values(n)
    PROVE  d \in Seq(Octet) /\ Len(d) \in 0 .. n /\ (d # <<>> => Len(d) > 0)
<1>1. PICK k \in 0 .. n : d \in [1 .. k -> Byte]
  BY DEF Values
<1>2. Byte \subseteq Octet
  BY BytesAssumption DEF Octet
<1>3. k \in Nat /\ d \in [1 .. k -> Octet]
  BY <1>1, <1>2
<1>4. d \in Seq(Octet) /\ Len(d) = k
  BY ONLY <1>3, MapIsSeq
<1>5. d # <<>> => Len(d) \in Nat \ {0}
  BY <1>4, EmptySeq
<1> QED BY <1>1, <1>4, <1>5

\* Data that fit in one AVP make such an attribute.
LEMMA ShortAttribute ==
    ASSUME NEW t \in Type, NEW d \in Seq(Octet), Len(d) <= MaxDataLength
    PROVE  Attribute(t, d) \in Short
BY AttributeIs DEF Short

\* A Message-Authenticator is one.
LEMMA AuthenticatorsAreShort ==
    /\ Attribute(MessageAuthenticator, Zeros) \in Short
    /\ Attribute(MessageAuthenticator, Digest) \in Short
<1>1. MessageAuthenticator \in Type
  BY DEF Type
<1> QED BY <1>1, DigestsAreData, DigestLengthIs, ShortAttribute

\* So is what servers send.
LEMMA AvpsAreShort == ResponseAvp \subseteq Short
<1> SUFFICES ASSUME NEW a \in ResponseAvp PROVE a \in Short
  OBVIOUS
<1>1. EAPMessage \in Type /\ TunnelPrivateGroupID \in Type /\ Class \in Type
  BY DEF Type
<1>2. MaxDataLength \in Nat /\ 1 \in Nat /\ 1 <= MaxDataLength
  BY DigestLengthIs
<1>3. CASE \E d \in Values(MaxDataLength) : a = Attribute(EAPMessage, d)
  <2>1. PICK d \in Values(MaxDataLength) : a = Attribute(EAPMessage, d)
    BY <1>3
  <2>2. d \in Seq(Octet) /\ Len(d) <= MaxDataLength
    BY <1>2, <2>1, ValuesAre
  <2> QED BY <1>1, <2>1, <2>2, ShortAttribute
<1>4. CASE \E d \in Values(1) : a = Attribute(TunnelPrivateGroupID, d)
  <2>1. PICK d \in Values(1) : a = Attribute(TunnelPrivateGroupID, d)
    BY <1>4
  <2>2. d \in Seq(Octet) /\ Len(d) \in 0 .. 1
    BY <1>2, <2>1, ValuesAre
  <2>3. Len(d) <= MaxDataLength
    BY <1>2, <2>2
  <2> QED BY <1>1, <2>1, <2>2, <2>3, ShortAttribute
<1>5. CASE a = Attribute(MessageAuthenticator, Zeros)
  BY <1>5, AuthenticatorsAreShort
<1>6. CASE \E d \in [1 .. 1 -> Byte] : a = Attribute(Class, d)
  <2>1. PICK d \in [1 .. 1 -> Byte] : a = Attribute(Class, d)
    BY <1>6
  <2>2. d \in Seq(Octet) /\ Len(d) = 1
    <3>0. Byte \subseteq Octet
      BY BytesAssumption DEF Octet
    <3>1. d \in [1 .. 1 -> Octet]
      BY <2>1, <3>0
    <3>2. 1 \in Nat
      OBVIOUS
    <3> QED BY ONLY <3>1, <3>2, MapIsSeq
  <2>3. Len(d) <= MaxDataLength
    BY <1>2, <2>2
  <2> QED BY <1>1, <2>1, <2>2, <2>3, ShortAttribute
<1> QED BY <1>3, <1>4, <1>5, <1>6 DEF ResponseAvp

\* A response is a sequence of these, with one Message-Authenticator at most.
LEMMA ResponsesAreShort ==
    ASSUME NEW r \in ServerResponse
    PROVE  r \in Seq(Short) /\ OneAuthenticator(r) /\ \A i \in 1 .. Len(r) : r[i] \in ResponseAvp
<1>1. PICK n \in 0 .. MaxAvps : r \in [1 .. n -> ResponseAvp]
  BY DEF ServerResponse
<1>2. n \in Nat /\ r \in [1 .. n -> Short]
  BY <1>1, AvpsAreShort, BytesAssumption
<1>3. r \in Seq(Short) /\ Len(r) = n
  BY ONLY <1>2, MapIsSeq
<1>4. OneAuthenticator(r)
  BY DEF ServerResponse, OneAuthenticator, IsAuthenticator
<1> QED BY <1>1, <1>3, <1>4

\* What a server signs is what it sends, but for the data of the Message-Authenticator.
LEMMA SignedIs ==
    ASSUME NEW r \in Seq(Short), OneAuthenticator(r)
    PROVE  r \in Seq(Attrs) /\ Signed(r) = Reset(r, Digest) /\ Signed(r) \in Seq(Short) /\ Signed(r) \in Seq(Attrs)
<1>1. r \in Seq(Attrs)
  BY ShortIs
<1>2. Signed(r) = Reset(r, Digest)
  BY <1>1, DigestsAreData, AuthenticatorIs DEF Signed
<1>3. /\ Reset(r, Digest) \in Seq(Attrs) /\ Len(Reset(r, Digest)) = Len(r)
      /\ \A i \in 1 .. Len(r) : Reset(r, Digest)[i] = ResetOf(r[i], Digest)
  BY <1>1, DigestsAreData, ResetIs
<1>4. \A i \in 1 .. Len(r) : ResetOf(r[i], Digest) \in Short
  BY ElementOfSeq, AuthenticatorsAreShort DEF ResetOf
<1>5. Reset(r, Digest) \in Seq(Short)
  <2> DEFINE q == Reset(r, Digest)
             n == Len(r)
  <2>1. n \in Nat /\ Len(q) = n /\ q \in Seq(Attrs) /\ \A i \in 1 .. n : q[i] \in Short
    BY <1>3, <1>4, LenProperties
  <2> HIDE DEF q, n
  <2>2. q \in [1 .. n -> Short]
    BY <2>1, LenProperties
  <2>3. q \in Seq(Short)
    BY ONLY <2>1, <2>2, MapIsSeq
  <2> QED BY <2>3 DEF q
<1> QED BY <1>1, <1>2, <1>3, <1>5

\* A byte that arrives as another leaves bytes.
LEMMA DamagedIsShort ==
    ASSUME NEW r \in Seq(Short), NEW i \in DOMAIN r, NEW j, NEW b \in Byte
    PROVE  Damaged(r, i, j, b) \in Seq(Short)
<1> DEFINE a == r[i]
           d == a.data
           e == [d EXCEPT ![j] = b]
           n == Len(r)
           q == Damaged(r, i, j, b)
<1>2. n \in Nat /\ DOMAIN r = 1 .. n /\ \A k \in 1 .. n : r[k] \in Short
  BY LenProperties, ElementOfSeq
<1>3. a \in Attrs /\ Len(d) <= MaxDataLength /\ d \in Seq(Octet)
  BY <1>2 DEF Short, Attrs
<1>4. b \in Octet
  BY BytesAssumption DEF Octet
<1>5. e \in Seq(Octet) /\ Len(e) = Len(d)
  <2> HIDE DEF d
  <2>1. Len(d) \in Nat /\ d \in [1 .. Len(d) -> Octet]
    BY <1>3, LenProperties
  <2>2. e \in [1 .. Len(d) -> Octet]
    BY <1>4, <2>1
  <2> HIDE DEF e
  <2> QED BY ONLY <2>1, <2>2, MapIsSeq
<1>6. [a EXCEPT !.data = e] \in Short
  <2>1. [a EXCEPT !.data = e] = Attribute(a.type, e) /\ a.type \in Type
    <3>1. \A x \in Attrs : [x EXCEPT !.data = e] = Attribute(x.type, e) /\ x.type \in Type
      <4> HIDE DEF e, a
      <4> QED BY DEF Attrs, Attribute
    <3> HIDE DEF e, a
    <3> QED BY <1>3, <3>1
  <2> HIDE DEF a, e
  <2> QED BY <1>3, <1>5, <2>1, ShortAttribute
<1>7. q = [k \in DOMAIN r |-> IF k = i THEN [a EXCEPT !.data = e] ELSE r[k]]
  BY <1>2 DEF Damaged
<1>8. q \in [1 .. n -> Short]
  <2> HIDE DEF a, e
  <2> QED BY <1>2, <1>6, <1>7
<1> QED BY ONLY <1>2, <1>8, MapIsSeq

-----------------------------------------------------------------------------
(* Joining. *)

\* What extract_attributes remembers; the attributes that are not joined; and the data.
Piece == [data : Seq(Octet), index : Nat]
OtherOf == [a \in Attrs |-> IF a.type = EAPMessage THEN <<>> ELSE <<a>>]
DataOf == [p \in Piece |-> p.data]

\* Every attribute is dropped or kept, and every piece has data.
LEMMA MapsOfPieces == OtherOf \in Maps(Attrs, Others) /\ DataOf \in Maps(Piece, Octet)
<1>1. \A a \in Attrs : OtherOf[a] \in Seq(Others)
  <2> TAKE a \in Attrs
  <2>1. <<>> \in Seq(Others)
    BY EmptySeq
  <2>2. a.type # EAPMessage => <<a>> \in Seq(Others)
    <3>1. a.type # EAPMessage => a \in Others
      BY DEF Others
    <3> QED BY <3>1
  <2> QED BY <2>1, <2>2 DEF OtherOf
<1>2. \A p \in Piece : DataOf[p] \in Seq(Octet)
  BY DEF Piece, DataOf
<1> QED BY <1>1, <1>2 DEF OtherOf, DataOf, Maps

\* merge_concat_attributes in these terms.
LEMMA MergedIs ==
    ASSUME attributes \in Seq(Attrs), toConcat \in Seq(Piece)
    PROVE  /\ Flat(OtherOf, attributes) \in Seq(Others) /\ Flat(DataOf, toConcat) \in Seq(Octet)
           /\ Merged = InsertAt(Flat(OtherOf, attributes),
                                Min2(Last(toConcat).index, Len(Flat(OtherOf, attributes)) + 1),
                                Attribute(EAPMessage, Flat(DataOf, toConcat)))
<1>1. \A i \in DOMAIN attributes : attributes[i] \in Attrs
  BY LenProperties, ElementOfSeq
<1>2. \A i \in DOMAIN toConcat : toConcat[i] \in Piece
  BY LenProperties, ElementOfSeq
<1>3. FlattenSeq([i \in DOMAIN attributes |->
                      IF attributes[i].type = EAPMessage THEN <<>> ELSE <<attributes[i]>>])
      = Flat(OtherOf, attributes)
  <2>1. \A i \in DOMAIN attributes :
           (IF attributes[i].type = EAPMessage THEN <<>> ELSE <<attributes[i]>>) = OtherOf[attributes[i]]
    BY <1>1 DEF OtherOf
  <2>2. [i \in DOMAIN attributes |-> IF attributes[i].type = EAPMessage THEN <<>> ELSE <<attributes[i]>>]
        = [i \in DOMAIN attributes |-> OtherOf[attributes[i]]]
    BY <2>1
  <2> QED BY <2>2 DEF Flat
<1>4. FlattenSeq([i \in DOMAIN toConcat |-> toConcat[i].data]) = Flat(DataOf, toConcat)
  <2>1. \A i \in DOMAIN toConcat : toConcat[i].data = DataOf[toConcat[i]]
    BY <1>2 DEF DataOf
  <2>2. [i \in DOMAIN toConcat |-> toConcat[i].data] = [i \in DOMAIN toConcat |-> DataOf[toConcat[i]]]
    BY <2>1
  <2> QED BY <2>2 DEF Flat
<1>5. Flat(OtherOf, attributes) \in Seq(Others) /\ Flat(DataOf, toConcat) \in Seq(Octet)
  BY MapsOfPieces, FlatType
<1> QED BY <1>3, <1>4, <1>5 DEF Merged

\* An element is inserted at any place, also at the end.
LEMMA InsertIs ==
    ASSUME NEW S, NEW s \in Seq(S), NEW e \in S, NEW i \in 1 .. Len(s) + 1
    PROVE  InsertAt(s, i, e) \in Seq(S)
<1>1. Len(s) \in Nat /\ \A j \in 1 .. Len(s) : s[j] \in S
  BY LenProperties, ElementOfSeq
<1>2. SubSeq(s, 1, i - 1) \in Seq(S)
  <2>1. \A j \in 1 .. i - 1 : s[j] \in S
    BY <1>1
  <2>2. 1 \in Int /\ i - 1 \in Int
    BY <1>1
  <2> QED BY <2>1, <2>2, SubSeqProperties
<1>3. SubSeq(s, i, Len(s)) \in Seq(S)
  <2>1. \A j \in i .. Len(s) : s[j] \in S
    BY <1>1
  <2>2. i \in Int /\ Len(s) \in Int
    BY <1>1
  <2> QED BY <2>1, <2>2, SubSeqProperties
<1> DEFINE x == SubSeq(s, 1, i - 1)
           y == SubSeq(s, i, Len(s))
           h == <<e>>
<1>4. x \in Seq(S) /\ y \in Seq(S) /\ h \in Seq(S) /\ InsertAt(s, i, e) = (x \o h) \o y
  BY <1>2, <1>3 DEF InsertAt
<1> HIDE DEF x, y, h
<1>5. x \o h \in Seq(S)
  BY <1>4, ConcatProperties
<1> QED BY <1>4, <1>5, ConcatProperties

\* The attributes that are merged are attributes.
LEMMA MergedType ==
    ASSUME attributes \in Seq(Attrs), toConcat \in Seq(Piece), toConcat # <<>>,
           \A i \in 1 .. Len(toConcat) : toConcat[i].index \in Nat \ {0}
    PROVE  Merged \in Seq(Attrs)
<1> DEFINE others == Flat(OtherOf, attributes)
           value == Flat(DataOf, toConcat)
           i == Min2(Last(toConcat).index, Len(others) + 1)
           e == Attribute(EAPMessage, value)
<1>1. others \in Seq(Others) /\ value \in Seq(Octet) /\ Merged = InsertAt(others, i, e)
  BY MergedIs
<1>2. others \in Seq(Attrs) /\ Len(others) \in Nat
  <2>1. Others \subseteq Attrs
    BY DEF Others
  <2> QED BY <1>1, <2>1, SeqMonotonic, LenProperties
<1>3. e \in Attrs
  BY <1>1, AttributeIs DEF Type
<1>4. Last(toConcat).index \in Nat \ {0}
  <2>1. Len(toConcat) \in 1 .. Len(toConcat)
    BY EmptySeq
  <2> QED BY <2>1 DEF Last
<1> HIDE DEF others, value, e
<1>5. i \in 1 .. Len(others) + 1
  BY <1>2, <1>4 DEF Min2
<1> HIDE DEF i
<1> QED BY <1>1, <1>2, <1>3, <1>5, InsertIs

-----------------------------------------------------------------------------
(* The invariant of the codec. *)

\* The types, with what is enumerated by its length only.
PacketTypes ==
    /\ phase \in {"idle", "requested", "extract", "validate", "accepted", "rejected"}
    /\ sent \in Seq(Short) /\ OneAuthenticator(sent)
    /\ bytes \in Seq(Octet) /\ pos \in 0 .. Len(bytes)
    /\ attributes \in Seq(Attrs)
    /\ toConcat \in Seq(Piece) /\ \A i \in 1 .. Len(toConcat) : toConcat[i].index \in 1 .. index
    /\ index \in 0 .. Len(attributes)
    /\ last \in Type \cup {0} /\ (last # 0 => index >= 1)

\* What extract_attributes keeps is there only while it runs.
LoopEnded ==
    /\ phase \notin {"extract", "rejected"} => pos = 0 /\ toConcat = <<>> /\ index = 0 /\ last = 0
    /\ phase \in {"idle", "requested"} => attributes = <<>>

\* The AVPs of a packet are those already read and some more.
PartlyRead ==
    phase = "extract" =>
        \E rest \in Seq(Attrs) : bytes = Wire(attributes \o rest) /\ pos = Len(Wire(attributes))

\* The invariant that is inductive.
CodecInv == PacketTypes /\ LoopEnded /\ PartlyRead /\ RequestIsSigned /\ AcceptedIsIntact

\* It implies the invariant that the run checks.
LEMMA CodecImplies == CodecInv => PacketInv
<1> SUFFICES ASSUME CodecInv PROVE PacketInv
  OBVIOUS
<1>1. \A a \in Attrs : IsAttribute(a)
  <2> TAKE a \in Attrs
  <2>1. a.type \in Type /\ a.data \in Seq(Octet)
    BY DEF Attrs
  <2>2. \A i \in DOMAIN a.data : a.data[i] \in Octet
    <3> DEFINE d == a.data
    <3>1. d \in Seq(Octet)
      BY <2>1
    <3> HIDE DEF d
    <3>2. \A i \in DOMAIN d : d[i] \in Octet
      BY <3>1, LenProperties, ElementOfSeq
    <3> QED BY <3>2 DEF d
  <2> QED BY <2>1, <2>2 DEF IsAttribute, Octet
<1>2. \A i \in DOMAIN sent : IsAttribute(sent[i])
  <2>1. sent \in Seq(Attrs)
    BY ShortIs DEF CodecInv, PacketTypes
  <2> QED BY <1>1, <2>1, LenProperties, ElementOfSeq
<1>3. \A i \in DOMAIN attributes : IsAttribute(attributes[i])
  <2>1. attributes \in Seq(Attrs)
    BY DEF CodecInv, PacketTypes
  <2> QED BY <1>1, <2>1, LenProperties, ElementOfSeq
<1>4. \A i \in DOMAIN bytes : bytes[i] \in 0 .. 255
  <2>1. bytes \in Seq(Octet)
    BY DEF CodecInv, PacketTypes
  <2>2. \A i \in DOMAIN bytes : bytes[i] \in Octet
    BY <2>1, LenProperties, ElementOfSeq
  <2> QED BY <2>2 DEF Octet
<1>5. \A i \in DOMAIN toConcat : toConcat[i].index \in 1 .. index
  <2>1. toConcat \in Seq(Piece) /\ \A i \in 1 .. Len(toConcat) : toConcat[i].index \in 1 .. index
    BY DEF CodecInv, PacketTypes
  <2> QED BY <2>1, LenProperties
<1>6. PacketTypeOK
  BY <1>2, <1>3, <1>4, <1>5 DEF CodecInv, PacketTypes, PacketTypeOK
<1> QED BY <1>6 DEF CodecInv, PacketInv

\* The empty sequence is of every kind.
LEMMA NoAttributes ==
    /\ <<>> \in Seq(Short) /\ <<>> \in Seq(Octet) /\ <<>> \in Seq(Attrs) /\ <<>> \in Seq(Piece)
    /\ Len(<<>>) = 0 /\ OneAuthenticator(<<>>)
<1>1. OneAuthenticator(<<>>)
  BY DEF OneAuthenticator
<1> QED BY <1>1, EmptySeq

\* It holds in the beginning.
LEMMA CodecInit == PacketInit => CodecInv
<1> SUFFICES ASSUME PacketInit PROVE CodecInv
  OBVIOUS
<1>1. PacketTypes
  BY NoAttributes DEF PacketInit, PacketTypes
<1>2. LoopEnded /\ PartlyRead /\ RequestIsSigned /\ AcceptedIsIntact
  BY DEF PacketInit, LoopEnded, PartlyRead, RequestIsSigned, AcceptedIsIntact
<1> QED BY <1>1, <1>2 DEF CodecInv

\* The attributes of a request: those before its Message-Authenticator are left as they are.
LEMMA RequestsAre ==
    ASSUME NEW mac \in Values(MaxDataLength), NEW port \in {<<>>} \cup [1 .. MaxDataLength -> Byte],
           NEW r, r = <<Attribute(CallingStationId, mac)>>
                         \o (IF port = <<>> THEN <<>> ELSE <<Attribute(NASPort, port)>>)
                         \o <<Attribute(MessageAuthenticator, Zeros)>>
    PROVE  r \in Seq(Short) /\ OneAuthenticator(r) /\ Build(r) = Wire(Signed(r))
<1> DEFINE a == Attribute(CallingStationId, mac)
           b == Attribute(NASPort, port)
           z == Attribute(MessageAuthenticator, Zeros)
           A == <<a>>
           B == IF port = <<>> THEN <<>> ELSE <<b>>
           Z == <<z>>
           Q == A \o B
           Plain == {x \in Short : x.type # EAPMessage /\ ~IsAuthenticator(x)}
<1>1. a \in Plain
  <2>1. CallingStationId \in Type /\ CallingStationId # EAPMessage /\ CallingStationId # MessageAuthenticator
    BY DEF Type, CallingStationId, EAPMessage, MessageAuthenticator
  <2>2. mac \in Seq(Octet) /\ Len(mac) <= MaxDataLength
    BY ValuesAre, DigestLengthIs
  <2>3. a \in Short /\ a.type = CallingStationId
    BY <2>1, <2>2, ShortAttribute, AttributeIs
  <2> HIDE DEF a
  <2> QED BY <2>1, <2>3 DEF IsAuthenticator
<1>2. port # <<>> => b \in Plain
  <2> SUFFICES ASSUME port # <<>> PROVE b \in Plain
    OBVIOUS
  <2>1. NASPort \in Type /\ NASPort # EAPMessage /\ NASPort # MessageAuthenticator
    BY DEF Type, NASPort, EAPMessage, MessageAuthenticator
  <2>2. port \in Values(MaxDataLength)
    <3>1. port \in [1 .. MaxDataLength -> Byte] /\ MaxDataLength \in 0 .. MaxDataLength
      BY DigestLengthIs
    <3> QED BY ONLY <3>1 DEF Values
  <2>3. port \in Seq(Octet) /\ Len(port) <= MaxDataLength
    BY <2>2, ValuesAre, DigestLengthIs
  <2>4. b \in Short /\ b.type = NASPort
    BY <2>1, <2>3, ShortAttribute, AttributeIs
  <2> HIDE DEF b
  <2> QED BY <2>1, <2>4 DEF IsAuthenticator
<1>3. A \in Seq(Plain) /\ B \in Seq(Plain)
  <2> HIDE DEF a, b, Plain
  <2>1. <<>> \in Seq(Plain)
    BY EmptySeq
  <2> QED BY <1>1, <1>2, <2>1
<1>4. Q \in Seq(Plain)
  <2> HIDE DEF A, B, Plain
  <2> QED BY <1>3, ConcatProperties
<1>5. Q \in Seq(Others) /\ Q \in Seq(Short) /\ \A i \in 1 .. Len(Q) : ~IsAuthenticator(Q[i])
  <2>1. Plain \subseteq Others /\ Plain \subseteq Short
    BY ShortIs DEF Others
  <2>2. \A x \in Plain : ~IsAuthenticator(x)
    OBVIOUS
  <2> HIDE DEF Q, Plain
  <2> QED BY <1>4, <2>1, <2>2, SeqMonotonic, ElementOfSeq
<1>6. r = Q \o Z
  OBVIOUS
<1> HIDE DEF Q
<1>7. r \in Seq(Attrs) /\ OneAuthenticator(r) /\ Build(r) = Wire(Signed(r))
  BY <1>5, <1>6, BuildIs
<1>8. Q \o Z \in Seq(Short)
  <2>1. Z \in Seq(Short)
    <3>1. z \in Short
      BY AuthenticatorsAreShort
    <3> HIDE DEF z
    <3> QED BY <3>1
  <2> HIDE DEF Z
  <2> QED BY <1>5, <2>1, ConcatProperties
<1> QED BY <1>6, <1>7, <1>8

\* A request is signed where its receiver looks for the digest (EncodeMabMessage).
LEMMA RequestStep ==
    ASSUME CodecInv, EncodeMabMessage
    PROVE  CodecInv'
<1>1. sent' \in Seq(Short) /\ OneAuthenticator(sent') /\ bytes' = Wire(Signed(sent'))
  <2>1. PICK mac \in Values(MaxDataLength), port \in {<<>>} \cup [1 .. MaxDataLength -> Byte] :
           sent' = <<Attribute(CallingStationId, mac)>>
                      \o (IF port = <<>> THEN <<>> ELSE <<Attribute(NASPort, port)>>)
                      \o <<Attribute(MessageAuthenticator, Zeros)>>
    BY DEF EncodeMabMessage
  <2>2. sent' \in Seq(Short) /\ OneAuthenticator(sent') /\ Build(sent') = Wire(Signed(sent'))
    BY <2>1, RequestsAre
  <2>3. bytes' = Build(sent')
    BY DEF EncodeMabMessage
  <2> QED BY <2>2, <2>3
<1>2. bytes' \in Seq(Octet)
  BY <1>1, SignedIs, ShortIs
<1>3. /\ phase = "idle" /\ phase' = "requested" /\ pos' = 0 /\ attributes' = <<>> /\ toConcat' = <<>>
      /\ index' = 0 /\ last' = 0
  BY DEF CodecInv, LoopEnded, EncodeMabMessage, loopVars
<1>4. Len(bytes') \in Nat
  BY <1>2, LenProperties
<1>5. PacketTypes'
  BY <1>1, <1>2, <1>3, <1>4, NoAttributes DEF PacketTypes
<1>6. LoopEnded' /\ PartlyRead' /\ AcceptedIsIntact'
  BY <1>3 DEF LoopEnded, PartlyRead, AcceptedIsIntact
<1>7. RequestIsSigned'
  BY <1>1 DEF RequestIsSigned
<1> QED BY <1>5, <1>6, <1>7 DEF CodecInv

\* A response arrives, damaged or not (Receive).
LEMMA ReceiveStep ==
    ASSUME CodecInv, Receive
    PROVE  CodecInv'
<1>1. sent' \in Seq(Short) /\ OneAuthenticator(sent')
  BY ResponsesAreShort DEF Receive
<1>2. PICK q \in Seq(Short) : bytes' = Wire(q)
  <2>1. Signed(sent') \in Seq(Short) /\ sent' \in Seq(Attrs) /\ Signed(sent') = Reset(sent', Digest)
    BY <1>1, SignedIs
  <2>2. DOMAIN Signed(sent') = DOMAIN sent'
    BY <2>1, DigestsAreData, ResetIs
  <2>3. CASE bytes' = Wire(Signed(sent'))
    BY <2>1, <2>3
  <2>4. CASE \E i \in DOMAIN sent', b \in Byte : \E j \in DOMAIN sent'[i].data :
                bytes' = Wire(Damaged(Signed(sent'), i, j, b))
    <3>1. PICK i \in DOMAIN sent', b \in Byte :
             \E j \in DOMAIN sent'[i].data : bytes' = Wire(Damaged(Signed(sent'), i, j, b))
      BY <2>4
    <3>2. PICK j \in DOMAIN sent'[i].data : bytes' = Wire(Damaged(Signed(sent'), i, j, b))
      BY <3>1
    <3>3. Damaged(Signed(sent'), i, j, b) \in Seq(Short)
      BY <2>1, <2>2, DamagedIsShort
    <3> QED BY <3>2, <3>3
  <2> QED BY <2>3, <2>4 DEF Receive
<1>3. q \in Seq(Attrs) /\ bytes' \in Seq(Octet)
  BY <1>2, ShortIs
<1>4. /\ phase = "idle" /\ phase' = "extract" /\ pos' = 0 /\ attributes' = <<>> /\ toConcat' = <<>>
      /\ index' = 0 /\ last' = 0
  BY DEF CodecInv, LoopEnded, Receive, loopVars
<1>5. Len(bytes') \in Nat
  BY <1>3, LenProperties
<1>6. PacketTypes'
  BY <1>1, <1>3, <1>4, <1>5, NoAttributes DEF PacketTypes
<1>7. LoopEnded' /\ RequestIsSigned' /\ AcceptedIsIntact'
  BY <1>4 DEF LoopEnded, RequestIsSigned, AcceptedIsIntact
<1>8. PartlyRead'
  <2>1. <<>> \o q = q /\ Wire(<<>>) = <<>> /\ Len(<<>>) = 0
    BY <1>3, WireIs, ConcatEmptySeq, EmptySeq
  <2>2. bytes' = Wire(attributes' \o q) /\ pos' = Len(Wire(attributes'))
    BY <1>2, <1>4, <2>1
  <2> QED BY <1>3, <2>2 DEF PartlyRead
<1> QED BY <1>6, <1>7, <1>8 DEF CodecInv

\* An AVP is read: one is left to read, and its length leads to the next (ExtractAttribute).
LEMMA ExtractStep ==
    ASSUME CodecInv, ExtractAttribute
    PROVE  CodecInv'
<1> DEFINE t == bytes[pos + 1]
           l == bytes[pos + 2]
           d == SubSeq(bytes, pos + 3, pos + l)
<1>1. /\ phase = "extract" /\ pos < Len(bytes) /\ phase' = phase /\ sent' = sent /\ bytes' = bytes
      /\ pos' = pos + l /\ index' = Position(t) /\ last' = t
      /\ attributes' = Append(attributes, Attribute(t, d))
      /\ toConcat' = IF t # EAPMessage THEN toConcat ELSE Append(toConcat, [data |-> d, index |-> index'])
  BY DEF ExtractAttribute
<1>2. /\ sent \in Seq(Short) /\ OneAuthenticator(sent) /\ bytes \in Seq(Octet) /\ attributes \in Seq(Attrs)
      /\ toConcat \in Seq(Piece) /\ (\A i \in 1 .. Len(toConcat) : toConcat[i].index \in 1 .. index)
      /\ index \in 0 .. Len(attributes)
      /\ last \in Type \cup {0} /\ (last # 0 => index >= 1)
  BY DEF CodecInv, PacketTypes
<1>3. PICK rest \in Seq(Attrs) : bytes = Wire(attributes \o rest) /\ pos = Len(Wire(attributes))
  BY <1>1 DEF CodecInv, PartlyRead
<1>4. /\ rest # <<>> /\ rest[1] \in Attrs /\ Tail(rest) \in Seq(Attrs)
      /\ t = rest[1].type /\ d = rest[1].data
      /\ Append(attributes, rest[1]) \in Seq(Attrs)
      /\ bytes = Wire(Append(attributes, rest[1]) \o Tail(rest))
      /\ pos + l = Len(Wire(Append(attributes, rest[1])))
      /\ pos + l <= Len(bytes)
  <2>1. attributes \in Seq(Attrs) /\ rest \in Seq(Attrs) /\ IsRest(bytes, pos, attributes, rest) /\ pos < Len(bytes)
    BY <1>1, <1>2, <1>3 DEF IsRest
  <2>2. /\ rest # <<>> /\ rest[1] \in Attrs /\ Tail(rest) \in Seq(Attrs)
        /\ IsNext(rest[1], bytes, pos)
        /\ Append(attributes, rest[1]) \in Seq(Attrs)
        /\ IsRest(bytes, pos + bytes[pos + 2], Append(attributes, rest[1]), Tail(rest))
        /\ pos + bytes[pos + 2] <= Len(bytes)
    BY ONLY <2>1, NextAvp
  <2> QED BY ONLY <2>2, Zenon DEF t, l, d, IsNext, IsRest
<1> HIDE DEF t, l, d
<1>5. /\ Attribute(t, d) = rest[1] /\ t \in Type /\ d \in Seq(Octet) /\ t # 0
  <2>1. \A a \in Attrs : Attribute(a.type, a.data) = a /\ a.type \in Type /\ a.data \in Seq(Octet)
    BY DEF Attrs, Attribute
  <2>2. 0 \notin Type
    BY TypesAreNumbers
  <2> QED BY <1>4, <2>1, <2>2
<1>6. /\ attributes' = Append(attributes, rest[1]) /\ attributes' \in Seq(Attrs)
      /\ Len(attributes') = Len(attributes) + 1
  BY <1>1, <1>2, <1>4, <1>5, AppendProperties
<1>7. pos' \in 0 .. Len(bytes')
  <2>1. Wire(Append(attributes, rest[1])) \in Seq(Nat)
    BY <1>4, Packing
  <2>2. pos + l \in Nat
    BY <1>4, <2>1, LenProperties
  <2> QED BY <1>1, <1>4, <2>2
<1>8. index' \in index .. index + 1 /\ index' >= 1 /\ index \in Nat /\ Len(attributes) \in Nat
  <2>1. index \in Nat /\ Len(attributes) \in Nat
    BY <1>2, LenProperties
  <2>2. index' = index + 1 \/ (index' = index /\ last = t)
    BY <1>1 DEF Position
  <2> QED BY <1>2, <1>5, <2>1, <2>2
<1>9. toConcat' \in Seq(Piece) /\ \A i \in 1 .. Len(toConcat') : toConcat'[i].index \in 1 .. index'
  <2>1. \A i \in 1 .. Len(toConcat) : toConcat[i].index \in 1 .. index'
    BY <1>2, <1>8
  <2>2. CASE t # EAPMessage
    BY <1>1, <1>2, <2>1, <2>2
  <2>3. CASE t = EAPMessage
    <3> DEFINE p == [data |-> d, index |-> index']
    <3>1. p \in Piece /\ p.index \in 1 .. index'
      BY <1>5, <1>8 DEF Piece
    <3>2. toConcat' = Append(toConcat, p)
      BY <1>1, <2>3
    <3> HIDE DEF p
    <3>3. /\ Append(toConcat, p) \in Seq(Piece) /\ Len(Append(toConcat, p)) = Len(toConcat) + 1
          /\ \A i \in 1 .. Len(toConcat) : Append(toConcat, p)[i] = toConcat[i]
          /\ Append(toConcat, p)[Len(toConcat) + 1] = p
          /\ Len(toConcat) \in Nat
      BY <1>2, <3>1, AppendProperties, LenProperties
    <3>4. ASSUME NEW i \in 1 .. Len(toConcat) + 1
          PROVE  Append(toConcat, p)[i].index \in 1 .. index'
      <4>1. CASE i = Len(toConcat) + 1
        BY <3>1, <3>3, <4>1
      <4>2. CASE i # Len(toConcat) + 1
        <5>1. i \in 1 .. Len(toConcat)
          BY <3>3, <4>2
        <5> QED BY <2>1, <3>3, <5>1
      <4> QED BY <4>1, <4>2
    <3> QED BY <3>2, <3>3, <3>4
  <2> QED BY <2>2, <2>3
<1>10. index' \in 0 .. Len(attributes')
  BY <1>2, <1>6, <1>8
<1>11. PacketTypes'
  BY <1>1, <1>2, <1>5, <1>6, <1>7, <1>8, <1>9, <1>10 DEF PacketTypes
<1>12. LoopEnded' /\ RequestIsSigned' /\ AcceptedIsIntact'
  BY <1>1 DEF LoopEnded, RequestIsSigned, AcceptedIsIntact
<1>13. PartlyRead'
  <2>1. bytes' = Wire(attributes' \o Tail(rest)) /\ pos' = Len(Wire(attributes'))
    BY <1>1, <1>3, <1>4, <1>6
  <2> QED BY <1>4, <2>1 DEF PartlyRead
<1> QED BY <1>11, <1>12, <1>13 DEF CodecInv

\* The parts are joined (MergeConcatAttributes).
LEMMA MergeStep ==
    ASSUME CodecInv, MergeConcatAttributes
    PROVE  CodecInv'
<1>1. /\ phase = "extract" /\ phase' = "validate" /\ sent' = sent /\ bytes' = bytes
      /\ pos' = 0 /\ toConcat' = <<>> /\ index' = 0 /\ last' = 0
      /\ attributes' = IF toConcat = <<>> THEN attributes ELSE Merged
  BY DEF MergeConcatAttributes, Unpacked
<1>2. /\ sent \in Seq(Short) /\ OneAuthenticator(sent) /\ bytes \in Seq(Octet) /\ attributes \in Seq(Attrs)
      /\ toConcat \in Seq(Piece) /\ (\A i \in 1 .. Len(toConcat) : toConcat[i].index \in 1 .. index)
      /\ index \in 0 .. Len(attributes) /\ Len(bytes) \in Nat /\ Len(attributes) \in Nat
  BY LenProperties DEF CodecInv, PacketTypes
<1>3. attributes' \in Seq(Attrs)
  <2>1. \A i \in 1 .. Len(toConcat) : toConcat[i].index \in Nat \ {0}
    BY <1>2
  <2>2. toConcat # <<>> => Merged \in Seq(Attrs)
    BY <1>2, <2>1, MergedType
  <2> QED BY <1>1, <1>2, <2>2
<1>4. Len(attributes') \in Nat
  BY <1>3, LenProperties
<1>5. PacketTypes'
  BY <1>1, <1>2, <1>3, <1>4, NoAttributes DEF PacketTypes
<1>6. LoopEnded' /\ PartlyRead' /\ RequestIsSigned' /\ AcceptedIsIntact'
  BY <1>1 DEF LoopEnded, PartlyRead, RequestIsSigned, AcceptedIsIntact
<1> QED BY <1>5, <1>6 DEF CodecInv

\* An accepted packet has the AVPs that were signed, and so their values.
LEMMA SameValues ==
    ASSUME NEW r \in Seq(Attrs), NEW t
    PROVE  FlattenSeq([i \in DOMAIN r |-> IF r[i].type = t THEN r[i].data ELSE <<>>]) = Value(t, r)
<1>1. \A i \in DOMAIN r : r[i] \in Attrs
  BY LenProperties, ElementOfSeq
<1>2. \A i \in DOMAIN r : (IF r[i].type = t THEN r[i].data ELSE <<>>) = ValueOf(t)[r[i]]
  BY <1>1 DEF ValueOf
<1>3. [i \in DOMAIN r |-> IF r[i].type = t THEN r[i].data ELSE <<>>] = [i \in DOMAIN r |-> ValueOf(t)[r[i]]]
  BY <1>2
<1> QED BY <1>3 DEF Value, Flat

\* What is accepted has the bytes that were signed, and so their values (ValidateReceived).
LEMMA ValidateStep ==
    ASSUME CodecInv, ValidateReceived
    PROVE  CodecInv'
<1>1. /\ phase = "validate" /\ sent' = sent /\ bytes' = bytes /\ pos' = pos /\ attributes' = attributes
      /\ toConcat' = toConcat /\ index' = index /\ last' = last
      /\ phase' \in {"accepted", "rejected"}
      /\ phase' = "accepted" => ValidResponseAuthenticator
  BY DEF ValidateReceived, loopVars
<1>2. PacketTypes'
  BY <1>1 DEF CodecInv, PacketTypes
<1>3. LoopEnded' /\ PartlyRead' /\ RequestIsSigned'
  BY <1>1 DEF CodecInv, LoopEnded, PartlyRead, RequestIsSigned
<1>4. AcceptedIsIntact'
  <2> DEFINE q == Signed(sent)
             r == attributes
  <2>1. r \in Seq(Attrs) /\ q \in Seq(Attrs)
    BY SignedIs DEF CodecInv, PacketTypes
  <2>2. ASSUME ValidResponseAuthenticator, NEW t \in Type
        PROVE  FlattenSeq([i \in DOMAIN r |-> IF r[i].type = t THEN r[i].data ELSE <<>>])
               = FlattenSeq([i \in DOMAIN q |-> IF q[i].type = t THEN q[i].data ELSE <<>>])
    <3>1. Packed(r) = Hashed(Wire(q))
      BY <2>2 DEF ValidResponseAuthenticator
    <3> HIDE DEF q, r
    <3>2. Split(r) = q
      BY <2>1, <3>1, SameBytes
    <3>3. Value(t, Split(r)) = Value(t, r)
      BY <2>1, <2>2, SplitValue
    <3> QED BY <2>1, <3>2, <3>3, SameValues
  <2> QED BY <1>1, <2>2 DEF AcceptedIsIntact
<1> QED BY <1>2, <1>3, <1>4 DEF CodecInv

\* The next packet (Return).
LEMMA ReturnStep ==
    ASSUME CodecInv, Return
    PROVE  CodecInv'
<1>1. /\ phase \in {"requested", "accepted"} /\ phase' = "idle"
      /\ sent' = <<>> /\ bytes' = <<>> /\ attributes' = <<>>
      /\ pos' = 0 /\ toConcat' = <<>> /\ index' = 0 /\ last' = 0
  BY DEF CodecInv, LoopEnded, Return
<1>2. PacketTypes'
  BY <1>1, NoAttributes DEF PacketTypes
<1>3. LoopEnded' /\ PartlyRead' /\ RequestIsSigned' /\ AcceptedIsIntact'
  BY <1>1 DEF LoopEnded, PartlyRead, RequestIsSigned, AcceptedIsIntact
<1> QED BY <1>2, <1>3 DEF CodecInv

\* Data that are refused end the extraction (ExtractFails).
LEMMA FailStep ==
    ASSUME CodecInv, ExtractFails
    PROVE  CodecInv'
<1>1. /\ phase = "extract" /\ phase' = "rejected" /\ sent' = sent /\ bytes' = bytes /\ pos' = pos
      /\ attributes' = attributes /\ toConcat' = toConcat /\ index' = index /\ last' = last
  BY DEF ExtractFails, loopVars
<1>2. PacketTypes'
  BY <1>1 DEF CodecInv, PacketTypes
<1>3. LoopEnded' /\ PartlyRead' /\ RequestIsSigned' /\ AcceptedIsIntact'
  BY <1>1 DEF LoopEnded, PartlyRead, RequestIsSigned, AcceptedIsIntact
<1> QED BY <1>2, <1>3 DEF CodecInv

\* Every step preserves it.
LEMMA CodecNext == CodecInv /\ [PacketNext]_packetVars => CodecInv'
<1> SUFFICES ASSUME CodecInv, [PacketNext]_packetVars PROVE CodecInv'
  OBVIOUS
<1>1. CASE UNCHANGED packetVars
  BY <1>1 DEF packetVars, CodecInv, PacketTypes, LoopEnded, PartlyRead, RequestIsSigned, AcceptedIsIntact
<1>2. CASE ThreadIsDead
  BY <1>2 DEF ThreadIsDead, packetVars, CodecInv, PacketTypes, LoopEnded, PartlyRead, RequestIsSigned,
              AcceptedIsIntact
<1> QED BY <1>1, <1>2, RequestStep, ReceiveStep, ExtractStep, FailStep, MergeStep, ValidateStep, ReturnStep
        DEF PacketNext

\* A request has its digest where the receiver looks for it, and the values of what is
\* accepted are those that the server signed, for any bytes, lengths and number of AVPs.
THEOREM CodecIsSafe == PacketSpec => []PacketInv
<1>1. PacketSpec => []CodecInv
  BY CodecInit, CodecNext, PTL DEF PacketSpec
<1> QED BY <1>1, CodecImplies, PTL

-----------------------------------------------------------------------------
(* Intact responses.  The AVPs of one that is well formed are others (A), the parts of an *)
(* EAP-Message (E) and others (B).                                                         *)

\* Attributes are EAP-Messages or others, and a Message-Authenticator is one of these.
LEMMA PartsAndOthers ==
    /\ Parts \subseteq Attrs /\ Others \subseteq Attrs
    /\ \A r : r \in Seq(Parts) \/ r \in Seq(Others) => r \in Seq(Attrs)
    /\ \A a \in Parts : ~IsAuthenticator(a) /\ a.type = EAPMessage
    /\ \A a \in Others : a.type # EAPMessage
<1>1. Parts \subseteq Attrs /\ Others \subseteq Attrs
  BY DEF Parts, Others
<1>2. \A r : r \in Seq(Parts) \/ r \in Seq(Others) => r \in Seq(Attrs)
  BY <1>1, SeqMonotonic
<1>3. \A a \in Parts : ~IsAuthenticator(a) /\ a.type = EAPMessage
  BY DEF Parts, IsAuthenticator, EAPMessage, MessageAuthenticator
<1> QED BY <1>1, <1>2, <1>3 DEF Others

\* The signed attributes have the Message-Authenticators of those that were sent.
LEMMA SignedAuthenticators ==
    ASSUME NEW s \in Seq(Attrs), OneAuthenticator(s), NEW r, r = Reset(s, Digest)
    PROVE  /\ r \in Seq(Attrs) /\ OneAuthenticator(r) /\ Len(r) = Len(s) /\ DOMAIN r = 1 .. Len(r)
           /\ \A i \in 1 .. Len(r) : IsAuthenticator(r[i]) => r[i].data = Digest
           /\ \A i \in 1 .. Len(r) : ~IsAuthenticator(r[i]) => r[i] = s[i]
<1>1. /\ r \in Seq(Attrs) /\ Len(r) = Len(s) /\ DOMAIN r = 1 .. Len(r) /\ DOMAIN s = 1 .. Len(r)
      /\ \A i \in 1 .. Len(r) : r[i] = ResetOf(s[i], Digest)
  BY DigestsAreData, ResetIs
<1>2. \A a : /\ IsAuthenticator(ResetOf(a, Digest)) <=> IsAuthenticator(a)
             /\ IsAuthenticator(a) => ResetOf(a, Digest).data = Digest
             /\ ~IsAuthenticator(a) => ResetOf(a, Digest) = a
  BY DEF ResetOf, IsAuthenticator, Attribute
<1>3. \A i \in 1 .. Len(r) : IsAuthenticator(r[i]) <=> IsAuthenticator(s[i])
  BY <1>1, <1>2
<1>4. OneAuthenticator(r)
  BY <1>1, <1>3 DEF OneAuthenticator
<1> QED BY <1>1, <1>2, <1>3, <1>4

\* What is not an EAP-Message stays so.
LEMMA ResetOfOthers ==
    ASSUME NEW r \in Seq(Others), NEW d \in Seq(Octet)
    PROVE  Reset(r, d) \in Seq(Others)
<1> DEFINE q == Reset(r, d)
           n == Len(r)
<1>1. /\ q \in Seq(Attrs) /\ Len(q) = n /\ DOMAIN q = 1 .. n /\ \A i \in 1 .. n : q[i] = ResetOf(r[i], d)
      /\ n \in Nat
  BY PartsAndOthers, ResetIs, LenProperties
<1>2. \A i \in 1 .. n : q[i] \in Others
  <2> TAKE i \in 1 .. n
  <2>1. r[i] \in Others /\ q[i] \in Attrs
    <3> HIDE DEF q, n
    <3> QED BY <1>1, ElementOfSeq DEF n
  <2>2. ResetOf(r[i], d).type # EAPMessage
    BY <2>1 DEF ResetOf, Attribute, Others, EAPMessage, MessageAuthenticator
  <2> HIDE DEF q
  <2> QED BY <1>1, <2>1, <2>2 DEF Others
<1> HIDE DEF q, n
<1>3. q \in [1 .. n -> Others]
  BY <1>1, <1>2, LenProperties
<1>4. q \in Seq(Others)
  BY ONLY <1>1, <1>3, MapIsSeq
<1> QED BY <1>4 DEF q

\* The attributes are split three by three.
LEMMA SplitOfThree ==
    ASSUME NEW A \in Seq(Others), NEW m \in Seq(Parts), NEW B \in Seq(Others)
    PROVE  Split(A \o (m \o B)) = A \o (Split(m) \o B)
<1>1. A \in Seq(Attrs) /\ m \in Seq(Attrs) /\ B \in Seq(Attrs)
  BY PartsAndOthers
<1>2. m \o B \in Seq(Attrs)
  BY <1>1, ConcatProperties
<1>3. SplitOf \in Maps(Attrs, Attrs)
  BY MapsOfAttributes
<1>4. \A r, q \in Seq(Attrs) : Split(r \o q) = Split(r) \o Split(q)
  BY ONLY <1>3, FlatOfBoth DEF Split
<1>5. Split(A) = A /\ Split(B) = B
  BY SplitOfOthers
<1>6. Split(A \o (m \o B)) = Split(A) \o Split(m \o B) /\ Split(m \o B) = Split(m) \o Split(B)
  BY ONLY <1>1, <1>2, <1>4, Zenon
<1> QED BY <1>5, <1>6

\* Message-Authenticators are on either side of the EAP-Message.
LEMMA ResetOfThree ==
    ASSUME NEW A \in Seq(Others), NEW m \in Seq(Parts), NEW B \in Seq(Others), NEW d \in Seq(Octet)
    PROVE  Reset(A \o (m \o B), d) = Reset(A, d) \o (m \o Reset(B, d))
<1>1. A \in Seq(Attrs) /\ m \in Seq(Attrs) /\ B \in Seq(Attrs)
  BY PartsAndOthers
<1>2. m \o B \in Seq(Attrs)
  BY <1>1, ConcatProperties
<1>3. Reset(m, d) = m
  <2>1. \A i \in 1 .. Len(m) : ~IsAuthenticator(m[i])
    BY PartsAndOthers, ElementOfSeq
  <2> QED BY <1>1, <2>1, ResetOfParts
<1>4. Reset(A \o (m \o B), d) = Reset(A, d) \o Reset(m \o B, d)
  BY <1>1, <1>2, ResetOfBoth
<1>5. Reset(m \o B, d) = Reset(m, d) \o Reset(B, d)
  BY <1>1, ResetOfBoth
<1> QED BY <1>3, <1>4, <1>5

\* At most one Message-Authenticator, with a digest.
Authentic(r) == OneAuthenticator(r) /\ \A i \in 1 .. Len(r) : IsAuthenticator(r[i]) => r[i].data = Digest

\* Attributes with the parts (E) joined to what they are split from (m) have the
\* Message-Authenticators of the signed ones.
LEMMA SameAuthenticators ==
    ASSUME NEW A \in Seq(Others), NEW m \in Seq(Parts), NEW E \in Seq(Parts), NEW B \in Seq(Others),
           NEW M, IsThree(M, A, m, B), NEW R, IsThree(R, A, E, B), Authentic(R)
    PROVE  M \in Seq(Attrs) /\ Authentic(M) /\ DOMAIN M = 1 .. Len(M)
<1> DEFINE a == Len(A)
           b == Len(B)
           n == Len(m)
           k == Len(E)
           f(i) == IF i <= a THEN i ELSE (i - n) + k
<1>0. A \in Seq(Attrs) /\ m \in Seq(Attrs) /\ E \in Seq(Attrs) /\ B \in Seq(Attrs)
  BY PartsAndOthers
<1>00. OneAuthenticator(R) /\ \A i \in 1 .. Len(R) : IsAuthenticator(R[i]) => R[i].data = Digest
  BY DEF Authentic
<1>1. /\ M \in Seq(Attrs) /\ Len(M) = a + n + b /\ a \in Nat /\ n \in Nat /\ b \in Nat
      /\ \A i \in 1 .. a : M[i] = A[i]
      /\ \A i \in 1 .. n : M[a + i] = m[i]
      /\ \A i \in 1 .. b : M[a + n + i] = B[i]
  BY <1>0, PartsOfThree
<1>2. /\ R \in Seq(Attrs) /\ Len(R) = a + k + b /\ k \in Nat
      /\ \A i \in 1 .. a : R[i] = A[i]
      /\ \A i \in 1 .. b : R[a + k + i] = B[i]
  BY <1>0, PartsOfThree
<1>3. DOMAIN M = 1 .. Len(M) /\ DOMAIN R = 1 .. Len(R)
  BY <1>1, <1>2, LenProperties
<1>4. \A i \in 1 .. n : ~IsAuthenticator(m[i])
  BY PartsAndOthers, ElementOfSeq
<1> HIDE DEF a, b, n, k
<1>5. ASSUME NEW i \in 1 .. Len(M), IsAuthenticator(M[i])
      PROVE  f(i) \in 1 .. Len(R) /\ R[f(i)] = M[i] /\ (i <= a \/ i > a + n)
  <2>1. CASE i <= a
    <3>1. i \in 1 .. a /\ i \in 1 .. Len(R)
      BY <1>1, <1>2, <2>1
    <3> QED BY <1>1, <1>2, <2>1, <3>1
  <2>2. CASE i > a /\ i <= a + n
    <3>1. i - a \in 1 .. n /\ a + (i - a) = i
      BY <1>1, <2>2
    <3>2. M[a + (i - a)] = m[i - a]
      BY <1>1, <3>1
    <3> QED BY <1>4, <1>5, <3>1, <3>2
  <2>3. CASE i > a + n
    <3> DEFINE j == i - (a + n)
    <3>1. j \in 1 .. b /\ a + n + j = i /\ a + k + j = (i - n) + k /\ ~(i <= a) /\ (i - n) + k \in 1 .. Len(R)
      BY <1>1, <1>2, <2>3
    <3> HIDE DEF j
    <3>2. M[a + n + j] = B[j] /\ R[a + k + j] = B[j]
      BY <1>1, <1>2, <3>1
    <3> QED BY <2>3, <3>1, <3>2
  <2>4. i \in Nat /\ (i <= a \/ (i > a /\ i <= a + n) \/ i > a + n)
    BY <1>1
  <2> HIDE DEF f
  <2> QED BY <2>1, <2>2, <2>3, <2>4
<1>6. ASSUME NEW i \in 1 .. Len(M), NEW j \in 1 .. Len(M), i <= a \/ i > a + n, j <= a \/ j > a + n, f(i) = f(j)
      PROVE  i = j
  <2>1. i \in Nat /\ j \in Nat /\ a \in Nat /\ n \in Nat /\ k \in Nat
    BY <1>1, <1>2
  <2>2. CASE i <= a /\ j <= a
    BY <1>6, <2>1, <2>2
  <2>3. CASE i <= a /\ j > a + n
    <3>1. f(i) = i /\ f(j) = (j - n) + k
      BY <2>1, <2>3
    <3> HIDE DEF f
    <3>2. i = (j - n) + k
      BY <1>6, <3>1
    <3> QED BY ONLY <2>1, <2>3, <3>2
  <2>4. CASE i > a + n /\ j <= a
    <3>1. f(j) = j /\ f(i) = (i - n) + k
      BY <2>1, <2>4
    <3> HIDE DEF f
    <3> QED BY <1>6, <2>1, <2>4, <3>1
  <2>5. CASE i > a + n /\ j > a + n
    <3>1. f(j) = (j - n) + k /\ f(i) = (i - n) + k
      BY <2>1, <2>5
    <3> HIDE DEF f
    <3> QED BY <1>6, <2>1, <3>1
  <2> HIDE DEF f
  <2> QED BY <1>6, <2>2, <2>3, <2>4, <2>5
<1>7. OneAuthenticator(M)
  <2> SUFFICES ASSUME NEW i \in 1 .. Len(M), NEW j \in 1 .. Len(M), IsAuthenticator(M[i]), IsAuthenticator(M[j])
               PROVE  i = j
    BY <1>3 DEF OneAuthenticator
  <2> HIDE DEF f
  <2>1. /\ f(i) \in 1 .. Len(R) /\ R[f(i)] = M[i] /\ (i <= a \/ i > a + n)
        /\ f(j) \in 1 .. Len(R) /\ R[f(j)] = M[j] /\ (j <= a \/ j > a + n)
    BY <1>5
  <2>2. f(i) = f(j)
    BY <1>00, <1>3, <2>1 DEF OneAuthenticator
  <2> QED BY <1>6, <2>1, <2>2
<1>8. \A i \in 1 .. Len(M) : IsAuthenticator(M[i]) => M[i].data = Digest
  <2> HIDE DEF f
  <2> QED BY <1>00, <1>5
<1> QED BY <1>1, <1>3, <1>7, <1>8 DEF Authentic

\* The conditions under which validate_packet accepts.
Valid(M, s) ==
    /\ Packed(M) = Hashed(Wire(Signed(s)))
    /\ Has(MessageAuthenticator, M) =>
        /\ M[First(MessageAuthenticator, M)].data = Digest
        /\ Packed(WithAuthenticator(M, Zeros)) = Hashed(Wire(s))

\* The parts joined at their place are split again into what was signed, so it is accepted.
LEMMA JoinedIsValid ==
    ASSUME NEW s \in Seq(Short), OneAuthenticator(s), Reset(s, Zeros) = s,
           NEW A \in Seq(Others), NEW m \in Seq(Parts), NEW E \in Seq(Parts), NEW B \in Seq(Others),
           Split(m) = E, Signed(s) = A \o (E \o B), NEW M, M = A \o (m \o B)
    PROVE  Valid(M, s)
<1> DEFINE R == Signed(s)
           k == First(MessageAuthenticator, M)
<1>1. s \in Seq(Attrs) /\ R = Reset(s, Digest) /\ R \in Seq(Attrs)
  BY SignedIs
<1>2. Authentic(R)
  BY <1>1, SignedAuthenticators DEF Authentic
<1>3. R = A \o (E \o B)
  OBVIOUS
<1> HIDE DEF R
<1>4. /\ M \in Seq(Attrs) /\ OneAuthenticator(M) /\ DOMAIN M = 1 .. Len(M)
      /\ \A i \in 1 .. Len(M) : IsAuthenticator(M[i]) => M[i].data = Digest
  <2>1. /\ A \in Seq(Others) /\ m \in Seq(Parts) /\ E \in Seq(Parts) /\ B \in Seq(Others)
        /\ IsThree(M, A, m, B) /\ IsThree(R, A, E, B) /\ Authentic(R)
    BY <1>2, <1>3 DEF IsThree
  <2>2. M \in Seq(Attrs) /\ Authentic(M) /\ DOMAIN M = 1 .. Len(M)
    BY ONLY <2>1, SameAuthenticators
  <2> QED BY <2>2 DEF Authentic
<1>5. Packed(M) = Hashed(Wire(R))
  <2>1. Split(M) = R
    BY <1>3, SplitOfThree
  <2> QED BY <1>1, <1>4, <2>1, SameBytes
<1>6. ASSUME Has(MessageAuthenticator, M) PROVE M[k].data = Digest
  <2>1. k \in DOMAIN M /\ IsAuthenticator(M[k])
    BY <1>4, <1>6, DigestsAreData, AuthenticatorIs
  <2> HIDE DEF k
  <2> QED BY <1>4, <2>1
<1>7. WithAuthenticator(M, Zeros) = Reset(M, Zeros) /\ Reset(M, Zeros) \in Seq(Attrs)
  BY <1>4, DigestsAreData, AuthenticatorIs, ResetIs
<1>8. Split(Reset(M, Zeros)) = s
  <2> DEFINE X == Reset(A, Zeros)
             Y == Reset(B, Zeros)
  <2>1. X \in Seq(Others) /\ Y \in Seq(Others)
    BY DigestsAreData, ResetOfOthers
  <2>2. Reset(M, Zeros) = X \o (m \o Y) /\ Reset(R, Zeros) = X \o (E \o Y)
    BY <1>3, DigestsAreData, ResetOfThree
  <2>3. Reset(R, Zeros) = s
    BY <1>1, DigestsAreData, ResetTwice
  <2> HIDE DEF X, Y
  <2>4. Split(X \o (m \o Y)) = X \o (Split(m) \o Y)
    BY <2>1, SplitOfThree
  <2> QED BY <2>2, <2>3, <2>4
<1>9. Packed(WithAuthenticator(M, Zeros)) = Hashed(Wire(s))
  BY <1>1, <1>7, <1>8, SameBytes
<1> QED BY <1>5, <1>6, <1>9 DEF Valid, R

\* The loop of extract_attributes on a packet that is well formed: what it has read (P) are
\* other attributes (A), the parts of an EAP-Message (E), which it remembers with their
\* position, and others (B).
IsJoined(A, E, B, P, tc, ix, la) ==
    /\ IsThree(P, A, E, B)
    /\ E = <<>> => B = <<>>
    /\ DOMAIN tc = 1 .. Len(E)
    /\ \A j \in 1 .. Len(E) : tc[j].data = E[j].data /\ tc[j].index = Len(A) + 1
    /\ ix = IF E = <<>> THEN Len(A) ELSE Len(A) + 1 + Len(B)
    /\ la = EAPMessage <=> E # <<>> /\ B = <<>>

\* There are such attributes.
Joined(P, tc, ix, la) ==
    \E A \in Seq(Others), E \in Seq(Parts), B \in Seq(Others) : IsJoined(A, E, B, P, tc, ix, la)

\* The parts of an EAP-Message follow each other.
Contiguous(r) ==
    \A i, j \in 1 .. Len(r) : r[i].type = EAPMessage /\ r[j].type = EAPMessage /\ i < j
        => \A k \in i .. j : r[k].type = EAPMessage

\* One more element goes to the last of three sequences.
LEMMA AppendToThree ==
    ASSUME NEW S, NEW x \in Seq(S), NEW y \in Seq(S), NEW z \in Seq(S), NEW e \in S, NEW c, IsThree(c, x, y, z)
    PROVE  IsThree(Append(c, e), x, y, Append(z, e))
<1>1. /\ y \o z \in Seq(S) /\ x \o (y \o z) \in Seq(S) /\ <<e>> \in Seq(S)
  BY ConcatProperties
<1>2. Append(x \o (y \o z), e) = (x \o (y \o z)) \o <<e>> /\ Append(z, e) = z \o <<e>>
  BY <1>1, AppendIsConcat
<1> DEFINE h == <<e>>
<1>3. h \in Seq(S)
  BY <1>1
<1> HIDE DEF h
<1>4. (x \o (y \o z)) \o h = x \o (y \o (z \o h))
  <2>1. Associates(S)
    BY Regroup
  <2>2. (y \o z) \o h = y \o (z \o h)
    BY <1>3, <2>1, Zenon DEF Associates
  <2>3. (x \o (y \o z)) \o h = x \o ((y \o z) \o h)
    <3> DEFINE w == y \o z
    <3>1. x \in Seq(S) /\ w \in Seq(S)
      BY <1>1
    <3> HIDE DEF w
    <3>2. (x \o w) \o h = x \o (w \o h)
      <4>1. \A v, q \in Seq(S) : (x \o v) \o q = x \o (v \o q)
        BY ONLY <2>1, <3>1, Zenon DEF Associates
      <4>2. \A q \in Seq(S) : (x \o w) \o q = x \o (w \o q)
        BY ONLY <3>1, <4>1, Zenon
      <4> QED BY ONLY <1>3, <4>2, Zenon
    <3> QED BY ONLY <3>2 DEF w
  <2> QED BY <2>2, <2>3, Zenon
<1>5. Append(c, e) = (x \o (y \o z)) \o h /\ Append(z, e) = z \o h
  BY <1>2 DEF IsThree, h
<1> QED BY <1>4, <1>5, Zenon DEF IsThree

\* Nothing follows.
LEMMA NothingAfter ==
    ASSUME NEW S, NEW x \in Seq(S)
    PROVE  x \o (<<>> \o <<>>) = x /\ x \o <<>> = x
<1>1. <<>> \o <<>> = <<>> /\ x \o <<>> = x
  <2>1. <<>> \in Seq(S)
    BY EmptySeq
  <2> QED BY <2>1, ConcatEmptySeq
<1> QED BY <1>1

\* Before the first turn nothing has been read.
LEMMA JoinNothing ==
    ASSUME NEW la, la # EAPMessage
    PROVE  Joined(<<>>, <<>>, 0, la)
<1>1. <<>> \in Seq(Others) /\ <<>> \in Seq(Parts) /\ Len(<<>>) = 0 /\ DOMAIN <<>> = 1 .. 0
  BY EmptySeq
<1>2. <<>> \o (<<>> \o <<>>) = <<>>
  BY <1>1, ConcatEmptySeq
<1>3. IsJoined(<<>>, <<>>, <<>>, <<>>, <<>>, 0, la)
  BY <1>1, <1>2 DEF IsJoined, IsThree
<1> QED BY <1>1, <1>3 DEF Joined

\* Another attribute that is not a part.
LEMMA JoinOther ==
    ASSUME NEW A \in Seq(Others), NEW E \in Seq(Parts), NEW B \in Seq(Others),
           NEW P, NEW tc, NEW ix, NEW la, IsJoined(A, E, B, P, tc, ix, la), NEW a \in Others
    PROVE  Joined(Append(P, a), tc, ix + 1, a.type)
<1>1. /\ A \in Seq(Attrs) /\ E \in Seq(Attrs) /\ B \in Seq(Attrs) /\ a \in Attrs /\ a.type # EAPMessage
      /\ Len(A) \in Nat /\ Len(B) \in Nat
  BY PartsAndOthers, LenProperties
<1>2. IsThree(Append(P, a), A, E, Append(B, a)) /\ Append(B, a) # <<>> /\ Append(B, a) \in Seq(Others)
      /\ Len(Append(B, a)) = Len(B) + 1 /\ Append(A, a) \in Seq(Others) /\ Len(Append(A, a)) = Len(A) + 1
  <2>1. IsThree(P, A, E, B)
    BY DEF IsJoined
  <2>2. IsThree(Append(P, a), A, E, Append(B, a))
    BY ONLY <1>1, <2>1, AppendToThree
  <2>3. \A r \in Seq(Others) : Append(r, a) \in Seq(Others) /\ Len(Append(r, a)) = Len(r) + 1 /\ Append(r, a) # <<>>
    BY AppendProperties
  <2> QED BY <2>1, <2>2, <2>3
<1>3. CASE E = <<>>
  <2>1. B = <<>> /\ ix = Len(A) /\ Len(E) = 0
    BY <1>3, EmptySeq DEF IsJoined
  <2>2. P = A
    <3>1. P = A \o (<<>> \o <<>>)
      BY <1>3, <2>1 DEF IsJoined, IsThree
    <3>2. A \o (<<>> \o <<>>) = A
      BY <1>1, NothingAfter
    <3> QED BY <3>1, <3>2
  <2>3. Append(A, a) = Append(A, a) \o (<<>> \o <<>>)
    <3> DEFINE q == Append(A, a)
    <3>1. q \in Seq(Others) /\ a \in Others
      BY <1>2
    <3> HIDE DEF q
    <3>2. q \o (<<>> \o <<>>) = q
      BY ONLY <3>1, NothingAfter
    <3> QED BY <3>2 DEF q
  <2>4. DOMAIN tc = 1 .. Len(E)
    BY DEF IsJoined
  <2>5. IsJoined(Append(A, a), E, <<>>, Append(P, a), tc, ix + 1, a.type)
    BY <1>1, <1>2, <1>3, <2>1, <2>2, <2>3, <2>4 DEF IsJoined, IsThree
  <2> QED BY <1>2, <2>5, EmptySeq DEF Joined
<1>4. CASE E # <<>>
  <2>1. IsJoined(A, E, Append(B, a), Append(P, a), tc, ix + 1, a.type)
    <3>1. ix = Len(A) + 1 + Len(B)
      BY <1>4 DEF IsJoined
    <3>2. ix + 1 = Len(A) + 1 + (Len(B) + 1)
      BY <1>1, <3>1
    <3> QED BY <1>1, <1>2, <1>4, <3>2 DEF IsJoined, IsThree
  <2> QED BY <1>2, <2>1 DEF Joined
<1> QED BY <1>3, <1>4

\* Another part: nothing has come after the parts before it.
LEMMA JoinPart ==
    ASSUME NEW A \in Seq(Others), NEW E \in Seq(Parts), NEW B \in Seq(Others), B = <<>>,
           NEW P, NEW tc \in Seq(Piece), NEW ix, NEW la, IsJoined(A, E, B, P, tc, ix, la),
           NEW e \in Parts,
           NEW new, la # EAPMessage => new = ix + 1, la = EAPMessage => new = ix,
           NEW p, p = [data |-> e.data, index |-> new]
    PROVE  Joined(Append(P, e), Append(tc, p), new, EAPMessage)
<1> DEFINE F == Append(E, e)
           tc2 == Append(tc, p)
<1>1. /\ A \in Seq(Attrs) /\ E \in Seq(Attrs) /\ B \in Seq(Attrs) /\ e \in Attrs /\ e.data \in Seq(Octet)
      /\ Len(A) \in Nat /\ Len(E) \in Nat /\ Len(B) = 0
  <2>1. \A x \in Parts : x.data \in Seq(Octet)
    BY DEF Parts, Attrs
  <2> QED BY <2>1, PartsAndOthers, LenProperties, EmptySeq
<1>2. new = Len(A) + 1
  BY <1>1 DEF IsJoined
<1>3. p \in Piece /\ p.data = e.data /\ p.index = Len(A) + 1
  BY <1>1, <1>2 DEF Piece
<1>4. /\ F \in Seq(Parts) /\ Len(F) = Len(E) + 1 /\ F # <<>>
      /\ (\A j \in 1 .. Len(E) : F[j] = E[j]) /\ F[Len(E) + 1] = e
  BY AppendProperties
<1>5. Len(tc) = Len(E) /\ \A j \in 1 .. Len(E) : tc[j].data = E[j].data /\ tc[j].index = Len(A) + 1
  <2>1. DOMAIN tc = 1 .. Len(tc) /\ Len(tc) \in Nat
    BY LenProperties
  <2>2. DOMAIN tc = 1 .. Len(E)
    BY DEF IsJoined
  <2>3. Len(tc) = Len(E)
    BY <1>1, <2>1, <2>2
  <2> QED BY <2>3 DEF IsJoined
<1>6. /\ tc2 \in Seq(Piece) /\ Len(tc2) = Len(E) + 1
      /\ (\A j \in 1 .. Len(E) : tc2[j] = tc[j]) /\ tc2[Len(E) + 1] = p
  BY <1>3, <1>5, AppendProperties
<1>7. DOMAIN tc2 = 1 .. Len(F)
  BY <1>4, <1>6, LenProperties
<1>8. Append(P, e) = A \o (F \o B)
  <2>1. P = A \o (E \o <<>>)
    BY DEF IsJoined, IsThree
  <2>2. E \o <<>> = E
    BY <1>1, NothingAfter
  <2>3. Append(A \o E, e) = A \o F
    <3> DEFINE h == <<e>>
    <3>1. h \in Seq(Attrs)
      BY <1>1
    <3>2. A \o E \in Seq(Attrs)
      BY <1>1, ConcatProperties
    <3>3. Append(A \o E, e) = (A \o E) \o h /\ F = E \o h
      BY <1>1, <3>2, AppendIsConcat
    <3> HIDE DEF h, F
    <3>4. (A \o E) \o h = A \o (E \o h)
      <4>1. A \in Seq(Attrs) /\ E \in Seq(Attrs) /\ h \in Seq(Attrs)
        BY <1>1, <3>1
      <4>2. Associates(Attrs)
        BY Regroup
      <4> QED BY ONLY <4>1, <4>2, Zenon DEF Associates
    <3> QED BY <3>3, <3>4
  <2>4. F \o <<>> = F
    <3> HIDE DEF F
    <3> QED BY <1>4, ConcatEmptySeq
  <2> QED BY <2>1, <2>2, <2>3, <2>4
<1> HIDE DEF F, tc2
<1>9. ASSUME NEW j \in 1 .. Len(F) PROVE tc2[j].data = F[j].data /\ tc2[j].index = Len(A) + 1
  <2>1. CASE j = Len(E) + 1
    BY <1>3, <1>4, <1>6, <2>1
  <2>2. CASE j # Len(E) + 1
    <3>1. j \in 1 .. Len(E)
      BY <1>1, <1>4, <2>2
    <3> QED BY <1>4, <1>5, <1>6, <3>1
  <2> QED BY <2>1, <2>2
<1>10. new = Len(A) + 1 + Len(B)
  BY <1>1, <1>2
<1>11. IsJoined(A, F, B, Append(P, e), tc2, new, EAPMessage)
  BY <1>4, <1>7, <1>8, <1>9, <1>10 DEF IsJoined, IsThree
<1>12. Joined(Append(P, e), tc2, new, EAPMessage)
  BY <1>4, <1>11 DEF Joined
<1> QED BY <1>12 DEF tc2

\* A part after something else after parts would not be well formed.
LEMMA NothingAfterParts ==
    ASSUME NEW A \in Seq(Others), NEW E \in Seq(Parts), NEW B \in Seq(Others), E = <<>> => B = <<>>,
           NEW P, IsThree(P, A, E, B),
           NEW R, Contiguous(R), NEW rest \in Seq(Attrs), R = P \o rest, rest # <<>>, rest[1].type = EAPMessage
    PROVE  B = <<>>
<1> SUFFICES ASSUME B # <<>>, E # <<>> PROVE FALSE
  OBVIOUS
<1> DEFINE a == Len(A)
           k == Len(E)
           b == Len(B)
<1>1. A \in Seq(Attrs) /\ E \in Seq(Attrs) /\ B \in Seq(Attrs)
  BY PartsAndOthers
<1>2. /\ P \in Seq(Attrs) /\ Len(P) = a + k + b /\ a \in Nat
      /\ \A i \in 1 .. k : P[a + i] = E[i]
      /\ \A i \in 1 .. b : P[a + k + i] = B[i]
  BY <1>1, PartsOfThree
<1>3. k \in Nat \ {0} /\ b \in Nat \ {0} /\ Len(rest) \in Nat \ {0}
  BY EmptySeq
<1>4. E[1].type = EAPMessage /\ B[1].type # EAPMessage
  <2>1. 1 \in 1 .. k /\ 1 \in 1 .. b
    BY <1>3
  <2>2. E[1] \in Parts /\ B[1] \in Others
    BY <2>1, ElementOfSeq
  <2> QED BY <2>2, PartsAndOthers
<1> HIDE DEF a, k, b
<1>5. /\ Len(R) = Len(P) + Len(rest)
      /\ \A i \in 1 .. Len(P) + Len(rest) : R[i] = IF i <= Len(P) THEN P[i] ELSE rest[i - Len(P)]
  <2>1. P \in Seq(Attrs) /\ rest \in Seq(Attrs)
    BY <1>2
  <2>2. /\ Len(P \o rest) = Len(P) + Len(rest)
        /\ \A i \in 1 .. Len(P) + Len(rest) : (P \o rest)[i] = IF i <= Len(P) THEN P[i] ELSE rest[i - Len(P)]
    BY ONLY <2>1, ConcatProperties
  <2> QED BY <2>2
<1> DEFINE i == a + 1
           j == Len(P) + 1
           m == a + k + 1
<1>6. /\ i \in 1 .. Len(P) + Len(rest) /\ j \in 1 .. Len(P) + Len(rest) /\ m \in 1 .. Len(P) + Len(rest)
      /\ i <= Len(P) /\ ~(j <= Len(P)) /\ m <= Len(P) /\ j - Len(P) = 1 /\ i < j /\ m \in i .. j
  BY <1>2, <1>3
<1>7. R[i] = E[1] /\ R[m] = B[1] /\ R[j] = rest[1]
  <2>1. 1 \in 1 .. k /\ 1 \in 1 .. b
    BY <1>3
  <2>2. P[i] = E[1] /\ P[m] = B[1]
    BY <1>2, <2>1
  <2> HIDE DEF i, j, m
  <2>3. R[i] = P[i] /\ R[m] = P[m] /\ R[j] = rest[j - Len(P)]
    BY <1>5, <1>6
  <2> QED BY <1>6, <2>2, <2>3
<1> HIDE DEF i, j, m
<1>8. R[i].type = EAPMessage /\ R[j].type = EAPMessage /\ R[m].type # EAPMessage
  BY <1>4, <1>7
<1>9. i \in 1 .. Len(R) /\ j \in 1 .. Len(R) /\ i < j /\ m \in i .. j
  BY <1>5, <1>6
<1>10. R[m].type = EAPMessage
  BY <1>8, <1>9 DEF Contiguous
<1> QED BY <1>8, <1>10

\* The AVPs of a response that is well formed.
FullAvps(r) ==
    /\ \A i \in 1 .. Len(r) : Len(r[i].data) \in 1 .. MaxDataLength
    /\ \A i, j \in 1 .. Len(r) : r[i].type = EAPMessage /\ r[j].type = EAPMessage /\ i < j
        => Len(r[i].data) = MaxDataLength

\* Signing leaves the parts where they are.
LEMMA SignedIsWellFormed ==
    ASSUME NEW s \in Seq(Short), OneAuthenticator(s), WellFormed(s), NEW r, r = Signed(s)
    PROVE  r \in Seq(Attrs) /\ Contiguous(r) /\ FullAvps(r)
<1> DEFINE n == Len(r)
<1>1. s \in Seq(Attrs) /\ r = Reset(s, Digest) /\ r \in Seq(Attrs)
  BY SignedIs
<1>2. Len(s) = n /\ DOMAIN s = 1 .. n /\ n \in Nat /\ \A i \in 1 .. n : r[i] = ResetOf(s[i], Digest)
  BY <1>1, DigestsAreData, ResetIs, LenProperties
<1> HIDE DEF n
<1>3. \A i \in 1 .. n : r[i].type = s[i].type
  BY <1>2 DEF ResetOf, IsAuthenticator, Attribute
<1>4. ASSUME NEW i \in 1 .. n PROVE Len(r[i].data) \in 1 .. MaxDataLength
  <2>1. s[i] \in Short /\ s[i].data # <<>>
    <3>1. s[i] \in Short
      BY <1>2, ElementOfSeq
    <3>2. s[i].data # <<>>
      BY <1>2 DEF WellFormed
    <3> QED BY <3>1, <3>2
  <2>2. Len(s[i].data) \in 1 .. MaxDataLength
    <3>1. \A x \in Short : x.data \in Seq(Octet) /\ Len(x.data) <= MaxDataLength
      BY DEF Short, Attrs
    <3>2. \A d \in Seq(Octet) : d # <<>> => Len(d) \in Nat \ {0}
      BY EmptySeq
    <3> DEFINE d == s[i].data
    <3>3. d \in Seq(Octet) /\ d # <<>> /\ Len(d) <= MaxDataLength
      BY <2>1, <3>1
    <3> HIDE DEF d
    <3>4. Len(d) \in Nat \ {0} /\ Len(d) <= MaxDataLength /\ MaxDataLength \in Nat
      BY <3>2, <3>3, DigestLengthIs
    <3>5. Len(d) \in 1 .. MaxDataLength
      BY ONLY <3>4
    <3> QED BY <3>5 DEF d
  <2>3. CASE IsAuthenticator(s[i])
    <3>1. r[i].data = Digest
      BY <1>2, <2>3 DEF ResetOf, Attribute
    <3> QED BY <3>1, DigestsAreData, DigestLengthIs
  <2>4. CASE ~IsAuthenticator(s[i])
    BY <1>2, <2>2, <2>4 DEF ResetOf
  <2> QED BY <2>3, <2>4
<1>5. ASSUME NEW i \in 1 .. n, NEW j \in 1 .. n, s[i].type = EAPMessage, s[j].type = EAPMessage, i < j
      PROVE  (\A k \in i .. j : s[k].type = EAPMessage) /\ Len(s[i].data) = MaxDataLength
  <2> DEFINE eap == {k \in DOMAIN s : s[k].type = EAPMessage}
  <2>1. \A k, l \in eap : k < l => (\A m \in k .. l : m \in eap) /\ Len(s[k].data) = MaxDataLength
    BY DEF WellFormed
  <2>2. i \in eap /\ j \in eap
    BY <1>2, <1>5
  <2>3. (\A m \in i .. j : m \in eap) /\ Len(s[i].data) = MaxDataLength
    <3> HIDE DEF eap
    <3> QED BY <1>5, <2>1, <2>2
  <2> QED BY <2>3
<1>6. ASSUME NEW i \in 1 .. n, s[i].type = EAPMessage PROVE r[i].data = s[i].data
  BY <1>2, <1>6 DEF ResetOf, IsAuthenticator, EAPMessage, MessageAuthenticator
<1>7. Contiguous(r)
  <2> SUFFICES ASSUME NEW i \in 1 .. n, NEW j \in 1 .. n, r[i].type = EAPMessage, r[j].type = EAPMessage, i < j,
                      NEW k \in i .. j
               PROVE  r[k].type = EAPMessage
    BY DEF Contiguous, n
  <2>1. k \in 1 .. n
    BY <1>2
  <2>2. s[k].type = EAPMessage
    BY <1>3, <1>5
  <2> QED BY <1>3, <2>1, <2>2
<1>8. FullAvps(r)
  <2>1. ASSUME NEW i \in 1 .. n, NEW j \in 1 .. n, r[i].type = EAPMessage, r[j].type = EAPMessage, i < j
        PROVE  Len(r[i].data) = MaxDataLength
    BY <1>3, <1>5, <1>6, <2>1
  <2> QED BY <1>4, <2>1 DEF FullAvps, n
<1> QED BY <1>1, <1>7, <1>8

\* What a turn of the loop does: the next attribute of R, its position and the parts.
IsStart(P, rest, R) == R = P \o rest
IsPosition(new, a, ix, la) == new = IF a.type # EAPMessage \/ la # a.type THEN ix + 1 ELSE ix
ArePieces(tc2, tc, a, new) ==
    tc2 = IF a.type # EAPMessage THEN tc ELSE Append(tc, [data |-> a.data, index |-> new])

\* One more turn of the loop.
LEMMA JoinStep ==
    ASSUME NEW P, NEW tc \in Seq(Piece), NEW ix, NEW la, Joined(P, tc, ix, la),
           NEW R, Contiguous(R), NEW rest \in Seq(Attrs), IsStart(P, rest, R), rest # <<>>,
           NEW a \in Attrs, a = rest[1],
           NEW new, IsPosition(new, a, ix, la),
           NEW tc2, ArePieces(tc2, tc, a, new)
    PROVE  Joined(Append(P, a), tc2, new, a.type)
<1>1. PICK A \in Seq(Others), E \in Seq(Parts), B \in Seq(Others) : IsJoined(A, E, B, P, tc, ix, la)
  BY DEF Joined
<1>2. CASE a.type # EAPMessage
  <2>1. a \in Others /\ new = ix + 1 /\ tc2 = tc
    BY <1>2 DEF Others, IsPosition, ArePieces
  <2> QED BY <1>1, <2>1, JoinOther
<1>3. CASE a.type = EAPMessage
  <2> DEFINE p == [data |-> a.data, index |-> new]
  <2>1. a \in Parts /\ new = (IF la # EAPMessage THEN ix + 1 ELSE ix) /\ tc2 = Append(tc, p)
    BY <1>3 DEF Parts, IsPosition, ArePieces
  <2>5. p = [data |-> a.data, index |-> new]
    OBVIOUS
  <2> HIDE DEF p
  <2>2. (E = <<>> => B = <<>>) /\ IsThree(P, A, E, B)
    BY <1>1 DEF IsJoined
  <2>3. B = <<>>
    BY <1>3, <2>2, NothingAfterParts DEF IsStart
  <2>4. Joined(Append(P, a), Append(tc, p), new, EAPMessage)
    <3>1. /\ A \in Seq(Others) /\ E \in Seq(Parts) /\ B \in Seq(Others) /\ B = <<>> /\ tc \in Seq(Piece)
          /\ IsJoined(A, E, B, P, tc, ix, la) /\ a \in Parts
          /\ (la # EAPMessage => new = ix + 1) /\ (la = EAPMessage => new = ix)
          /\ p = [data |-> a.data, index |-> new]
      BY <1>1, <2>1, <2>3, <2>5
    <3> QED BY ONLY <3>1, JoinPart
  <2> QED BY <1>3, <2>1, <2>4
<1> QED BY <1>2, <1>3

\* What merge_concat_attributes makes of it.
LEMMA PartsAreFull ==
    ASSUME NEW A \in Seq(Others), NEW E \in Seq(Parts), NEW B \in Seq(Others), E # <<>>,
           NEW R, IsThree(R, A, E, B), FullAvps(R)
    PROVE  FullParts(E)
<1> DEFINE a == Len(A)
           k == Len(E)
<1>1. A \in Seq(Attrs) /\ E \in Seq(Attrs) /\ B \in Seq(Attrs)
  BY PartsAndOthers
<1>2. /\ Len(R) = a + k + Len(B) /\ a \in Nat /\ k \in Nat /\ Len(B) \in Nat
      /\ \A i \in 1 .. k : R[a + i] = E[i]
  <2>1. A \in Seq(Attrs) /\ E \in Seq(Attrs) /\ B \in Seq(Attrs) /\ IsThree(R, A, E, B)
    BY <1>1
  <2>2. /\ Len(R) = Len(A) + Len(E) + Len(B) /\ Len(A) \in Nat /\ Len(E) \in Nat /\ Len(B) \in Nat
        /\ \A i \in 1 .. Len(E) : R[Len(A) + i] = E[i]
    <3>1. /\ R \in Seq(Attrs) /\ Len(R) = Len(A) + Len(E) + Len(B)
          /\ Len(A) \in Nat /\ Len(E) \in Nat /\ Len(B) \in Nat
          /\ \A i \in 1 .. Len(A) : R[i] = A[i]
          /\ \A i \in 1 .. Len(E) : R[Len(A) + i] = E[i]
          /\ \A i \in 1 .. Len(B) : R[Len(A) + Len(E) + i] = B[i]
      BY ONLY <2>1, PartsOfThree
    <3> QED BY ONLY <3>1, Zenon
  <2> QED BY <2>2
<1>3. \A i \in 1 .. k : E[i].type = EAPMessage
  BY PartsAndOthers, ElementOfSeq
<1> HIDE DEF a, k
<1>4. ASSUME NEW i \in 1 .. k PROVE Len(E[i].data) \in 1 .. MaxDataLength
  <2>1. a + i \in 1 .. Len(R)
    BY <1>2
  <2>2. Len(R[a + i].data) \in 1 .. MaxDataLength
    BY <2>1 DEF FullAvps
  <2> QED BY <1>2, <2>2
<1>5. ASSUME NEW i \in 1 .. k - 1 PROVE Len(E[i].data) = MaxDataLength
  <2> DEFINE x == a + i
             y == a + k
  <2>1. i \in 1 .. k /\ k \in 1 .. k /\ x \in 1 .. Len(R) /\ y \in 1 .. Len(R) /\ x < y
    BY <1>2
  <2>2. R[x] = E[i] /\ R[y] = E[k]
    BY <1>2, <2>1
  <2> HIDE DEF x, y
  <2>3. R[x].type = EAPMessage /\ R[y].type = EAPMessage
    BY <1>3, <2>1, <2>2
  <2>4. Len(R[x].data) = MaxDataLength
    BY <2>1, <2>3 DEF FullAvps
  <2> QED BY <2>2, <2>4
<1> QED BY <1>4, <1>5 DEF FullParts, k

\* Insertion between two sequences.
LEMMA InsertBetween ==
    ASSUME NEW S, NEW A \in Seq(S), NEW B \in Seq(S), NEW e \in S, NEW i, i = Len(A) + 1
    PROVE  IsThree(InsertAt(A \o B, i, e), A, <<e>>, B)
<1> DEFINE c == A \o B
           h == <<e>>
           lo == Len(A)
           hi == Len(c)
<1>1. <<>> \in Seq(S) /\ Len(<<>>) = 0 /\ h \in Seq(S) /\ lo \in Nat /\ Len(B) \in Nat
  BY EmptySeq, LenProperties
<1>2. c \in Seq(S) /\ Len(c) = Len(A) + Len(B)
  BY ConcatProperties
<1> HIDE DEF h
<1>3. SubSeq(c, 1, i - 1) = A
  <2> DEFINE z == 0
  <2>1. c = <<>> \o (A \o B)
    BY <1>2, ConcatEmptySeq
  <2>2. z \in Nat /\ z = Len(<<>>) /\ lo = Len(<<>>) + Len(A)
    BY <1>1
  <2> HIDE DEF c, lo, z
  <2>3. SubSeq(c, z + 1, lo) = A
    BY <1>1, <2>1, <2>2, MiddleOf
  <2> QED BY <1>1, <2>3 DEF z, lo
<1>4. SubSeq(c, i, hi) = B
  <2>1. c = A \o (B \o <<>>)
    BY <1>1, ConcatEmptySeq
  <2>2. lo = Len(A) /\ hi = Len(A) + Len(B) /\ hi \in Nat /\ lo \in Nat
    BY <1>1, <1>2
  <2> HIDE DEF c, lo, hi
  <2>3. SubSeq(c, lo + 1, hi) = B
    BY <1>1, <2>1, <2>2, MiddleOf
  <2> QED BY <2>3 DEF lo
<1>5. InsertAt(c, i, e) = (A \o h) \o B
  <2> HIDE DEF c
  <2> QED BY <1>3, <1>4 DEF InsertAt, h, hi
<1>6. (A \o h) \o B = A \o (h \o B)
  <2>1. Associates(S)
    BY Regroup
  <2> QED BY <1>1, <2>1, Zenon DEF Associates
<1> QED BY <1>5, <1>6 DEF IsThree, h

\* The parts that are remembered have the value of the EAP-Message.
LEMMA PiecesAreTheValue ==
    ASSUME NEW E \in Seq(Parts), NEW tc \in Seq(Piece), DOMAIN tc = 1 .. Len(E),
           \A j \in 1 .. Len(E) : tc[j].data = E[j].data
    PROVE  Flat(DataOf, tc) = Value(EAPMessage, E)
<1>1. DOMAIN E = 1 .. Len(E) /\ DOMAIN tc = DOMAIN E
  BY LenProperties
<1>2. \A j \in DOMAIN E : E[j] \in Parts /\ tc[j] \in Piece
  BY <1>1, LenProperties, ElementOfSeq
<1>3. \A j \in DOMAIN E : DataOf[tc[j]] = ValueOf(EAPMessage)[E[j]]
  <2>1. \A a \in Parts : ValueOf(EAPMessage)[a] = a.data
    BY DEF ValueOf, Parts
  <2>2. \A p \in Piece : DataOf[p] = p.data
    BY DEF DataOf
  <2> QED BY <1>1, <1>2, <2>1, <2>2
<1>4. [j \in DOMAIN tc |-> DataOf[tc[j]]] = [j \in DOMAIN E |-> ValueOf(EAPMessage)[E[j]]]
  BY <1>1, <1>3
<1> QED BY <1>4 DEF Flat, Value

\* Without the parts the others are left, in their order.
LEMMA OthersOfThree ==
    ASSUME NEW A \in Seq(Others), NEW E \in Seq(Parts), NEW B \in Seq(Others), NEW c, IsThree(c, A, E, B)
    PROVE  Flat(OtherOf, c) = A \o B
<1>1. A \in Seq(Attrs) /\ E \in Seq(Attrs) /\ B \in Seq(Attrs)
  BY PartsAndOthers
<1>2. OtherOf \in Maps(Attrs, Others) /\ Others \subseteq Attrs \cap Others /\ Parts \subseteq Attrs
  BY MapsOfPieces, PartsAndOthers
<1>3. (\A a \in Others : OtherOf[a] = <<a>>) /\ (\A a \in Parts : OtherOf[a] = <<>>)
  BY PartsAndOthers DEF OtherOf
<1>4. Flat(OtherOf, A) = A /\ Flat(OtherOf, B) = B
  BY <1>2, <1>3, FlatOfKept
<1>5. Flat(OtherOf, E) = <<>>
  BY <1>2, <1>3, FlatOfDropped
<1>6. E \o B \in Seq(Attrs)
  BY <1>1, ConcatProperties
<1>7. \A r, q \in Seq(Attrs) : Flat(OtherOf, r \o q) = Flat(OtherOf, r) \o Flat(OtherOf, q)
  BY ONLY <1>2, FlatOfBoth
<1>8. Flat(OtherOf, A \o (E \o B)) = Flat(OtherOf, A) \o Flat(OtherOf, E \o B)
  BY ONLY <1>1, <1>6, <1>7, Zenon
<1>9. Flat(OtherOf, E \o B) = Flat(OtherOf, E) \o Flat(OtherOf, B)
  BY ONLY <1>1, <1>7, Zenon
<1>10. <<>> \o B = B
  BY ConcatEmptySeq
<1>11. Flat(OtherOf, A \o (E \o B)) = A \o B
  BY ONLY <1>4, <1>5, <1>8, <1>9, <1>10, Zenon
<1> QED BY <1>11, Zenon DEF IsThree

\* What is validated after a response that is well formed has been read.
LEMMA MergedIsValid ==
    ASSUME attributes \in Seq(Attrs), toConcat \in Seq(Piece), Joined(attributes, toConcat, index, last),
           NEW s \in Seq(Short), OneAuthenticator(s), Reset(s, Zeros) = s, WellFormed(s),
           attributes = Signed(s),
           NEW M, M = IF toConcat = <<>> THEN attributes ELSE Merged
    PROVE  Valid(M, s)
<1>1. PICK A \in Seq(Others), E \in Seq(Parts), B \in Seq(Others) :
          IsJoined(A, E, B, attributes, toConcat, index, last)
  BY DEF Joined
<1>2. /\ IsThree(attributes, A, E, B) /\ (E = <<>> => B = <<>>) /\ DOMAIN toConcat = 1 .. Len(E)
      /\ \A j \in 1 .. Len(E) : toConcat[j].data = E[j].data /\ toConcat[j].index = Len(A) + 1
  BY <1>1 DEF IsJoined
<1>3. Len(toConcat) = Len(E) /\ Len(E) \in Nat
  <2>1. DOMAIN toConcat = 1 .. Len(toConcat) /\ Len(toConcat) \in Nat /\ Len(E) \in Nat
    BY LenProperties
  <2> QED BY <1>2, <2>1
<1>4. ASSUME NEW m \in Seq(Parts), Split(m) = E, IsThree(M, A, m, B)
      PROVE  Valid(M, s)
  <2>1. Signed(s) = A \o (E \o B) /\ M = A \o (m \o B)
    BY <1>2, <1>4 DEF IsThree
  <2> QED BY <1>4, <2>1, JoinedIsValid
<1>5. CASE E = <<>>
  <2>1. toConcat = <<>>
    BY <1>3, <1>5, EmptySeq
  <2>2. Split(<<>>) = <<>>
    BY FlatOfNone DEF Split
  <2>3. IsThree(M, A, E, B)
    BY <1>2, <2>1
  <2> QED BY <1>4, <1>5, <2>2, <2>3
<1>6. CASE E # <<>>
  <2> DEFINE v == Value(EAPMessage, E)
             e == Attribute(EAPMessage, v)
             m == <<e>>
             n == Len(A)
  <2>1. toConcat # <<>> /\ Len(E) \in 1 .. Len(E) /\ M = Merged
    <3>1. Len(E) \in Nat \ {0}
      BY <1>6, EmptySeq
    <3>2. toConcat # <<>>
      BY <1>3, <3>1, EmptySeq
    <3> QED BY <3>1, <3>2
  <2>2. FullParts(E)
    <3>1. FullAvps(attributes)
      BY SignedIsWellFormed
    <3> QED BY <1>2, <1>6, <3>1, PartsAreFull
  <2>3. e \in Parts /\ SplitOf[e] = E
    BY <2>2, PartsAreRestored
  <2>4. m \in Seq(Parts) /\ Split(m) = E
    <3> HIDE DEF e
    <3>1. m \in Seq(Parts) /\ e \in Attrs
      BY <2>3, PartsAndOthers
    <3>2. Flat(SplitOf, <<e>>) = SplitOf[e]
      BY <3>1, MapsOfAttributes, FlatOfOne
    <3> QED BY <2>3, <3>1, <3>2 DEF Split
  <2>5. Flat(OtherOf, attributes) = A \o B /\ Flat(DataOf, toConcat) = v
    <3>1. Flat(OtherOf, attributes) = A \o B
      BY <1>2, OthersOfThree
    <3>2. E \in Seq(Parts) /\ toConcat \in Seq(Piece)
      OBVIOUS
    <3>3. Flat(DataOf, toConcat) = Value(EAPMessage, E)
      BY ONLY <1>2, <3>2, PiecesAreTheValue
    <3> QED BY <3>1, <3>3
  <2>6. Merged = InsertAt(A \o B, Min2(Last(toConcat).index, Len(A \o B) + 1), e)
    BY <2>5, MergedIs
  <2>7. Min2(Last(toConcat).index, Len(A \o B) + 1) = n + 1
    <3>1. Last(toConcat).index = n + 1
      BY <1>2, <1>3, <2>1 DEF Last
    <3>2. Len(A \o B) = n + Len(B) /\ n \in Nat /\ Len(B) \in Nat
      BY ConcatProperties, LenProperties
    <3> HIDE DEF n
    <3> QED BY <3>1, <3>2 DEF Min2
  <2>8. IsThree(InsertAt(A \o B, n + 1, e), A, m, B)
    <3> DEFINE i == n + 1
    <3>1. A \in Seq(Attrs) /\ B \in Seq(Attrs) /\ e \in Attrs /\ i = Len(A) + 1
      BY <2>3, PartsAndOthers
    <3> HIDE DEF e, i
    <3>2. IsThree(InsertAt(A \o B, i, e), A, <<e>>, B)
      BY ONLY <3>1, InsertBetween
    <3> QED BY <3>2 DEF i
  <2> HIDE DEF e, v, m, n
  <2>9. IsThree(M, A, m, B)
    BY <2>1, <2>6, <2>7, <2>8
  <2> QED BY <1>4, <2>4, <2>9
<1> QED BY <1>5, <1>6

-----------------------------------------------------------------------------
(* The second invariant. *)

\* A response that arrives as a server sends it, with attributes of known types.
Intact == bytes = Wire(Signed(sent)) /\ WellFormed(sent) /\ Known(sent)

\* While it is read it has the form that the loop relies on; joined, it is accepted.
CodecComplete ==
    /\ phase \in {"extract", "validate"} => Reset(sent, Zeros) = sent
    /\ phase = "extract" /\ Intact => Joined(attributes, toConcat, index, last)
    /\ phase = "validate" /\ Intact => Valid(attributes, sent)
    /\ IntactIsAccepted

\* What is left to read of an intact packet.
LEMMA RestOfIntact ==
    ASSUME CodecInv, phase = "extract", Intact
    PROVE  \E rest \in Seq(Attrs) :
              /\ bytes = Wire(attributes \o rest) /\ pos = Len(Wire(attributes))
              /\ attributes \o rest = Signed(sent) /\ attributes \o rest \in Seq(Attrs)
<1>1. PICK rest \in Seq(Attrs) : bytes = Wire(attributes \o rest) /\ pos = Len(Wire(attributes))
  BY DEF CodecInv, PartlyRead
<1>2. attributes \in Seq(Attrs) /\ Signed(sent) \in Seq(Attrs)
  BY SignedIs DEF CodecInv, PacketTypes
<1> DEFINE x == attributes \o rest
           y == Signed(sent)
<1>3. x \in Seq(Attrs) /\ y \in Seq(Attrs) /\ Wire(x) = Wire(y)
  BY <1>1, <1>2, ConcatProperties DEF Intact
<1> HIDE DEF x, y
<1>4. x = y
  BY <1>3, WireIsInjective
<1> QED BY <1>1, <1>3, <1>4 DEF x, y

\* Responses are sent with zeros in their Message-Authenticator.
LEMMA ResponsesHaveZeros ==
    ASSUME NEW r \in ServerResponse
    PROVE  Reset(r, Zeros) = r
<1>1. r \in Seq(Attrs) /\ \A i \in 1 .. Len(r) : r[i] \in ResponseAvp
  BY ResponsesAreShort, ShortIs
<1>2. \A a \in ResponseAvp : ResetOf(a, Zeros) = a
  BY DEF ResponseAvp, ResetOf, IsAuthenticator, Attribute, EAPMessage, MessageAuthenticator, TunnelPrivateGroupID, Class
<1>3. /\ Reset(r, Zeros) \in Seq(Attrs) /\ Len(Reset(r, Zeros)) = Len(r)
      /\ \A i \in 1 .. Len(r) : Reset(r, Zeros)[i] = ResetOf(r[i], Zeros)
  BY <1>1, DigestsAreData, ResetIs
<1>4. \A i \in 1 .. Len(r) : Reset(r, Zeros)[i] = r[i]
  BY <1>1, <1>2, <1>3
<1> QED BY <1>1, <1>3, <1>4, SeqEqual

\* It holds in the beginning.
LEMMA CompleteInit == PacketInit => CodecComplete
BY DEF PacketInit, CodecComplete, IntactIsAccepted

\* What a server sends has zeros where its digest goes (Receive).
LEMMA CompleteReceive ==
    ASSUME CodecInv, CodecComplete, Receive
    PROVE  CodecComplete'
<1>1. sent' \in ServerResponse /\ phase = "idle" /\ phase' = "extract"
  BY DEF Receive
<1>2. attributes' = <<>> /\ toConcat' = <<>> /\ index' = 0 /\ last' = 0
  BY <1>1 DEF CodecInv, LoopEnded, Receive, loopVars
<1>3. Joined(attributes', toConcat', index', last')
  BY <1>2, JoinNothing DEF EAPMessage
<1>4. Reset(sent', Zeros) = sent'
  BY <1>1, ResponsesHaveZeros
<1> QED BY <1>1, <1>3, <1>4 DEF CodecComplete, IntactIsAccepted

\* One more AVP of an intact packet is read (ExtractAttribute).
LEMMA CompleteExtract ==
    ASSUME CodecInv, CodecComplete, ExtractAttribute
    PROVE  CodecComplete'
<1> DEFINE t == bytes[pos + 1]
           l == bytes[pos + 2]
           d == SubSeq(bytes, pos + 3, pos + l)
<1>1. /\ phase = "extract" /\ pos < Len(bytes) /\ phase' = phase /\ sent' = sent /\ bytes' = bytes
      /\ index' = Position(t) /\ last' = t
      /\ attributes' = Append(attributes, Attribute(t, d))
      /\ toConcat' = IF t # EAPMessage THEN toConcat ELSE Append(toConcat, [data |-> d, index |-> index'])
  BY DEF ExtractAttribute
<1>2. /\ sent \in Seq(Short) /\ OneAuthenticator(sent) /\ attributes \in Seq(Attrs) /\ toConcat \in Seq(Piece)
  BY DEF CodecInv, PacketTypes
<1>3. ASSUME Intact PROVE Joined(attributes', toConcat', index', last')
  <2>1. PICK rest \in Seq(Attrs) :
           /\ bytes = Wire(attributes \o rest) /\ pos = Len(Wire(attributes))
           /\ attributes \o rest = Signed(sent)
    BY <1>1, <1>3, RestOfIntact
  <2>2. rest # <<>> /\ rest[1] \in Attrs /\ IsNext(rest[1], bytes, pos)
    <3>1. attributes \in Seq(Attrs) /\ rest \in Seq(Attrs) /\ IsRest(bytes, pos, attributes, rest) /\ pos < Len(bytes)
      BY <1>1, <1>2, <2>1 DEF IsRest
    <3> QED BY ONLY <3>1, NextAvp
  <2>3. t = rest[1].type /\ d = rest[1].data
    BY ONLY <2>2, Zenon DEF IsNext
  <2> HIDE DEF t, d, l
  <2>4. Attribute(t, d) = rest[1]
    <3>1. \A a \in Attrs : Attribute(a.type, a.data) = a
      BY DEF Attrs, Attribute
    <3> QED BY <2>2, <2>3, <3>1
  <2> DEFINE R == Signed(sent)
             a == rest[1]
  <2>5. Contiguous(R)
    BY <1>2, <1>3, SignedIsWellFormed DEF Intact
  <2>6. IsStart(attributes, rest, R)
    BY <2>1 DEF IsStart
  <2>7. Joined(attributes, toConcat, index, last)
    BY <1>1, <1>3 DEF CodecComplete
  <2>8. IsPosition(index', a, index, last)
    BY <1>1, <2>3 DEF Position, IsPosition
  <2>9. ArePieces(toConcat', toConcat, a, index')
    BY <1>1, <2>3 DEF ArePieces
  <2>10. attributes' = Append(attributes, a) /\ last' = a.type /\ a \in Attrs /\ a = rest[1]
    BY <1>1, <2>2, <2>3, <2>4
  <2> HIDE DEF R, a
  <2>11. toConcat \in Seq(Piece) /\ rest \in Seq(Attrs) /\ rest # <<>>
    BY <1>2, <2>1, <2>2
  <2>12. Joined(Append(attributes, a), toConcat', index', a.type)
    BY ONLY <2>5, <2>6, <2>7, <2>8, <2>9, <2>10, <2>11, JoinStep
  <2> QED BY <2>10, <2>12
<1>4. Intact' <=> Intact
  BY <1>1 DEF Intact
<1>5. Reset(sent', Zeros) = sent'
  BY <1>1 DEF CodecComplete
<1> QED BY <1>1, <1>3, <1>4, <1>5 DEF CodecComplete, IntactIsAccepted

\* Nothing that is read of an intact packet fails.
LEMMA CompleteFails ==
    ASSUME CodecInv, CodecComplete, ExtractFails
    PROVE  CodecComplete'
<1> DEFINE t == bytes[pos + 1]
           d == SubSeq(bytes, pos + 3, pos + bytes[pos + 2])
<1>1. /\ phase = "extract" /\ pos < Len(bytes) /\ phase' = "rejected" /\ sent' = sent /\ bytes' = bytes
      /\ ~Parses(t, d)
  BY DEF ExtractFails
<1>2. sent \in Seq(Short) /\ OneAuthenticator(sent) /\ attributes \in Seq(Attrs)
  BY DEF CodecInv, PacketTypes
<1>3. ASSUME Intact PROVE FALSE
  <2>1. PICK rest \in Seq(Attrs) :
           /\ bytes = Wire(attributes \o rest) /\ pos = Len(Wire(attributes))
           /\ attributes \o rest = Signed(sent)
    BY <1>1, <1>3, RestOfIntact
  <2>2. rest # <<>> /\ rest[1] \in Attrs /\ IsNext(rest[1], bytes, pos)
    <3>1. attributes \in Seq(Attrs) /\ rest \in Seq(Attrs) /\ IsRest(bytes, pos, attributes, rest) /\ pos < Len(bytes)
      BY <1>1, <1>2, <2>1 DEF IsRest
    <3> QED BY ONLY <3>1, NextAvp
  <2>3. t = rest[1].type /\ d = rest[1].data
    BY ONLY <2>2, Zenon DEF IsNext
  <2> HIDE DEF t, d
  <2> DEFINE R == Signed(sent)
             n == Len(attributes)
  <2>4. FullAvps(R)
    BY <1>2, <1>3, SignedIsWellFormed DEF Intact
  <2>5. R = attributes \o rest
    BY <2>1
  <2>6. n + 1 \in 1 .. Len(R) /\ R[n + 1] = rest[1]
    <3>1. /\ Len(attributes \o rest) = n + Len(rest)
          /\ \A i \in 1 .. n + Len(rest) :
                (attributes \o rest)[i] = IF i <= n THEN attributes[i] ELSE rest[i - n]
      BY <1>2, ConcatProperties
    <3>2. n \in Nat /\ Len(rest) \in Nat \ {0}
      BY <1>2, <2>2, LenProperties, EmptySeq
    <3> HIDE DEF R, n
    <3>3. n + 1 \in 1 .. n + Len(rest) /\ ~(n + 1 <= n) /\ (n + 1) - n = 1
      BY <3>2
    <3>4. (attributes \o rest)[n + 1] = rest[1]
      BY <3>1, <3>3
    <3> QED BY <2>5, <3>1, <3>3, <3>4
  <2> HIDE DEF R, n
  <2>7. Len(d) \in 1 .. MaxDataLength
    <3>1. Len(R[n + 1].data) \in 1 .. MaxDataLength
      BY <2>4, <2>6 DEF FullAvps
    <3> QED BY <2>3, <2>6, <3>1
  <2>8. t \in KnownType
    <3>1. R[n + 1].type = sent[n + 1].type /\ DOMAIN R = DOMAIN sent
      <4>1. /\ R = Reset(sent, Digest) /\ sent \in Seq(Attrs) /\ Digest \in Seq(Octet)
            /\ DOMAIN sent = 1 .. Len(sent)
        BY <1>2, SignedIs, DigestsAreData, LenProperties DEF R
      <4>2. /\ Len(R) = Len(sent) /\ DOMAIN R = 1 .. Len(R)
            /\ \A i \in 1 .. Len(sent) : R[i] = ResetOf(sent[i], Digest)
        BY <4>1, ResetIs, LenProperties
      <4>3. n + 1 \in 1 .. Len(sent) /\ R[n + 1] = ResetOf(sent[n + 1], Digest)
        BY <2>6, <4>2
      <4> QED BY <4>1, <4>2, <4>3 DEF ResetOf, IsAuthenticator, Attribute
    <3>2. n + 1 \in DOMAIN sent
      BY <2>6, <3>1, LenProperties
    <3> QED BY <1>3, <2>3, <2>6, <3>1, <3>2 DEF Intact, Known
  <2> QED BY <1>1, <2>7, <2>8 DEF ValidLength, Parses
<1>4. ~Intact'
  BY <1>1, <1>3 DEF Intact
<1> QED BY <1>1, <1>4 DEF CodecComplete, IntactIsAccepted, Intact

\* What is joined is accepted (MergeConcatAttributes).
LEMMA CompleteMerge ==
    ASSUME CodecInv, CodecComplete, MergeConcatAttributes
    PROVE  CodecComplete'
<1>1. /\ phase = "extract" /\ phase' = "validate" /\ sent' = sent /\ bytes' = bytes /\ pos = Len(bytes)
      /\ attributes' = IF toConcat = <<>> THEN attributes ELSE Merged
  BY DEF MergeConcatAttributes, Unpacked
<1>2. /\ sent \in Seq(Short) /\ OneAuthenticator(sent) /\ attributes \in Seq(Attrs) /\ toConcat \in Seq(Piece)
  BY DEF CodecInv, PacketTypes
<1>3. ASSUME Intact PROVE Valid(attributes', sent)
  <2>1. PICK rest \in Seq(Attrs) :
           /\ bytes = Wire(attributes \o rest) /\ pos = Len(Wire(attributes))
           /\ attributes \o rest = Signed(sent)
    BY <1>1, <1>3, RestOfIntact
  <2>2. rest = <<>>
    <3> DEFINE x == Wire(attributes)
               y == Wire(rest)
    <3>1. x \in Seq(Nat) /\ y \in Seq(Nat) /\ bytes = x \o y /\ Wire(<<>>) = <<>> /\ <<>> \in Seq(Attrs)
      BY <1>2, <2>1, WireIs, Packing, EmptySeq
    <3> HIDE DEF x, y
    <3>2. Len(x \o y) = Len(x) + Len(y) /\ Len(x) \in Nat /\ Len(y) \in Nat
      BY <3>1, ConcatProperties, LenProperties
    <3>3. Len(y) = 0
      BY <1>1, <2>1, <3>1, <3>2 DEF x
    <3>4. y = <<>>
      BY <3>1, <3>3, EmptySeq
    <3>5. Wire(rest) = Wire(<<>>)
      BY <3>1, <3>4 DEF y
    <3> QED BY <3>1, <3>5, WireIsInjective
  <2>3. attributes = Signed(sent)
    <3>1. attributes \o <<>> = attributes
      BY <1>2, ConcatEmptySeq
    <3> QED BY <2>1, <2>2, <3>1
  <2>4. Joined(attributes, toConcat, index, last) /\ Reset(sent, Zeros) = sent /\ WellFormed(sent)
    BY <1>1, <1>3 DEF CodecComplete, Intact
  <2> QED BY <1>1, <1>2, <2>3, <2>4, MergedIsValid
<1>4. Intact' <=> Intact
  BY <1>1 DEF Intact
<1>5. Reset(sent', Zeros) = sent'
  BY <1>1 DEF CodecComplete
<1> QED BY <1>1, <1>3, <1>4, <1>5 DEF CodecComplete, IntactIsAccepted

\* An intact packet is not rejected (ValidateReceived).
LEMMA CompleteValidate ==
    ASSUME CodecInv, CodecComplete, ValidateReceived
    PROVE  CodecComplete'
<1>1. /\ phase = "validate" /\ sent' = sent /\ bytes' = bytes
      /\ phase' = IF ValidResponseAuthenticator /\ ValidMessageAuthenticator THEN "accepted" ELSE "rejected"
  BY DEF ValidateReceived
<1>2. Intact => ValidResponseAuthenticator /\ ValidMessageAuthenticator
  BY <1>1 DEF CodecComplete, Valid, ValidResponseAuthenticator, ValidMessageAuthenticator
<1>3. phase' = "rejected" => ~Intact
  BY <1>1, <1>2
<1>4. phase' \in {"accepted", "rejected"}
  BY <1>1
<1> QED BY <1>1, <1>3, <1>4 DEF CodecComplete, IntactIsAccepted, Intact

\* Every step preserves it.
LEMMA CompleteNext == CodecInv /\ CodecComplete /\ [PacketNext]_packetVars => CodecComplete'
<1> SUFFICES ASSUME CodecInv, CodecComplete, [PacketNext]_packetVars PROVE CodecComplete'
  OBVIOUS
<1>1. CASE UNCHANGED packetVars
  BY <1>1 DEF packetVars, CodecComplete, IntactIsAccepted, Intact
<1>2. CASE ThreadIsDead
  BY <1>2 DEF ThreadIsDead, packetVars, CodecComplete, IntactIsAccepted, Intact
<1>3. CASE EncodeMabMessage
  BY <1>3 DEF EncodeMabMessage, CodecComplete, IntactIsAccepted
<1>4. CASE Return
  BY <1>4 DEF Return, CodecComplete, IntactIsAccepted
<1> QED BY <1>1, <1>2, <1>3, <1>4, CompleteReceive, CompleteExtract, CompleteFails, CompleteMerge, CompleteValidate
        DEF PacketNext

\* A response that arrives as it was sent, is well formed and has attributes of known types
\* only is accepted, for any bytes, lengths and number of AVPs: joined, placed and split
\* again, its EAP-Message has the bytes that the server made its digests of.
THEOREM CodecAccepts == PacketSpec => []IntactIsAccepted
<1>2. PacketSpec => [](CodecInv /\ CodecComplete)
  BY CodecInit, CodecNext, CompleteInit, CompleteNext, PTL DEF PacketSpec
<1>3. CodecComplete => IntactIsAccepted
  BY DEF CodecComplete
<1> QED BY <1>2, <1>3, PTL

=============================================================================
