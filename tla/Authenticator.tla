---------------------------- MODULE Authenticator ----------------------------
(***************************************************************************)
(* RADIUS authentication of devices: the sessions of forch/authenticator.py *)
(* (one state machine of forch/simple_auth_state_machine.py per device),   *)
(* the packet identifiers of forch/radius_query.py, its receiving thread,  *)
(* and, outside the program, the network and the RADIUS server.            *)
(*                                                                         *)
(* Placements and the heartbeat run under _sessions_lock, each as one      *)
(* step; the receiving thread takes it only for the last of its steps.     *)
(* Request and response datagrams may be lost, delayed and, responses,     *)
(* duplicated: a response can be received at any time after it was sent.   *)
(***************************************************************************)
EXTENDS Naturals, Sequences

CONSTANTS
    Mac,              \* the devices
    Segment,          \* the segments the server may assign
    AnswerCode,       \* the kinds of answer the server gives
    MayLeave,         \* bound: the devices that may be disconnected
    MayRaise,         \* bound: the devices for which auth_callback may raise an exception
    IdSpace,          \* packet identifiers before reuse: 256 in the code
    MaxRadiusRetries, \* max_radius_retries
    MaxRequests,      \* bound: requests sent in one behaviour
    None              \* the key is not in the dictionary, or no value

\* Besides the codes of process_radius_result: an answer that Radius.parse refuses
\* whatever is stored for its identifier, as for an attribute of a type it does not know,
\* and one with a text or a segment that is not UTF-8.
Code == {"ACCEPT", "REJECT", "INVALID_RESPONSE", "UNREADABLE", "UNDECODABLE"}

ASSUME ConfigAssumption ==
    /\ None \notin Mac \cup Segment
    /\ AnswerCode \subseteq Code
    /\ MayLeave \subseteq Mac
    /\ MayRaise \subseteq Mac
    /\ IdSpace \in Nat \ {0}
    /\ MaxRadiusRetries \in Nat
    /\ MaxRequests \in Nat

VARIABLES
    sessions,         \* sessions[m]: the state machine of m, or None
    nextRadiusId,     \* the identifier of the next request
    packetIdToMac,    \* the device an identifier was last used for, or None
    reqAuthenticator, \* packet_id_to_req_authenticator: a nonce, or 0
    requests,         \* the requests sent so far; a request's nonce is its index
    responses,        \* the server's answer to each request, or None
    receiver,         \* where the receiving thread is, and what it holds
    access            \* access[m]: the segment of the last auth_callback, or None

vars == <<sessions, nextRadiusId, packetIdToMac, reqAuthenticator, requests,
          responses, receiver, access>>
idVars == <<nextRadiusId, packetIdToMac, reqAuthenticator, requests>>

SessionState == {"UNAUTH", "REQUEST", "ACCEPT"}
Session == [state : SessionState, retries : 0..MaxRadiusRetries]
Id == 0..(IdSpace - 1)
Nonce == 1..MaxRequests
Request == [mac : Mac, id : Id]
Response == [code : Code, segment : Segment \cup {None}]

ASSUME NoneAssumption == None \notin Session \cup Response

\* The receiving thread waits on the socket, has parsed and validated response
\* `nonce', has found the device it is for, or has also found that device's
\* session; it is dead once an exception has left receive_radius_messages while it
\* handled that response.
Receiver == [pc : {"waiting", "parsed", "found", "checked", "dead"},
             nonce : {0} \cup Nonce, mac : Mac \cup {None}]

Waiting == [pc |-> "waiting", nonce |-> 0, mac |-> None]
Dead(n) == [pc |-> "dead", nonce |-> n, mac |-> None]
Unauthenticated == [state |-> "UNAUTH", retries |-> 0]

\* RadiusQuery.__init__, whose receiving thread starts at once.
QueryInit ==
    /\ nextRadiusId = 0
    /\ packetIdToMac = [id \in Id |-> None]
    /\ reqAuthenticator = [id \in Id |-> 0]
    /\ receiver = Waiting

Init ==
    /\ QueryInit
    /\ sessions = [m \in Mac |-> None]
    /\ requests = <<>>
    /\ responses = [n \in Nonce |-> None]
    /\ access = [m \in Mac |-> None]

-----------------------------------------------------------------------------
(* Sending a request. *)

\* Mutant: the authenticator is stored once the identifier has been advanced.
SendMabRequestLateStore(m) ==
    /\ Len(requests) < MaxRequests
    /\ requests' = Append(requests, [mac |-> m, id |-> nextRadiusId])
    /\ packetIdToMac' = [packetIdToMac EXCEPT ![nextRadiusId] = m]
    /\ nextRadiusId' = (nextRadiusId + 1) % IdSpace
    /\ reqAuthenticator' = [reqAuthenticator EXCEPT ![nextRadiusId'] = Len(requests) + 1]

SendMabRequest(m) ==
    /\ Len(requests) < MaxRequests
    /\ requests' = Append(requests, [mac |-> m, id |-> nextRadiusId])
    /\ packetIdToMac' = [packetIdToMac EXCEPT ![nextRadiusId] = m]
    /\ reqAuthenticator' = [reqAuthenticator EXCEPT ![nextRadiusId] = Len(requests) + 1]
    /\ nextRadiusId' = (nextRadiusId + 1) % IdSpace

-----------------------------------------------------------------------------
(* Placements and the heartbeat. *)

\* host_learned
Learn(m) ==
    /\ sessions[m] = None
    /\ sessions' = [sessions EXCEPT ![m] = [Unauthenticated EXCEPT !.state = "REQUEST"]]
    /\ SendMabRequest(m)
    /\ UNCHANGED access

\* The second of two ports that a device was seen at goes down: a session is
\* made for a device that has left.
LeaveUnknown(m) ==
    /\ sessions[m] = None
    /\ sessions' = [sessions EXCEPT ![m] = Unauthenticated]
    /\ UNCHANGED idVars
    /\ UNCHANGED access

\* Mutant: the session is dropped, and nobody is told.
LeaveSilently(m) ==
    /\ sessions[m] # None
    /\ sessions' = [sessions EXCEPT ![m] = None]
    /\ UNCHANGED idVars
    /\ UNCHANGED access

\* host_expired; when the callback raises, the session has been reset and stays.
Leave(m) ==
    /\ sessions[m] # None
    /\ \/ sessions' = [sessions EXCEPT ![m] = None]
       \/ m \in MayRaise /\ sessions' = [sessions EXCEPT ![m] = Unauthenticated]
    /\ access' = [access EXCEPT ![m] = None]
    /\ UNCHANGED idVars

\* A device that has a session, learned again, changes nothing.
LearnAgain(m) == sessions[m] # None /\ UNCHANGED <<sessions, idVars, access>>

ProcessDevicePlacement(m, connected) ==
    /\ IF connected THEN Learn(m) \/ LearnAgain(m)
                    ELSE m \in MayLeave /\ (LeaveUnknown(m) \/ Leave(m))
    /\ UNCHANGED <<responses, receiver>>

\* REQUEST times out: retries stays 0, since it is only counted from 1.
RequestTimeout(m) ==
    LET session == sessions[m] IN
    /\ session # None /\ session.state = "REQUEST"
    /\ session.retries # 0
    /\ IF session.retries < MaxRadiusRetries
       THEN /\ sessions' = [sessions EXCEPT ![m].retries = @ + 1]
            /\ SendMabRequest(m)
            /\ UNCHANGED access
       ELSE /\ sessions' = [sessions EXCEPT ![m] = Unauthenticated]
            /\ access' = [access EXCEPT ![m] = None]
            /\ UNCHANGED idVars

\* ACCEPT or UNAUTH times out: the device is authenticated again.
Reauthenticate(m) ==
    /\ sessions[m] # None /\ sessions[m].state \in {"ACCEPT", "UNAUTH"}
    /\ sessions' = [sessions EXCEPT ![m].state = "REQUEST"]
    /\ SendMabRequest(m)
    /\ UNCHANGED access

\* The heartbeat goes over all sessions; to take them one by one adds nothing,
\* as a session's timeout may have passed or not at each heartbeat.
HandleSmTimer(m) ==
    /\ RequestTimeout(m) \/ Reauthenticate(m)
    /\ UNCHANGED <<responses, receiver>>

-----------------------------------------------------------------------------
(* The receiving thread. *)

\* validate_packet: the digests of response n are made with the nonce of request n and fit
\* no other one.
ValidatePacket(n, authenticator) == authenticator = n

\* Radius.parse: it looks up what is stored for the identifier now, if anything is.
ValidPacket(n) ==
    LET authenticator == reqAuthenticator[requests[n].id]
    IN  authenticator # 0 /\ ValidatePacket(n, authenticator)

\* A packet that cannot be parsed or is not valid raises MessageParseError, which is
\* logged and raised again.
ReceiveRadiusMessage(n) ==
    /\ receiver.pc = "waiting" /\ responses[n] # None
    /\ receiver' = IF responses[n].code # "UNREADABLE" /\ ValidPacket(n)
                   THEN [Waiting EXCEPT !.pc = "parsed", !.nonce = n]
                   ELSE Dead(n)
    /\ UNCHANGED <<sessions, idVars, responses, access>>

\* get_mac_from_packet_id, without a lock; then to_dict and the segment are decoded
FindMac ==
    /\ receiver.pc = "parsed"
    /\ receiver' = IF responses[receiver.nonce].code = "UNDECODABLE"
                   THEN Dead(receiver.nonce)
                   ELSE [receiver EXCEPT !.pc = "found",
                            !.mac = packetIdToMac[requests[receiver.nonce].id]]
    /\ UNCHANGED <<sessions, idVars, responses, access>>

\* process_radius_result up to the lock
CheckSession ==
    /\ receiver.pc = "found"
    /\ receiver' = IF \/ responses[receiver.nonce].code = "INVALID_RESPONSE"
                      \/ sessions[receiver.mac] = None
                   THEN Waiting
                   ELSE [receiver EXCEPT !.pc = "checked"]
    /\ UNCHANGED <<sessions, idVars, responses, access>>

\* Mutant: a reject leaves the session waiting for a better answer.
ApplyResultIgnoresReject(m, response) ==
    IF sessions[m].state # "REQUEST" \/ response.code # "ACCEPT"
    THEN UNCHANGED <<sessions, access>>
    ELSE /\ sessions' = [sessions EXCEPT ![m] = [Unauthenticated EXCEPT !.state = "ACCEPT"]]
         /\ access' = [access EXCEPT ![m] = response.segment]

\* Mutant: an answer is taken in any state of the session.
ApplyResultAlways(m, response) ==
    /\ sessions' = [sessions EXCEPT ![m] =
            IF response.code = "ACCEPT"
            THEN [Unauthenticated EXCEPT !.state = "ACCEPT"] ELSE Unauthenticated]
    /\ access' = [access EXCEPT ![m] =
            IF response.code = "ACCEPT" THEN response.segment ELSE None]

\* received_radius_accept and received_radius_reject; a reject has no segment
ApplyResult(m, response) ==
    IF sessions[m].state # "REQUEST" THEN UNCHANGED <<sessions, access>>
    ELSE /\ sessions' = [sessions EXCEPT ![m] =
                IF response.code = "ACCEPT"
                THEN [Unauthenticated EXCEPT !.state = "ACCEPT"] ELSE Unauthenticated]
         /\ access' = [access EXCEPT ![m] =
                IF response.code = "ACCEPT" THEN response.segment ELSE None]

\* The rest of process_radius_result; a session that was dropped since it was
\* checked raises KeyError, and what the callback raises leaves the thread, too.
CompleteRadiusResult ==
    LET m == receiver.mac IN
    /\ receiver.pc = "checked"
    /\ IF sessions[m] = None
       THEN receiver' = Dead(receiver.nonce) /\ UNCHANGED <<sessions, access>>
       ELSE /\ ApplyResult(m, responses[receiver.nonce])
            /\ \/ receiver' = Waiting
               \/ /\ m \in MayRaise /\ sessions[m].state = "REQUEST"
                  /\ receiver' = Dead(receiver.nonce)
    /\ UNCHANGED <<idVars, responses>>

-----------------------------------------------------------------------------
(* The RADIUS server: it may answer any request sent. *)

Answer(n, response) ==
    /\ n \in DOMAIN requests /\ responses[n] = None
    /\ response.code \in AnswerCode
    /\ response.segment # None => response.code = "ACCEPT"
    /\ responses' = [responses EXCEPT ![n] = response]
    /\ UNCHANGED <<sessions, idVars, receiver, access>>

ServerAnswers(n) == \E response \in Response : Answer(n, response)

ReceiverSteps == FindMac \/ CheckSession \/ CompleteRadiusResult

Next ==
    \/ \E m \in Mac, connected \in BOOLEAN : ProcessDevicePlacement(m, connected)
    \/ \E m \in Mac : HandleSmTimer(m)
    \/ \E n \in Nonce : ServerAnswers(n)
    \/ \E n \in Nonce : ReceiveRadiusMessage(n)
    \/ FindMac
    \/ CheckSession
    \/ CompleteRadiusResult

Spec == Init /\ [][Next]_vars

\* The heartbeat runs for ever, whatever its callbacks raise, and so does the
\* receiving thread; nothing is promised of the network.
TimerSpec == Spec /\ WF_vars(ReceiverSteps) /\ \A m \in Mac : WF_vars(HandleSmTimer(m))

\* A network and a server that answer every request: the receiving thread takes
\* each response in the end, though others keep it busy.
AnsweringSpec ==
    /\ Spec
    /\ WF_vars(ReceiverSteps)
    /\ \A n \in Nonce : WF_vars(ServerAnswers(n)) /\ SF_vars(ReceiveRadiusMessage(n))

-----------------------------------------------------------------------------
(* Properties. *)

TypeOK ==
    /\ sessions \in [Mac -> Session \cup {None}]
    /\ nextRadiusId \in Id
    /\ packetIdToMac \in [Id -> Mac \cup {None}]
    /\ reqAuthenticator \in [Id -> {0} \cup Nonce]
    /\ requests \in Seq(Request) /\ Len(requests) <= MaxRequests
    /\ responses \in [Nonce -> Response \cup {None}]
    /\ receiver \in Receiver
    /\ access \in [Mac -> Segment \cup {None}]

\* A device without a session, or with one that is unauthenticated, has been
\* told to have no access: no late answer outlives the departure it crossed.
NoAccessWithoutSession ==
    \A m \in Mac : access[m] # None =>
        sessions[m] # None /\ sessions[m].state \in {"REQUEST", "ACCEPT"}

\* The identifier of request n was given to a later request; and to one for device m.
UsedAgain(n) == \E k \in DOMAIN requests : k > n /\ requests[k].id = requests[n].id

AnswerFor(n, m) ==
    \E k \in DOMAIN requests : k >= n /\ requests[k].id = requests[n].id /\ requests[k].mac = m

\* A device is given access only while its session waits for an answer, and only the one of
\* an accept that the server gave to a request for this device, or to one whose identifier
\* a later request for this device was given: responses that are late, duplicated or out of
\* order never serve another one, and change nothing that has been decided.
AccessIsServerGranted ==
    [][\A m \in Mac : access'[m] \notin {None, access[m]} =>
           /\ sessions[m] # None /\ sessions[m].state = "REQUEST"
           /\ responses[receiver.nonce] = [code |-> "ACCEPT", segment |-> access'[m]]
           /\ AnswerFor(receiver.nonce, m)]_vars

\* Not guaranteed: the accept was for the last request for this device.  One that is late is
\* taken for the answer to a later request, even of a session made since
\* (received_radius_accept).
AccessIsFresh ==
    [][\A m \in Mac : access'[m] \notin {None, access[m]} =>
           \A n \in DOMAIN requests : requests[n].mac = m => n <= receiver.nonce]_vars

\* An exception leaves the receiving thread, after which no device is authenticated again,
\* only from a response that cannot be read, one whose identifier was used again before it
\* arrived, one whose device leaves after its session has been found, or one for which the
\* callback raises: none that is late or duplicated is enough (receive_radius_messages,
\* process_radius_result).
ReceiverSurvives ==
    [][receiver'.pc = "dead" /\ receiver.pc # "dead" =>
           LET n == receiver'.nonce IN
           \/ responses[n].code \in {"UNREADABLE", "UNDECODABLE"}
           \/ receiver.pc = "waiting" /\ UsedAgain(n)
           \/ /\ receiver.pc = "checked"
              /\ \/ sessions[receiver.mac] = None
                 \/ receiver.mac \in MayRaise /\ sessions[receiver.mac].state = "REQUEST"]_vars

\* Not guaranteed: a response that fails validation, as a late one whose identifier was used
\* again, is dropped; it ends the thread.
InvalidIsDropped ==
    [][receiver'.pc = "dead" /\ receiver.pc = "waiting" => responses[receiver'.nonce].code = "UNREADABLE"]_vars

\* When every request is accepted or rejected, a device does not wait for an answer for
\* ever, as long as there is a thread to receive it; any other answer is as good as none.
Invalid(m) ==
    \E n \in DOMAIN requests :
        requests[n].mac = m /\ responses[n] = [code |-> "INVALID_RESPONSE", segment |-> None]

RequestsAnswered ==
    \A m \in Mac : sessions[m] # None /\ sessions[m].state = "REQUEST"
                   ~> \/ sessions[m] = None
                      \/ sessions[m].state # "REQUEST"
                      \/ Invalid(m)
                      \/ receiver.pc = "dead"

\* A request that is never answered is sent again or given up in the end.
RequestTimesOut ==
    \A m \in Mac : \A n \in 0..MaxRequests :
        sessions[m] # None /\ sessions[m].state = "REQUEST" /\ Len(requests) = n
        ~> \/ sessions[m] = None
           \/ sessions[m].state # "REQUEST"
           \/ Len(requests) # n
           \/ n = MaxRequests

=============================================================================
