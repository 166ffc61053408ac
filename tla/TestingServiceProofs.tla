------------------------- MODULE TestingServiceProofs -------------------------
(***************************************************************************)
(* What is proved of TestingService for every finite set of devices, and   *)
(* every number of ports, VLANs, sessions and messages: tap ports are      *)
(* neither lost nor shared, each device has one open session at most, and  *)
(* an open session keeps the tap port its tunnel was given.                *)
(***************************************************************************)
EXTENDS TestingService, FiniteSetTheorems, TLAPS

-----------------------------------------------------------------------------
(* Constants, and the helpers on sets of numbers. *)

LEMMA Constants ==
    /\ IsFiniteSet(Mac)
    /\ BasePort \in Nat \ {0}
    /\ MaxSessions \in Nat
    /\ MaxMessages \in Nat
BY ConfigAssumption

LEMMA NoneIsNew == None \notin Mac /\ None \notin Nat /\ None \notin DeviceVlan /\ None \notin SegmentVlan
BY ConfigAssumption

Less == OpToRel(<, Nat)

LEMMA LessIsLess == \A x, y \in Nat : <<y, x>> \in Less <=> y < x
BY DEF Less, OpToRel

LEMMA SmallestNumber == ASSUME NEW S \in SUBSET Nat, S # {} PROVE \E x \in S : \A y \in S : x <= y
<1>1. IsWellFoundedOn(Less, Nat)
  BY NatLessThanWellFounded DEF Less
<1>2. PICK x \in S : \A y \in S : ~(<<y, x>> \in Less)
  BY <1>1, WFMin
<1>3. ASSUME NEW y \in S PROVE x <= y
  <2>1. x \in Nat /\ y \in Nat
    OBVIOUS
  <2>2. ~(y < x)
    BY <1>2, <2>1, LessIsLess
  <2> QED BY <2>1, <2>2
<1> QED BY <1>3

LEMMA MinIsMember == ASSUME NEW S \in SUBSET Nat, S # {} PROVE Min(S) \in S
BY SmallestNumber DEF Min

\* A nonempty set of numbers below a bound has a largest one.
LEMMA MaxIsMember ==
    ASSUME NEW n \in Nat, NEW S \in SUBSET (0 .. n), S # {}
    PROVE  Max(S) \in S
<1> DEFINE distance == {n - x : x \in S}
<1>1. distance \in SUBSET Nat
  <2>1. \A x \in S : n - x \in Nat
    OBVIOUS
  <2> QED BY <2>1
<1>2. distance # {}
  OBVIOUS
<1>3. PICK d \in distance : \A y \in distance : d <= y
  <2> HIDE DEF distance
  <2> QED BY <1>1, <1>2, SmallestNumber
<1>4. PICK x \in S : d = n - x
  OBVIOUS
<1>5. ASSUME NEW y \in S PROVE x >= y
  <2>1. d <= n - y
    BY <1>3
  <2> QED BY <1>4, <2>1
<1> QED BY <1>5 DEF Max

-----------------------------------------------------------------------------
(* The tap ports. *)

TapTypes ==
    /\ macTapPort \in [Mac -> Nat \cup {None}]
    /\ freedPorts \in SUBSET Nat
    /\ nextPort \in Nat
    /\ tapConfig \in SUBSET Nat

TapsOK == TapTypes /\ BasePort <= nextPort /\ TapPortsConserved /\ TapPortsBounded

\* If no port is free and a device has none there are fewer ports than devices.
LEMMA FewerPorts ==
    ASSUME TapsOK, NEW m \in Mac, macTapPort[m] = None, freedPorts = {}
    PROVE  nextPort + 1 <= BasePort + Cardinality(Mac)
<1> DEFINE used == BasePort .. nextPort - 1
           others == Mac \ {m}
           owner == [x \in used |-> CHOOSE n \in others : macTapPort[n] = x]
<1>1. ASSUME NEW x \in used
      PROVE  owner[x] \in others /\ macTapPort[owner[x]] = x
  <2>1. x \in Allocated /\ x # None
    BY NoneIsNew, Constants DEF TapsOK, TapTypes, TapPortsConserved
  <2>2. \E n \in others : macTapPort[n] = x
    BY <2>1 DEF Allocated
  <2> QED BY <2>2
<1>2. owner \in [used -> others] /\ \A x, y \in used : owner[x] = owner[y] => x = y
  BY <1>1
<1>3. owner \in Injection(used, others)
  <2> HIDE DEF owner
  <2> QED BY <1>2 DEF Injection, IsInjective
<1>4. IsFiniteSet(others) /\ Cardinality(others) = Cardinality(Mac) - 1
  BY Constants, FS_RemoveElement
<1>5. Cardinality(used) <= Cardinality(others)
  <2> HIDE DEF owner, used, others
  <2> QED BY <1>3, <1>4, FS_Injection
<1>6. BasePort \in Nat /\ nextPort \in Nat /\ Cardinality(Mac) \in Nat
  BY Constants, FS_CardinalityType DEF TapsOK, TapTypes
<1>7. Cardinality(used) = IF BasePort > nextPort - 1 THEN 0 ELSE nextPort - 1 - BasePort + 1
  BY <1>6, FS_Interval
<1>8. BasePort <= nextPort
  BY DEF TapsOK
<1> QED BY <1>8, <1>4, <1>5, <1>6, <1>7

LEMMA AllocateKeepsTaps ==
    ASSUME TapsOK, NEW m \in Mac, AllocateTapPort(m)
    PROVE  /\ TapsOK'
           /\ macTapPort'[m] \in Nat
           /\ \A n \in Mac : macTapPort[n] # None => macTapPort'[n] = macTapPort[n]
<1>0. /\ macTapPort \in [Mac -> Nat \cup {None}]
      /\ freedPorts \in SUBSET Nat /\ nextPort \in Nat /\ tapConfig \in SUBSET Nat
      /\ BasePort <= nextPort /\ nextPort <= BasePort + Cardinality(Mac)
      /\ TapPortsDistinct
      /\ Allocated \cap freedPorts = {}
      /\ Allocated \cup freedPorts = BasePort .. nextPort - 1
      /\ tapConfig = Allocated
      /\ BasePort \in Nat /\ Cardinality(Mac) \in Nat
  BY Constants, FS_CardinalityType DEF TapsOK, TapTypes, TapPortsConserved, TapPortsBounded
<1>1. CASE macTapPort[m] # None
  <2>1. UNCHANGED taps
    BY <1>1 DEF AllocateTapPort
  <2>2. TapsOK'
    BY <2>1 DEF taps, TapsOK, TapTypes, TapPortsConserved, TapPortsBounded, TapPortsDistinct, Allocated
  <2> QED BY <1>0, <1>1, <2>1, <2>2 DEF taps
<1>2. CASE macTapPort[m] = None
  <2> PICK port : port = IF freedPorts = {} THEN nextPort ELSE Max(freedPorts)
    OBVIOUS
  <2>1. /\ macTapPort' = [macTapPort EXCEPT ![m] = port]
        /\ freedPorts' = freedPorts \ {port}
        /\ nextPort' = IF freedPorts = {} THEN nextPort + 1 ELSE nextPort
        /\ tapConfig' = tapConfig \cup {port}
    BY <1>2 DEF AllocateTapPort
  <2>2. port \in Nat /\ port # None /\ port \notin Allocated
    <3>1. CASE freedPorts = {}
      BY <3>1, <1>0, NoneIsNew
    <3>2. CASE freedPorts # {}
      <4>1. freedPorts \in SUBSET (0 .. nextPort)
        BY <1>0
      <4>2. Max(freedPorts) \in freedPorts
        BY <1>0, <3>2, <4>1, MaxIsMember
      <4> QED BY <4>2, <3>2, <1>0, NoneIsNew
    <3> QED BY <3>1, <3>2
  <2>3. Allocated' = Allocated \cup {port}
    BY <1>0, <1>2, <2>1, <2>2 DEF Allocated
  <2>4. TapPortsDistinct'
    BY <1>0, <1>2, <2>1, <2>2 DEF TapPortsDistinct, Allocated
  <2>5. TapTypes'
    BY <1>0, <2>1, <2>2 DEF TapTypes
  <2>9. tapConfig' = Allocated'
    BY <1>0, <2>1, <2>3
  <2>6. ASSUME freedPorts = {} PROVE TapsOK'
    <3>1. freedPorts' = {} /\ nextPort' = nextPort + 1 /\ port = nextPort
      BY <2>6, <2>1
    <3>2. Allocated' \cup freedPorts' = BasePort .. nextPort' - 1
      BY <1>0, <2>3, <2>6, <3>1
    <3>3. nextPort' <= BasePort + Cardinality(Mac)
      BY <1>2, <2>6, <3>1, FewerPorts
    <3>4. Allocated' \cap freedPorts' = {}
      BY <3>1
    <3>5. BasePort <= nextPort'
      BY <1>0, <3>1
    <3> QED BY <2>4, <2>5, <2>9, <3>2, <3>3, <3>4, <3>5, Zenon DEF TapsOK, TapPortsConserved, TapPortsBounded
  <2>7. ASSUME freedPorts # {} PROVE TapsOK'
    <3>1. port \in freedPorts
      <4>1. freedPorts \in SUBSET (0 .. nextPort)
        BY <1>0
      <4>2. Max(freedPorts) \in freedPorts
        BY <1>0, <2>7, <4>1, MaxIsMember
      <4> QED BY <2>7, <4>2
    <3>2. freedPorts' = freedPorts \ {port} /\ nextPort' = nextPort
      BY <2>7, <2>1
    <3>3. Allocated' \cap freedPorts' = {}
      BY <1>0, <2>3, <3>2
    <3>4. Allocated' \cup freedPorts' = BasePort .. nextPort' - 1
      BY <1>0, <2>3, <3>1, <3>2
    <3>5. BasePort <= nextPort' /\ nextPort' <= BasePort + Cardinality(Mac)
      BY <1>0, <3>2
    <3> QED BY <2>4, <2>5, <2>9, <3>3, <3>4, <3>5, Zenon DEF TapsOK, TapPortsConserved, TapPortsBounded
  <2>8. macTapPort'[m] \in Nat /\ \A n \in Mac : macTapPort[n] # None => macTapPort'[n] = macTapPort[n]
    BY <1>0, <1>2, <2>1, <2>2
  <2> QED BY <2>6, <2>7, <2>8
<1> QED BY <1>1, <1>2

LEMMA FreeKeepsTaps ==
    ASSUME TapsOK, NEW m \in Mac, NEW cleaned, FreeEndpoint(m, cleaned)
    PROVE  /\ TapsOK'
           /\ \A n \in Mac : n # m => macTapPort'[n] = macTapPort[n]
           /\ vxlan' = vxlan \/ \E port : vxlan' = RemoveInterface(port)
<1>0. /\ macTapPort \in [Mac -> Nat \cup {None}]
      /\ freedPorts \in SUBSET Nat /\ nextPort \in Nat /\ tapConfig \in SUBSET Nat
      /\ BasePort <= nextPort /\ nextPort <= BasePort + Cardinality(Mac)
      /\ TapPortsDistinct
      /\ Allocated \cap freedPorts = {}
      /\ Allocated \cup freedPorts = BasePort .. nextPort - 1
      /\ tapConfig = Allocated
      /\ BasePort \in Nat /\ Cardinality(Mac) \in Nat
  BY Constants, FS_CardinalityType DEF TapsOK, TapTypes, TapPortsConserved, TapPortsBounded
<1>1. CASE macTapPort[m] = None
  <2>1. UNCHANGED <<taps, vxlan>>
    BY <1>1 DEF FreeEndpoint
  <2>2. TapsOK'
    BY <2>1 DEF taps, TapsOK, TapTypes, TapPortsConserved, TapPortsBounded, TapPortsDistinct, Allocated
  <2> QED BY <2>1, <2>2 DEF taps
<1>2. CASE macTapPort[m] # None
  <2> PICK port : port = macTapPort[m]
    OBVIOUS
  <2> DEFINE freed == freedPorts \cup {port}
             tail == port .. nextPort - 1
  <2>1. /\ macTapPort' = [macTapPort EXCEPT ![m] = None]
        /\ tapConfig' = tapConfig \ {port}
        /\ freedPorts' = IF tail \subseteq freed THEN freed \ tail ELSE freed
        /\ nextPort' = IF tail \subseteq freed THEN port ELSE nextPort
        /\ CleanupInterface(port, cleaned)
    BY <1>2 DEF FreeEndpoint
  <2>2. port \in Allocated /\ port \in Nat /\ port \in BasePort .. nextPort - 1
    BY <1>0, <1>2 DEF Allocated
  <2>3. Allocated' = Allocated \ {port}
    BY <1>0, <1>2, <2>1 DEF Allocated, TapPortsDistinct
  <2>4. TapPortsDistinct'
    BY <1>0, <2>1 DEF TapPortsDistinct
  <2>5. TapTypes'
    BY <1>0, <2>1, <2>2 DEF TapTypes
  <2>10. tapConfig' = Allocated'
    BY <1>0, <2>1, <2>3
  <2>6. ASSUME tail \subseteq freed PROVE TapsOK'
    <3>1. freedPorts' = freed \ tail /\ nextPort' = port
      BY <2>6, <2>1
    <3>2. ASSUME NEW x \in Allocated' PROVE x \in BasePort .. port - 1
      <4>1. x \in BasePort .. nextPort - 1 /\ x # port /\ x \notin freedPorts
        BY <1>0, <2>3
      <4>2. x \notin tail
        BY <2>6, <4>1
      <4> QED BY <1>0, <2>2, <4>1, <4>2
    <3>3. ASSUME NEW x \in freedPorts' PROVE x \in BasePort .. port - 1 /\ x \notin Allocated'
      <4>1. x \in freed /\ x \notin tail
        BY <3>1
      <4> QED BY <1>0, <2>2, <2>3, <4>1
    <3>4. ASSUME NEW x \in BasePort .. port - 1 PROVE x \in Allocated' \cup freedPorts'
      <4>1. x \in BasePort .. nextPort - 1 /\ x # port /\ x \notin tail
        BY <1>0, <2>2
      <4> QED BY <1>0, <2>3, <3>1, <4>1
    <3>5. Allocated' \cap freedPorts' = {} /\ Allocated' \cup freedPorts' = BasePort .. nextPort' - 1
      BY <3>1, <3>2, <3>3, <3>4
    <3>6. BasePort <= nextPort' /\ nextPort' <= BasePort + Cardinality(Mac)
      BY <1>0, <2>2, <3>1
    <3> QED BY <2>4, <2>5, <2>10, <3>5, <3>6, Zenon DEF TapsOK, TapPortsConserved, TapPortsBounded
  <2>7. ASSUME ~(tail \subseteq freed) PROVE TapsOK'
    <3>1. freedPorts' = freed /\ nextPort' = nextPort
      BY <2>7, <2>1
    <3>2. Allocated' \cap freedPorts' = {}
      BY <1>0, <2>3, <3>1
    <3>3. Allocated' \cup freedPorts' = BasePort .. nextPort' - 1
      BY <1>0, <2>2, <2>3, <3>1
    <3>4. BasePort <= nextPort' /\ nextPort' <= BasePort + Cardinality(Mac)
      BY <1>0, <3>1
    <3> QED BY <2>4, <2>5, <2>10, <3>2, <3>3, <3>4, Zenon DEF TapsOK, TapPortsConserved, TapPortsBounded
  <2>8. \A n \in Mac : n # m => macTapPort'[n] = macTapPort[n]
    BY <1>0, <2>1
  <2>9. vxlan' = vxlan \/ \E x : vxlan' = RemoveInterface(x)
    BY <2>1 DEF CleanupInterface
  <2> QED BY <2>6, <2>7, <2>8, <2>9
<1> QED BY <1>1, <1>2

-----------------------------------------------------------------------------
(* The sessions. *)

SessionRecord ==
    [mac : Mac, device : DeviceVlan, assigned : SegmentVlan, open : BOOLEAN, tap : Nat \cup {None},
     at : {"stream", "handle", "configure", "disconnect"},
     progress : Progress \cup {None}, messages : 0 .. MaxMessages]

SessionTypes ==
    /\ DOMAIN session \subseteq Session
    /\ session \in [DOMAIN session -> SessionRecord]
    /\ macSession \in [Mac -> DOMAIN session \cup {None}]

\* The session a device has is its own, and open: nobody cancels a session and leaves it there.
SessionsOwned ==
    \A m \in Mac : macSession[m] # None =>
        session[macSession[m]].mac = m /\ session[macSession[m]].open

\* A thread on its way to the endpoint server has a tap port.
Configuring == \A i \in DOMAIN session : session[i].at = "configure" => session[i].tap \in Nat

SessionsOK == SessionTypes /\ SessionsOwned /\ OneOpenSession /\ TapPortIsKept /\ Configuring

OtherTypes ==
    /\ dpMac \in [Port -> Mac \cup {None}]
    /\ deviceVlan \in [Mac -> DeviceVlan \cup {None}]
    /\ assignedVlan \in [Mac -> SegmentVlan \cup {None}]
    /\ DOMAIN vxlan \in SUBSET Nat /\ \A p \in DOMAIN vxlan : vxlan[p] \in Mac
    /\ mainLoop \in {"running", "ended"}

\* The inductive invariant.
SessionInvariant == OtherTypes /\ TapsOK /\ SessionsOK

\* What the records of sessions are changed to.
LEMMA ClosedRecord == \A r \in SessionRecord : [r EXCEPT !.open = FALSE] \in SessionRecord
BY DEF SessionRecord

LEMMA ConfiguringRecord ==
    ASSUME NEW r \in SessionRecord, NEW port \in Nat
    PROVE  [r EXCEPT !.at = "configure", !.progress = None, !.tap = port] \in SessionRecord
BY DEF SessionRecord

LEMMA ReceivedRecord ==
    ASSUME NEW r \in SessionRecord, NEW progress \in Progress, r.messages < MaxMessages
    PROVE  [r EXCEPT !.at = "handle", !.progress = progress, !.messages = @ + 1] \in SessionRecord
<1>1. r.messages + 1 \in 0 .. MaxMessages
  BY Constants DEF SessionRecord
<1> QED BY <1>1 DEF SessionRecord

\* Nobody has the number None, and the number of a session is the session's.
LEMMA SessionNumbers ==
    ASSUME SessionsOK
    PROVE  /\ None \notin DOMAIN session
           /\ \A m \in Mac : macSession[m] # None =>
                 macSession[m] \in DOMAIN session /\ session[macSession[m]].mac = m
           /\ \A i \in DOMAIN session : session[i] \in SessionRecord /\ session[i].mac \in Mac
BY NoneIsNew, Constants DEF SessionsOK, SessionTypes, SessionsOwned, Session, SessionRecord

\* A step of the thread that leaves everything it shares with the others as it is.
LEMMA ThreadOnly ==
    ASSUME SessionsOK, NEW i \in DOMAIN session, NEW record \in SessionRecord,
           session' = [session EXCEPT ![i] = record],
           record.mac = session[i].mac, record.open = session[i].open, record.tap = session[i].tap,
           record.at = "configure" => record.tap \in Nat,
           UNCHANGED <<macSession, macTapPort>>
    PROVE  SessionsOK'
<1>1. /\ DOMAIN session' = DOMAIN session
      /\ session'[i] = record
      /\ \A j \in DOMAIN session : j # i => session'[j] = session[j]
  BY DEF SessionsOK, SessionTypes
<1>2. \A j \in DOMAIN session :
         session'[j].mac = session[j].mac /\ session'[j].open = session[j].open /\ session'[j].tap = session[j].tap
  BY <1>1
<1>3. SessionTypes'
  BY <1>1 DEF SessionsOK, SessionTypes
<1>4. SessionsOwned'
  BY <1>1, <1>2, SessionNumbers DEF SessionsOK, SessionsOwned
<1>5. OneOpenSession' /\ TapPortIsKept'
  BY <1>1, <1>2 DEF SessionsOK, OneOpenSession, TapPortIsKept
<1>6. Configuring'
  BY <1>1 DEF SessionsOK, Configuring
<1> QED BY <1>3, <1>4, <1>5, <1>6 DEF SessionsOK

LEMMA ReadyKeepsSessions ==
    ASSUME SessionsOK, NEW m \in Mac, NEW device \in DeviceVlan, NEW assigned \in SegmentVlan \cup {None},
           SessionReady(m, device, assigned), UNCHANGED macTapPort
    PROVE  SessionsOK'
<1>1. CASE macSession[m] # None \/ ~GoodVlans(device, assigned)
  <2>1. UNCHANGED <<macSession, session>>
    BY <1>1 DEF SessionReady
  <2> QED BY <2>1 DEF SessionsOK, SessionTypes, SessionsOwned, OneOpenSession, TapPortIsKept, Configuring
<1>2. CASE ~(macSession[m] # None \/ ~GoodVlans(device, assigned))
  <2> PICK i : i = Min(Session \ DOMAIN session)
    OBVIOUS
  <2> PICK record : record = [mac |-> m, device |-> device, assigned |-> assigned, open |-> TRUE,
                              tap |-> None, at |-> "stream", progress |-> None, messages |-> 0]
    OBVIOUS
  <2>1. /\ DOMAIN session # Session
        /\ macSession' = [macSession EXCEPT ![m] = i]
        /\ session' = [j \in DOMAIN session \cup {i} |-> IF j # i THEN session[j] ELSE record]
    BY <1>2 DEF SessionReady
  <2>2. i \in Session /\ i \notin DOMAIN session /\ i # None
    <3>0. DOMAIN session \subseteq Session /\ Session \subseteq Nat
      BY Constants DEF SessionsOK, SessionTypes, Session
    <3>1. Session \ DOMAIN session \in SUBSET Nat /\ Session \ DOMAIN session # {}
      BY <2>1, <3>0, Zenon
    <3>2. i \in Session \ DOMAIN session
      BY <3>1, MinIsMember
    <3> QED BY <3>2, NoneIsNew DEF Session
  <2>3. record \in SessionRecord
    BY <1>2, Constants DEF GoodVlans, SessionRecord
  <2>4. /\ record.mac = m /\ record.open = TRUE /\ record.tap = None /\ record.at = "stream"
        /\ DOMAIN session' = DOMAIN session \cup {i}
        /\ session'[i] = record
        /\ \A j \in DOMAIN session : session'[j] = session[j]
    BY <2>1, <2>2
  <2>5. macSession[m] = None /\ macSession'[m] = i /\ \A n \in Mac : n # m => macSession'[n] = macSession[n]
    BY <1>2, <2>1 DEF SessionsOK, SessionTypes
  <2>6. SessionTypes'
    BY <2>1, <2>2, <2>3, <2>4 DEF SessionsOK, SessionTypes
  <2>7. SessionsOwned'
    BY <2>2, <2>4, <2>5, SessionNumbers DEF SessionsOK, SessionsOwned
  <2>8. OneOpenSession'
    <3> SUFFICES ASSUME NEW j \in DOMAIN session', session'[j].open
                 PROVE  macSession'[session'[j].mac] = j
      BY DEF OneOpenSession
    <3>1. CASE j = i
      BY <3>1, <2>4, <2>5
    <3>2. CASE j # i
      <4>1. j \in DOMAIN session /\ session'[j] = session[j]
        BY <3>2, <2>4
      <4>2. macSession[session[j].mac] = j /\ j # None
        BY <4>1, SessionNumbers DEF SessionsOK, OneOpenSession
      <4> QED BY <4>1, <4>2, <2>5, SessionNumbers
    <3> QED BY <3>1, <3>2
  <2>9. TapPortIsKept' /\ Configuring'
    BY <2>4 DEF SessionsOK, TapPortIsKept, Configuring
  <2> QED BY <2>6, <2>7, <2>8, <2>9 DEF SessionsOK
<1> QED BY <1>1, <1>2

\* Whatever else happens to the tap port of a device without an open session, the others keep theirs.
LEMMA ClosedKeepsSessions ==
    ASSUME SessionsOK, NEW m \in Mac,
           SessionTypes', DOMAIN session' \subseteq DOMAIN session,
           macSession' = [macSession EXCEPT ![m] = None],
           \A j \in DOMAIN session' :
               IF j = macSession[m] THEN session'[j] = [session[j] EXCEPT !.open = FALSE]
               ELSE session'[j] = session[j],
           \A n \in Mac : n # m => macTapPort'[n] = macTapPort[n]
    PROVE  SessionsOK'
<1>1. /\ macSession'[m] = None
      /\ \A n \in Mac : n # m => macSession'[n] = macSession[n]
  BY DEF SessionsOK, SessionTypes
<1>2. ASSUME NEW j \in DOMAIN session'
      PROVE  /\ session'[j].mac = session[j].mac
             /\ session'[j].tap = session[j].tap
             /\ session'[j].at = session[j].at
             /\ j # macSession[m] => session'[j].open = session[j].open
             /\ j = macSession[m] => ~session'[j].open
  BY SessionNumbers DEF SessionRecord
<1>3. ASSUME NEW j \in DOMAIN session', session'[j].open
      PROVE  j # macSession[m] /\ session[j].open /\ session[j].mac # m /\ session[j].mac \in Mac
             /\ macSession[session[j].mac] = j
  <2>1. j # macSession[m] /\ session[j].open
    BY <1>2, <1>3
  <2>2. macSession[session[j].mac] = j
    BY <2>1 DEF SessionsOK, OneOpenSession
  <2> QED BY <2>1, <2>2, SessionNumbers
<1>4. SessionsOwned'
  <2> SUFFICES ASSUME NEW n \in Mac, macSession'[n] # None
               PROVE  session'[macSession'[n]].mac = n /\ session'[macSession'[n]].open
    BY DEF SessionsOwned
  <2>1. n # m /\ macSession'[n] = macSession[n]
    BY <1>1
  <2>2. macSession[n] \in DOMAIN session'
    BY <2>1 DEF SessionTypes
  <2>3. session[macSession[n]].mac = n /\ session[macSession[n]].open
    BY <2>1 DEF SessionsOK, SessionsOwned
  <2>4. macSession[n] # macSession[m]
    BY <2>1, <2>3, SessionNumbers
  <2> QED BY <1>2, <2>1, <2>2, <2>3, <2>4
<1>5. OneOpenSession'
  <2> SUFFICES ASSUME NEW j \in DOMAIN session', session'[j].open
               PROVE  macSession'[session'[j].mac] = j
    BY DEF OneOpenSession
  <2> QED BY <1>1, <1>2, <1>3
<1>6. TapPortIsKept'
  <2> SUFFICES ASSUME NEW j \in DOMAIN session', session'[j].open, session'[j].tap # None
               PROVE  macTapPort'[session'[j].mac] = session'[j].tap
    BY DEF TapPortIsKept
  <2>1. macTapPort[session[j].mac] = session[j].tap
    BY <1>2, <1>3 DEF SessionsOK, TapPortIsKept
  <2> QED BY <1>2, <1>3, <2>1
<1>7. Configuring'
  BY <1>2 DEF SessionsOK, Configuring
<1> QED BY <1>4, <1>5, <1>6, <1>7 DEF SessionsOK

LEMMA DisconnectKeepsAll ==
    ASSUME TapsOK, SessionsOK, NEW m \in Mac, NEW cleaned, Disconnect(m, cleaned)
    PROVE  /\ TapsOK' /\ SessionsOK'
           /\ vxlan' = vxlan \/ \E port : vxlan' = RemoveInterface(port)
<1>1. CASE macSession[m] = None
  <2>1. UNCHANGED <<macSession, session, taps, vxlan>>
    BY <1>1 DEF Disconnect
  <2>2. TapsOK'
    BY <2>1 DEF taps, TapsOK, TapTypes, TapPortsConserved, TapPortsBounded, TapPortsDistinct, Allocated
  <2>3. SessionsOK'
    BY <2>1 DEF taps, SessionsOK, SessionTypes, SessionsOwned, OneOpenSession, TapPortIsKept, Configuring
  <2> QED BY <2>1, <2>2, <2>3
<1>2. CASE macSession[m] # None
  <2>1. /\ session' = [session EXCEPT ![macSession[m]].open = FALSE]
        /\ macSession' = [macSession EXCEPT ![m] = None]
        /\ FreeEndpoint(m, cleaned)
    BY <1>2 DEF Disconnect
  <2>2. /\ TapsOK'
        /\ \A n \in Mac : n # m => macTapPort'[n] = macTapPort[n]
        /\ vxlan' = vxlan \/ \E port : vxlan' = RemoveInterface(port)
    BY <2>1, FreeKeepsTaps
  <2>3. /\ DOMAIN session' = DOMAIN session
        /\ \A j \in DOMAIN session :
               IF j = macSession[m] THEN session'[j] = [session[j] EXCEPT !.open = FALSE]
               ELSE session'[j] = session[j]
    BY <2>1, SessionNumbers DEF SessionsOK, SessionTypes
  <2>4. SessionTypes'
    <3>1. \A j \in DOMAIN session : session'[j] \in SessionRecord
      BY <2>3, SessionNumbers, ClosedRecord
    <3>2. session' = [j \in DOMAIN session' |-> session'[j]]
      BY <2>1
    <3>3. session' \in [DOMAIN session' -> SessionRecord]
      BY <2>3, <3>1, <3>2
    <3>4. macSession' \in [Mac -> DOMAIN session' \cup {None}]
      BY <2>1, <2>3 DEF SessionsOK, SessionTypes
    <3> QED BY <2>3, <3>3, <3>4 DEF SessionsOK, SessionTypes
  <2>5. SessionsOK'
    BY <2>1, <2>2, <2>3, <2>4, ClosedKeepsSessions
  <2> QED BY <2>2, <2>5
<1> QED BY <1>1, <1>2

LEMMA HandleEndpointKeepsAll ==
    ASSUME TapsOK, SessionsOK, NEW i \in DOMAIN session, HandleEndpoint(i)
    PROVE  TapsOK' /\ SessionsOK'
<1> PICK m : m = session[i].mac
  OBVIOUS
<1>1. m \in Mac /\ AllocateTapPort(m)
  BY SessionNumbers DEF HandleEndpoint
<1>2. /\ TapsOK'
      /\ macTapPort'[m] \in Nat
      /\ \A n \in Mac : macTapPort[n] # None => macTapPort'[n] = macTapPort[n]
  BY <1>1, AllocateKeepsTaps
<1> PICK record : record = [session[i] EXCEPT !.at = "configure", !.progress = None, !.tap = macTapPort'[m]]
  OBVIOUS
<1>3. /\ record \in SessionRecord
      /\ record.mac = m /\ record.open = session[i].open /\ record.tap = macTapPort'[m]
  <2>1. session[i] \in SessionRecord
    BY SessionNumbers
  <2>2. record \in SessionRecord
    BY <1>2, <2>1, ConfiguringRecord
  <2> QED BY <2>1, <2>2 DEF SessionRecord
<1>4. session' = [session EXCEPT ![i] = record] /\ macSession' = macSession
  BY DEF HandleEndpoint
<1>5. /\ DOMAIN session' = DOMAIN session
      /\ session'[i] = record
      /\ \A j \in DOMAIN session : j # i => session'[j] = session[j]
  BY <1>4 DEF SessionsOK, SessionTypes
<1>6. \A j \in DOMAIN session :
         session'[j].mac = session[j].mac /\ session'[j].open = session[j].open
  BY <1>3, <1>5
<1>7. SessionTypes'
  BY <1>3, <1>4, <1>5 DEF SessionsOK, SessionTypes
<1>8. SessionsOwned'
  BY <1>4, <1>5, <1>6, SessionNumbers DEF SessionsOK, SessionsOwned
<1>9. OneOpenSession'
  BY <1>4, <1>5, <1>6 DEF SessionsOK, OneOpenSession
<1>10. TapPortIsKept'
  <2> SUFFICES ASSUME NEW j \in DOMAIN session, session'[j].open, session'[j].tap # None
               PROVE  macTapPort'[session'[j].mac] = session'[j].tap
    BY <1>5 DEF TapPortIsKept
  <2>1. CASE j = i
    BY <2>1, <1>3, <1>5
  <2>2. CASE j # i
    <3>1. macTapPort[session[j].mac] = session[j].tap /\ session[j].tap # None
      BY <2>2, <1>5 DEF SessionsOK, TapPortIsKept
    <3> QED BY <3>1, <2>2, <1>2, <1>5, SessionNumbers
  <2> QED BY <2>1, <2>2
<1>11. Configuring'
  BY <1>2, <1>3, <1>5 DEF SessionsOK, Configuring
<1> QED BY <1>2, <1>7, <1>8, <1>9, <1>10, <1>11 DEF SessionsOK

LEMMA ThreadEndsKeepsAll ==
    ASSUME TapsOK, SessionsOK, NEW i \in DOMAIN session, ThreadEnds(i)
    PROVE  /\ TapsOK' /\ SessionsOK'
           /\ vxlan' = vxlan \/ \E port : vxlan' = RemoveInterface(port)
<1> PICK m : m = session[i].mac
  OBVIOUS
<1>1. /\ m \in Mac
      /\ session' = [j \in DOMAIN session \ {i} |->
                        IF j = macSession[m] THEN [session[j] EXCEPT !.open = FALSE] ELSE session[j]]
      /\ macSession' = [macSession EXCEPT ![m] = None]
  BY SessionNumbers DEF ThreadEnds
<1>2. /\ TapsOK'
      /\ \A n \in Mac : n # m => macTapPort'[n] = macTapPort[n]
      /\ vxlan' = vxlan \/ \E port : vxlan' = RemoveInterface(port)
  <2>1. CASE macSession[m] = None
    <3>1. UNCHANGED <<taps, vxlan>>
      BY <2>1 DEF ThreadEnds
    <3> QED BY <3>1 DEF taps, TapsOK, TapTypes, TapPortsConserved, TapPortsBounded, TapPortsDistinct, Allocated
  <2>2. CASE macSession[m] # None
    <3>1. PICK cleaned \in BOOLEAN : FreeEndpoint(m, cleaned)
      BY <2>2 DEF ThreadEnds
    <3> QED BY <1>1, <3>1, FreeKeepsTaps
  <2> QED BY <2>1, <2>2
<1>3. /\ DOMAIN session' = DOMAIN session \ {i}
      /\ \A j \in DOMAIN session' :
             IF j = macSession[m] THEN session'[j] = [session[j] EXCEPT !.open = FALSE]
             ELSE session'[j] = session[j]
  BY <1>1
<1>4. SessionTypes'
  <2>1. \A j \in DOMAIN session' : session'[j] \in SessionRecord
    BY <1>3, SessionNumbers, ClosedRecord
  <2>2. session' = [j \in DOMAIN session' |-> session'[j]]
    BY <1>1
  <2>3. session' \in [DOMAIN session' -> SessionRecord]
    BY <2>1, <2>2
  <2>4. ASSUME NEW n \in Mac PROVE macSession'[n] \in DOMAIN session' \cup {None}
    BY <1>1, <1>3, SessionNumbers DEF SessionsOK, SessionTypes
  <2>5. macSession' \in [Mac -> DOMAIN session' \cup {None}]
    BY <1>1, <2>4 DEF SessionsOK, SessionTypes
  <2> QED BY <1>3, <2>3, <2>5 DEF SessionsOK, SessionTypes
<1>5. SessionsOK'
  <2>1. DOMAIN session' \subseteq DOMAIN session
    BY <1>3
  <2> QED BY <1>1, <1>2, <1>3, <1>4, <2>1, ClosedKeepsSessions
<1> QED BY <1>2, <1>5

-----------------------------------------------------------------------------
(* The invariant. *)

TunnelTypes == DOMAIN vxlan \in SUBSET Nat /\ \A p \in DOMAIN vxlan : vxlan[p] \in Mac

LEMMA RemoveKeepsTypes ==
    ASSUME TunnelTypes, NEW port, vxlan' = RemoveInterface(port)
    PROVE  TunnelTypes'
BY DEF TunnelTypes, RemoveInterface

LEMMA InitInvariant == Init => SessionInvariant
<1> SUFFICES ASSUME Init PROVE SessionInvariant
  OBVIOUS
<1>1. OtherTypes
  BY DEF Init, OtherTypes
<1>2. Allocated = {}
  BY DEF Init, Allocated
<1>3. TapsOK
  <2>1. TapTypes
    BY Constants DEF Init, TapTypes
  <2>2. BasePort .. nextPort - 1 = {} /\ BasePort <= nextPort /\ nextPort = BasePort
    BY Constants DEF Init
  <2>3. TapPortsDistinct
    BY DEF Init, TapPortsDistinct
  <2>4. TapPortsBounded
    BY Constants, FS_CardinalityType, <2>2 DEF TapPortsBounded
  <2> QED BY <1>2, <2>1, <2>2, <2>3, <2>4 DEF Init, TapsOK, TapPortsConserved
<1>4. SessionsOK
  BY DEF Init, SessionsOK, SessionTypes, SessionsOwned, OneOpenSession, TapPortIsKept, Configuring
<1> QED BY <1>1, <1>3, <1>4 DEF SessionInvariant

LEMMA ThreadKeepsInvariant ==
    ASSUME SessionInvariant, NEW i \in DOMAIN session, Thread(i)
    PROVE  SessionInvariant'
<1>0. TapsOK /\ SessionsOK /\ OtherTypes /\ TunnelTypes
  BY DEF SessionInvariant, OtherTypes, TunnelTypes
<1>1. session[i] \in SessionRecord /\ session[i].mac \in Mac
  BY <1>0, SessionNumbers
<1>2. UNCHANGED <<reports, mainLoop>>
  BY DEF Thread, Receive, StreamEnds, HandleResult, HandleEndpoint, ConfigureInterface, ThreadEnds
<1>3. ASSUME UNCHANGED taps PROVE TapsOK' /\ macTapPort' = macTapPort
  BY <1>0, <1>3 DEF taps, TapsOK, TapTypes, TapPortsConserved, TapPortsBounded, TapPortsDistinct, Allocated
<1>4. ASSUME TapsOK', SessionsOK', TunnelTypes' PROVE SessionInvariant'
  BY <1>0, <1>2, <1>4 DEF SessionInvariant, OtherTypes, TunnelTypes, reports
<1>5. ASSUME UNCHANGED vxlan PROVE TunnelTypes'
  BY <1>0, <1>5 DEF TunnelTypes
<1>6. ASSUME vxlan' = vxlan \/ \E port : vxlan' = RemoveInterface(port) PROVE TunnelTypes'
  BY <1>0, <1>5, <1>6, RemoveKeepsTypes
<1>7. CASE Receive(i)
  <2>1. PICK progress \in Progress :
          session' = [session EXCEPT ![i].at = "handle", ![i].progress = progress, ![i].messages = @ + 1]
    BY <1>7 DEF Receive
  <2> PICK record : record = [session[i] EXCEPT !.at = "handle", !.progress = progress, !.messages = @ + 1]
    OBVIOUS
  <2>2. /\ session' = [session EXCEPT ![i] = record]
        /\ record \in SessionRecord
        /\ record.mac = session[i].mac /\ record.open = session[i].open /\ record.tap = session[i].tap
        /\ record.at # "configure"
    <3>1. record \in SessionRecord
      <4>1. session[i].messages < MaxMessages
        BY <1>7 DEF Receive
      <4> QED BY <1>1, <4>1, ReceivedRecord
    <3> QED BY <1>1, <2>1, <3>1 DEF SessionRecord
  <2>3. UNCHANGED <<macSession, taps, vxlan>>
    BY <1>7 DEF Receive
  <2>4. SessionsOK'
    BY <1>0, <1>3, <2>2, <2>3, ThreadOnly
  <2> QED BY <1>3, <1>4, <1>5, <2>3, <2>4
<1>8. CASE StreamEnds(i)
  <2> PICK record : record = [session[i] EXCEPT !.at = "disconnect"]
    OBVIOUS
  <2>2. /\ session' = [session EXCEPT ![i] = record]
        /\ record \in SessionRecord
        /\ record.mac = session[i].mac /\ record.open = session[i].open /\ record.tap = session[i].tap
        /\ record.at # "configure"
    BY <1>1, <1>8 DEF SessionRecord, StreamEnds, Go
  <2>3. UNCHANGED <<macSession, taps, vxlan>>
    BY <1>8 DEF StreamEnds
  <2>4. SessionsOK'
    BY <1>0, <1>3, <2>2, <2>3, ThreadOnly
  <2> QED BY <1>3, <1>4, <1>5, <2>3, <2>4
<1>9. CASE HandleResult(i)
  <2> PICK place : place = IF Terminal(session[i].progress) THEN "disconnect" ELSE "stream"
    OBVIOUS
  <2> PICK record : record = [session[i] EXCEPT !.at = place, !.progress = None]
    OBVIOUS
  <2>2. /\ session' = [session EXCEPT ![i] = record]
        /\ record \in SessionRecord
        /\ record.mac = session[i].mac /\ record.open = session[i].open /\ record.tap = session[i].tap
        /\ record.at # "configure"
    BY <1>1, <1>9 DEF SessionRecord, HandleResult
  <2>3. UNCHANGED <<macSession, taps, vxlan>>
    BY <1>9 DEF HandleResult
  <2>4. SessionsOK'
    BY <1>0, <1>3, <2>2, <2>3, ThreadOnly
  <2> QED BY <1>3, <1>4, <1>5, <2>3, <2>4
<1>10. CASE HandleEndpoint(i)
  <2>1. UNCHANGED vxlan
    BY <1>10 DEF HandleEndpoint
  <2> QED BY <1>0, <1>4, <1>5, <1>10, <2>1, HandleEndpointKeepsAll
<1>11. CASE ConfigureInterface(i)
  <2> PICK port : port = session[i].tap
    OBVIOUS
  <2>1. port \in Nat
    BY <1>0, <1>11 DEF ConfigureInterface, SessionsOK, Configuring
  <2>2. TunnelTypes' /\ \E place \in {"stream", "disconnect"} : Go(i, place)
    <3>1. CASE /\ vxlan' = [p \in DOMAIN vxlan \cup {port} |-> IF p = port THEN session[i].mac ELSE vxlan[p]]
               /\ Go(i, "stream")
      BY <1>0, <1>1, <2>1, <3>1 DEF TunnelTypes
    <3>2. CASE vxlan' \in {vxlan, RemoveInterface(port)} /\ Go(i, "disconnect")
      BY <1>6, <3>2
    <3> QED BY <1>11, <3>1, <3>2 DEF ConfigureInterface
  <2>3. PICK place \in {"stream", "disconnect"} : Go(i, place)
    BY <2>2
  <2> PICK record : record = [session[i] EXCEPT !.at = place]
    OBVIOUS
  <2>4. /\ session' = [session EXCEPT ![i] = record]
        /\ record \in SessionRecord
        /\ record.mac = session[i].mac /\ record.open = session[i].open /\ record.tap = session[i].tap
        /\ record.at # "configure"
    BY <1>1, <2>3 DEF SessionRecord, Go
  <2>5. UNCHANGED <<macSession, taps>>
    BY <1>11 DEF ConfigureInterface
  <2>6. SessionsOK'
    BY <1>0, <1>3, <2>4, <2>5, ThreadOnly
  <2> QED BY <1>3, <1>4, <2>2, <2>5, <2>6
<1>12. CASE ThreadEnds(i)
  BY <1>0, <1>4, <1>6, <1>12, ThreadEndsKeepsAll
<1> QED BY <1>7, <1>8, <1>9, <1>10, <1>11, <1>12 DEF Thread

LEMMA NextKeepsInvariant == SessionInvariant /\ [Next]_vars => SessionInvariant'
<1> SUFFICES ASSUME SessionInvariant, [Next]_vars PROVE SessionInvariant'
  OBVIOUS
<1>0. TapsOK /\ SessionsOK /\ OtherTypes /\ TunnelTypes
  BY DEF SessionInvariant, OtherTypes, TunnelTypes
<1>1. ASSUME UNCHANGED taps PROVE TapsOK' /\ macTapPort' = macTapPort
  BY <1>0, <1>1 DEF taps, TapsOK, TapTypes, TapPortsConserved, TapPortsBounded, TapPortsDistinct, Allocated
<1>2. ASSUME vxlan' = vxlan \/ \E port : vxlan' = RemoveInterface(port) PROVE TunnelTypes'
  <2>1. CASE vxlan' = vxlan
    BY <1>0, <2>1 DEF TunnelTypes
  <2> QED BY <1>0, <1>2, <2>1, RemoveKeepsTypes
<1>3. ASSUME NEW p \in Port, NEW m \in Mac, NEW vlan \in DeviceVlan, ProcessPortLearn(p, m, vlan)
      PROVE  SessionInvariant'
  <2>1. /\ SessionReady(m, vlan, assignedVlan[m]) /\ UNCHANGED <<assignedVlan, taps, vxlan, mainLoop>>
        /\ dpMac' = [dpMac EXCEPT ![p] = m] /\ deviceVlan' = [deviceVlan EXCEPT ![m] = vlan]
    BY <1>3 DEF ProcessPortLearn
  <2>2. assignedVlan[m] \in SegmentVlan \cup {None}
    BY <1>0 DEF OtherTypes
  <2>3. SessionsOK'
    BY <1>0, <1>1, <2>1, <2>2, ReadyKeepsSessions
  <2>4. OtherTypes'
    BY <1>0, <2>1 DEF OtherTypes
  <2> QED BY <1>1, <2>1, <2>3, <2>4 DEF SessionInvariant
<1>4. ASSUME NEW m \in Mac, NEW device \in DeviceVlan, NEW assigned \in SegmentVlan,
             ProcessPortAssign(m, device, assigned)
      PROVE  SessionInvariant'
  <2>1. /\ SessionReady(m, device, assigned) /\ UNCHANGED <<dpMac, taps, vxlan, mainLoop>>
        /\ deviceVlan' = [deviceVlan EXCEPT ![m] = device] /\ assignedVlan' = [assignedVlan EXCEPT ![m] = assigned]
    BY <1>4 DEF ProcessPortAssign
  <2>2. SessionsOK'
    BY <1>0, <1>1, <2>1, ReadyKeepsSessions
  <2>3. OtherTypes'
    BY <1>0, <2>1 DEF OtherTypes
  <2> QED BY <1>1, <2>1, <2>2, <2>3 DEF SessionInvariant
<1>5. ASSUME NEW p \in Port, ProcessPortDown(p) PROVE SessionInvariant'
  <2>1. PICK cleaned \in BOOLEAN :
          /\ Disconnect(dpMac[p], cleaned)
          /\ mainLoop' = IF cleaned THEN mainLoop ELSE "ended"
    BY <1>5 DEF ProcessPortDown
  <2>2. dpMac[p] \in Mac /\ UNCHANGED reports
    BY <1>0, <1>5 DEF ProcessPortDown, OtherTypes
  <2>3. TapsOK' /\ SessionsOK' /\ TunnelTypes'
    BY <1>0, <1>2, <2>1, <2>2, DisconnectKeepsAll
  <2>4. OtherTypes'
    BY <1>0, <2>1, <2>2, <2>3 DEF OtherTypes, TunnelTypes, reports
  <2> QED BY <2>3, <2>4 DEF SessionInvariant
<1>6. ASSUME NEW m \in Mac, SequesteringTimeout(m) PROVE SessionInvariant'
  <2>1. PICK cleaned \in BOOLEAN : Disconnect(m, cleaned)
    BY <1>6 DEF SequesteringTimeout
  <2>2. UNCHANGED <<reports, mainLoop>>
    BY <1>6 DEF SequesteringTimeout
  <2>3. TapsOK' /\ SessionsOK' /\ TunnelTypes'
    BY <1>0, <1>2, <2>1, DisconnectKeepsAll
  <2>4. OtherTypes'
    BY <1>0, <2>2, <2>3 DEF OtherTypes, TunnelTypes, reports
  <2> QED BY <2>3, <2>4 DEF SessionInvariant
<1>7. CASE UNCHANGED vars
  <2>1. UNCHANGED <<reports, macSession, session, taps, vxlan, mainLoop>>
    BY <1>7 DEF vars
  <2>2. OtherTypes'
    BY <1>0, <2>1 DEF OtherTypes, reports
  <2>3. SessionsOK'
    BY <1>0, <2>1 DEF taps, SessionsOK, SessionTypes, SessionsOwned, OneOpenSession, TapPortIsKept, Configuring
  <2> QED BY <1>1, <2>1, <2>2, <2>3 DEF SessionInvariant
<1> QED BY <1>3, <1>4, <1>5, <1>6, <1>7, ThreadKeepsInvariant DEF Next

LEMMA InvariantHolds == Spec => []SessionInvariant
BY InitInvariant, NextKeepsInvariant, PTL DEF Spec

\* However allocations and releases of the threads, of the main loop and of the timeouts
\* follow one another, no tap port is handed out twice or lost, there are never more than
\* devices, and the configuration file has those in use (_allocate_tap_port, free_endpoint).
THEOREM TapPortsAreConserved == Spec => []Inv
<1>1. SessionInvariant => Inv
  <2> SUFFICES ASSUME SessionInvariant PROVE Inv
    OBVIOUS
  <2>1. TypeOK
    BY DEF SessionInvariant, OtherTypes, TapsOK, TapTypes, SessionsOK, SessionTypes, SessionRecord, TypeOK
  <2> QED BY <2>1 DEF SessionInvariant, TapsOK, Inv
<1> QED BY <1>1, InvariantHolds, PTL

\* A device has one open session at most, the one `disconnect` reaches, although the threads
\* of its earlier sessions end with a disconnect of their own (_process_progress).
THEOREM SessionsAreReached == Spec => []OneOpenSession
<1>1. SessionInvariant => OneOpenSession
  BY DEF SessionInvariant, SessionsOK
<1> QED BY <1>1, InvariantHolds, PTL

\* Nobody takes the tap port of an open session from it (process_endpoint, free_endpoint).
THEOREM OpenSessionsKeepTheirPort == Spec => []TapPortIsKept
<1>1. SessionInvariant => TapPortIsKept
  BY DEF SessionInvariant, SessionsOK
<1> QED BY <1>1, InvariantHolds, PTL

=============================================================================
