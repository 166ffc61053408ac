--------------------------- MODULE SystemStateProofs ---------------------------
(***************************************************************************)
(* What is proved of SystemState for every number of nodes, controllers    *)
(* and processes and all thresholds: the hysteresis of the pings, the      *)
(* active state, what a healthy system says, and when hosts are forgotten. *)
(***************************************************************************)
EXTENDS SystemState, SequenceTheorems, TLAPS

LEMMA Thresholds ==
    /\ MinHealthy \in Nat \ {0} /\ MinDown \in Nat \ {0} /\ Larger \in Nat \ {0}
    /\ MinHealthy <= Larger /\ MinDown <= Larger
BY ConfigAssumption DEF Larger

-----------------------------------------------------------------------------
(* The pings of one node, against the count of those that were like the last one. *)

\* The pings that are kept after one more.
Latest(s, answer) ==
    IF Len(Append(s, answer)) > Larger + 1 THEN Tail(Append(s, answer)) ELSE Append(s, answer)

Counted(s, last, count) ==
    IF s = <<>> THEN last = None /\ count = 0
    ELSE /\ count \in 0 .. Len(s) - 1
         /\ \A j \in 0 .. count : s[Len(s) - j] = last
         /\ count < Larger => count = Len(s) - 1 \/ s[Len(s) - count - 1] # last

\* The last `count' elements of a sequence are the same.
Ends(s, answer, count) ==
    /\ Len(s) >= count
    /\ \A i \in Len(s) - count + 1 .. Len(s) : s[i] = answer

LEMMA LatestProperties ==
    ASSUME NEW S, NEW s \in Seq(S), Len(s) <= Larger + 1, NEW b \in S
    PROVE  /\ Latest(s, b) \in Seq(S)
           /\ Len(Latest(s, b)) = IF Len(s) = Larger + 1 THEN Larger + 1 ELSE Len(s) + 1
           /\ Latest(s, b)[Len(Latest(s, b))] = b
           /\ \A j \in 1 .. Len(Latest(s, b)) - 1 :
                  Latest(s, b)[Len(Latest(s, b)) - j] = s[Len(s) + 1 - j]
<1> PICK t : t = Latest(s, b)
  OBVIOUS
<1> PICK all : all = Append(s, b)
  OBVIOUS
<1>0. Larger \in Nat /\ Len(s) \in Nat
  BY Thresholds, LenProperties
<1>1. /\ all \in Seq(S)
      /\ Len(all) = Len(s) + 1
      /\ all[Len(s) + 1] = b
      /\ \A i \in 1 .. Len(s) : all[i] = s[i]
  BY AppendProperties
<1>2. CASE Len(s) = Larger + 1
  <2>1. t = Tail(all) /\ all # <<>>
    BY <1>0, <1>1, <1>2, EmptySeq DEF Latest
  <2>2. t \in Seq(S) /\ Len(t) = Len(all) - 1 /\ \A i \in 1 .. Len(t) : t[i] = all[i + 1]
    BY <1>1, <2>1, HeadTailProperties
  <2>3. Len(t) = Larger + 1 /\ t[Len(t)] = b
    BY <1>0, <1>1, <1>2, <2>2
  <2>4. ASSUME NEW j \in 1 .. Len(t) - 1 PROVE t[Len(t) - j] = s[Len(s) + 1 - j]
    <3>1. Len(t) - j \in 1 .. Len(t) /\ Len(t) - j + 1 = Len(s) + 1 - j /\ Len(s) + 1 - j \in 1 .. Len(s)
      BY <1>0, <1>2, <2>3
    <3> QED BY <1>1, <2>2, <3>1
  <2> QED BY <1>2, <2>2, <2>3, <2>4
<1>3. CASE Len(s) # Larger + 1
  <2>1. t = all
    BY <1>0, <1>1, <1>3 DEF Latest
  <2> QED BY <1>0, <1>1, <1>3, <2>1
<1> QED BY <1>2, <1>3

\* A ping counts as one more of its kind; the first of a kind as none.
LEMMA PingIsCounted ==
    ASSUME NEW S, None \notin S, NEW s \in Seq(S), Len(s) <= Larger + 1,
           NEW last, NEW count \in 0 .. Larger, Counted(s, last, count),
           NEW b \in S, NEW t, t = Latest(s, b),
           NEW next, next = IF last # b THEN 0 ELSE IF count = Larger THEN Larger ELSE count + 1
    PROVE  /\ t \in Seq(S) /\ t # <<>> /\ Len(t) <= Larger + 1
           /\ next \in 0 .. Larger
           /\ Counted(t, b, next)
<1>0. Larger \in Nat \ {0} /\ Len(s) \in Nat /\ Len(s) <= Larger + 1 /\ (s # <<>> => Len(s) >= 1)
  BY Thresholds, LenProperties, EmptySeq
<1>1. /\ t \in Seq(S)
      /\ Len(t) = IF Len(s) = Larger + 1 THEN Larger + 1 ELSE Len(s) + 1
      /\ t[Len(t)] = b
      /\ \A j \in 1 .. Len(t) - 1 : t[Len(t) - j] = s[Len(s) + 1 - j]
  <2>1. /\ Latest(s, b) \in Seq(S)
        /\ Len(Latest(s, b)) = IF Len(s) = Larger + 1 THEN Larger + 1 ELSE Len(s) + 1
    BY LatestProperties
  <2>2. Latest(s, b)[Len(Latest(s, b))] = b
    BY LatestProperties
  <2>3. \A j \in 1 .. Len(Latest(s, b)) - 1 :
           Latest(s, b)[Len(Latest(s, b)) - j] = s[Len(s) + 1 - j]
    BY LatestProperties
  <2> QED BY <2>1, <2>2, <2>3
<1>2. Len(t) \in Nat /\ Len(t) >= 1 /\ Len(t) <= Larger + 1 /\ t # <<>> /\ next \in 0 .. Larger
  BY <1>0, <1>1, EmptySeq
<1>3. CASE last # b
  <2>1. next = 0
    BY <1>3
  <2>2. CASE s = <<>>
    <3>1. Len(t) = 1
      BY <1>0, <1>1, <2>2, EmptySeq
    <3>2. next \in 0 .. Len(t) - 1 /\ next = Len(t) - 1 /\ \A j \in 0 .. next : t[Len(t) - j] = b
      <4>1. \A j \in 0 .. next : j = 0
        BY <2>1
      <4>2. t[Len(t) - 0] = b
        BY <1>1, <3>1
      <4> QED BY <2>1, <3>1, <4>1, <4>2
    <3>3. Counted(t, b, next)
      BY <1>2, <3>2, Zenon DEF Counted
    <3> QED BY <1>1, <1>2, <3>3
  <2>3. CASE s # <<>>
    <3>1. s[Len(s)] = last
      BY <1>0, <2>3 DEF Counted
    <3>2. t[Len(t) - 1] = last
      BY <1>0, <1>1, <2>3, <3>1
    <3>3. next \in 0 .. Len(t) - 1 /\ Len(t) - next - 1 = Len(t) - 1 /\ \A j \in 0 .. next : t[Len(t) - j] = b
      BY <1>1, <1>2, <2>1
    <3>4. t[Len(t) - next - 1] # b
      BY <1>3, <3>2, <3>3
    <3>5. Counted(t, b, next)
      BY <1>2, <3>3, <3>4, Zenon DEF Counted
    <3> QED BY <1>1, <1>2, <3>5
  <2> QED BY <2>2, <2>3
<1>4. CASE last = b
  <2>1. /\ s # <<>>
        /\ count \in 0 .. Len(s) - 1
        /\ \A j \in 0 .. count : s[Len(s) - j] = last
        /\ count < Larger => count = Len(s) - 1 \/ s[Len(s) - count - 1] # last
    BY <1>4 DEF Counted
  <2>2. CASE count = Larger
    <3>1. Len(s) = Larger + 1 /\ Len(t) = Larger + 1 /\ next = Larger
      BY <1>0, <1>1, <1>4, <2>1, <2>2
    <3>2. ASSUME NEW j \in 0 .. Larger PROVE t[Len(t) - j] = b
      <4>1. CASE j = 0
        BY <1>1, <1>2, <4>1
      <4>2. CASE j # 0
        <5>1. j \in 1 .. Len(t) - 1 /\ j - 1 \in 0 .. count
          BY <1>0, <2>2, <3>1, <4>2
        <5>2. t[Len(t) - j] = s[Len(s) + 1 - j] /\ s[Len(s) - (j - 1)] = last
          BY <1>1, <2>1, <5>1
        <5>3. Len(s) - (j - 1) = Len(s) + 1 - j
          BY <1>0
        <5> QED BY <1>4, <5>2, <5>3
      <4> QED BY <4>1, <4>2
    <3>3. next \in 0 .. Len(t) - 1 /\ ~(next < Larger) /\ \A j \in 0 .. next : t[Len(t) - j] = b
      BY <1>0, <3>1, <3>2
    <3>4. Counted(t, b, next)
      BY <1>2, <3>3, Zenon DEF Counted
    <3> QED BY <1>1, <1>2, <3>4
  <2>3. CASE count # Larger
    <3>1. next = count + 1 /\ count < Larger /\ next \in 0 .. Len(t) - 1
      BY <1>0, <1>1, <1>4, <2>1, <2>3
    <3>2. ASSUME NEW j \in 0 .. next PROVE t[Len(t) - j] = b
      <4>1. CASE j = 0
        BY <1>1, <1>2, <4>1
      <4>2. CASE j # 0
        <5>1. j \in 1 .. Len(t) - 1 /\ j - 1 \in 0 .. count
          BY <1>0, <1>2, <3>1, <4>2
        <5>2. t[Len(t) - j] = s[Len(s) + 1 - j] /\ s[Len(s) - (j - 1)] = last
          BY <1>1, <2>1, <5>1
        <5>3. Len(s) - (j - 1) = Len(s) + 1 - j
          BY <1>0
        <5> QED BY <1>4, <5>2, <5>3
      <4> QED BY <4>1, <4>2
    <3>3. next < Larger => next = Len(t) - 1 \/ t[Len(t) - next - 1] # b
      <4> SUFFICES ASSUME next < Larger, next # Len(t) - 1 PROVE t[Len(t) - next - 1] # b
        OBVIOUS
      <4>1. next + 1 \in 1 .. Len(t) - 1
        BY <1>2, <3>1
      <4>2. count # Len(s) - 1
        BY <1>0, <1>1, <3>1
      <4>3. s[Len(s) - count - 1] # last
        BY <2>1, <3>1, <4>2
      <4>4. t[Len(t) - (next + 1)] = s[Len(s) + 1 - (next + 1)]
        BY <1>1, <4>1
      <4>5. Len(t) - (next + 1) = Len(t) - next - 1 /\ Len(s) + 1 - (next + 1) = Len(s) - count - 1
        BY <1>0, <1>2, <3>1
      <4> QED BY <1>4, <4>3, <4>4, <4>5
    <3>4. Counted(t, b, next)
      BY <1>2, <3>1, <3>2, <3>3, Zenon DEF Counted
    <3> QED BY <1>1, <1>2, <3>4
  <2> QED BY <2>2, <2>3
<1> QED BY <1>1, <1>2, <1>3, <1>4

\* The count says whether the last pings were all alike, up to the larger threshold.
LEMMA CountIsRight ==
    ASSUME NEW S, NEW s \in Seq(S), s # <<>>, NEW last, NEW count \in 0 .. Larger, Counted(s, last, count),
           NEW k \in Nat, k <= Larger, NEW answer
    PROVE  Ends(s, answer, k + 1) <=> last = answer /\ count >= k
<1>0. Larger \in Nat /\ Len(s) \in Nat \ {0}
  BY Thresholds, EmptySeq
<1>1. /\ count \in 0 .. Len(s) - 1
      /\ \A j \in 0 .. count : s[Len(s) - j] = last
      /\ count < Larger => count = Len(s) - 1 \/ s[Len(s) - count - 1] # last
  BY DEF Counted
<1>2. ASSUME last = answer, count >= k PROVE Ends(s, answer, k + 1)
  <2>1. Len(s) >= k + 1
    BY <1>0, <1>1, <1>2
  <2>2. ASSUME NEW i \in Len(s) - (k + 1) + 1 .. Len(s) PROVE s[i] = answer
    <3>1. Len(s) - i \in 0 .. count /\ Len(s) - (Len(s) - i) = i
      BY <1>0, <1>2
    <3>2. s[Len(s) - (Len(s) - i)] = last
      BY <1>1, <3>1
    <3> QED BY <1>2, <3>1, <3>2
  <2> QED BY <2>1, <2>2 DEF Ends
<1>3. ASSUME Ends(s, answer, k + 1) PROVE last = answer /\ count >= k
  <2>1. Len(s) >= k + 1 /\ \A i \in Len(s) - (k + 1) + 1 .. Len(s) : s[i] = answer
    BY <1>3 DEF Ends
  <2>2. last = answer
    <3>1. s[Len(s)] = answer
      BY <1>0, <2>1
    <3>2. s[Len(s) - 0] = last /\ Len(s) - 0 = Len(s)
      BY <1>0, <1>1
    <3> QED BY <3>1, <3>2
  <2>3. ASSUME count < k PROVE FALSE
    <3>1. Len(s) - count - 1 \in Len(s) - (k + 1) + 1 .. Len(s) /\ count # Len(s) - 1 /\ count < Larger
      BY <1>0, <1>1, <2>1, <2>3
    <3>2. s[Len(s) - count - 1] = answer
      BY <2>1, <3>1
    <3> QED BY <1>1, <2>2, <3>1, <3>2
  <2> QED BY <2>2, <2>3
<1> QED BY <1>2, <1>3

-----------------------------------------------------------------------------
(* The control plane network. *)

NodeState == {"unknown", "healthy", "damaged", "down"}

PingTypes ==
    /\ pings \in [Node -> Seq(BOOLEAN)]
    /\ lastPing \in [Node -> BOOLEAN \cup {None}]
    /\ consecutive \in [Node -> 0 .. Larger]
    /\ nodeState \in [Node -> NodeState]
    /\ pingLoop \in {"no nodes", "running", "ended"}

\* What is stored of a node is what its latest pings say.
NodesCounted ==
    \A n \in Node :
        /\ Len(pings[n]) <= Larger + 1
        /\ Counted(pings[n], lastPing[n], consecutive[n])
        /\ pings[n] # <<>> => nodeState[n] = NodeStateAfter(lastPing[n], consecutive[n])

\* All nodes are pinged together.
NetworkSummed ==
    \/ (\A n \in Node : pings[n] = <<>>) /\ cpnState \in {"initializing", "broken"}
    \/ (\A n \in Node : pings[n] # <<>>) /\ cpnState = CpnStateOf(nodeState)

PingsOK == PingTypes /\ NodesCounted /\ NetworkSummed

LEMMA PingHostsKeepsPings ==
    ASSUME PingsOK, NEW answers \in SUBSET Node, PingHosts(answers)
    PROVE  PingsOK'
<1> DEFINE answered(n) == n \in answers
<1>1. /\ pings' = [n \in Node |-> Latest(pings[n], answered(n))]
      /\ lastPing' = [n \in Node |-> answered(n)]
      /\ consecutive' = [n \in Node |-> CountAfter(n, answered(n))]
      /\ nodeState' = [n \in Node |-> NodeStateAfter(answered(n), consecutive'[n])]
      /\ cpnState' = CpnStateOf(nodeState')
      /\ UNCHANGED pingLoop
  BY DEF PingHosts, Latest
<1> HIDE DEF answered
<1>2. ASSUME NEW n \in Node
      PROVE  /\ pings'[n] \in Seq(BOOLEAN) /\ pings'[n] # <<>> /\ Len(pings'[n]) <= Larger + 1
             /\ lastPing'[n] \in BOOLEAN
             /\ consecutive'[n] \in 0 .. Larger
             /\ Counted(pings'[n], lastPing'[n], consecutive'[n])
             /\ nodeState'[n] = NodeStateAfter(lastPing'[n], consecutive'[n])
             /\ nodeState'[n] \in NodeState
  <2> PICK b \in BOOLEAN : b = answered(n)
    <3>1. answered(n) \in BOOLEAN
      <4>1. answered(n) = TRUE \/ answered(n) = FALSE
        BY DEF answered
      <4> QED BY <4>1
    <3> QED BY <3>1, Zenon
  <2> PICK s \in Seq(BOOLEAN) : s = pings[n]
    BY DEF PingsOK, PingTypes
  <2> PICK last : last = lastPing[n]
    OBVIOUS
  <2> PICK count \in 0 .. Larger : count = consecutive[n]
    BY DEF PingsOK, PingTypes
  <2> PICK next : next = IF last # b THEN 0 ELSE IF count = Larger THEN Larger ELSE count + 1
    OBVIOUS
  <2>1. Len(s) <= Larger + 1 /\ Counted(s, last, count)
    BY DEF PingsOK, NodesCounted
  <2>2. None \notin BOOLEAN
    BY ConfigAssumption
  <2>3. PICK t : t = Latest(s, b)
    OBVIOUS
  <2>4. /\ t \in Seq(BOOLEAN) /\ t # <<>> /\ Len(t) <= Larger + 1
        /\ next \in 0 .. Larger
        /\ Counted(t, b, next)
    BY <2>1, <2>2, <2>3, PingIsCounted
  <2>5. pings'[n] = t /\ lastPing'[n] = b /\ consecutive'[n] = next
    BY <1>1, <2>3 DEF CountAfter
  <2>6. nodeState'[n] = NodeStateAfter(b, next)
    BY <1>1, <2>5
  <2>7. NodeStateAfter(b, next) \in NodeState
    BY DEF NodeStateAfter, NodeState
  <2> QED BY <2>4, <2>5, <2>6, <2>7
<1>3. PingTypes'
  <2>1. /\ DOMAIN pings' = Node /\ pings' = [n \in Node |-> pings'[n]]
        /\ lastPing' = [n \in Node |-> lastPing'[n]]
        /\ consecutive' = [n \in Node |-> consecutive'[n]]
        /\ nodeState' = [n \in Node |-> nodeState'[n]]
    BY <1>1
  <2>2. pings' \in [Node -> Seq(BOOLEAN)]
    BY <1>2, <2>1
  <2>3. lastPing' \in [Node -> BOOLEAN \cup {None}]
    BY <1>2, <2>1
  <2>4. consecutive' \in [Node -> 0 .. Larger] /\ nodeState' \in [Node -> NodeState]
    BY <1>2, <2>1
  <2> QED BY <1>1, <2>2, <2>3, <2>4 DEF PingTypes, PingsOK
<1>4. NodesCounted'
  BY <1>2, Zenon DEF NodesCounted
<1>5. NetworkSummed'
  BY <1>1, <1>2 DEF NetworkSummed
<1> QED BY <1>3, <1>4, <1>5 DEF PingsOK

LEMMA OthersKeepPings ==
    ASSUME PingsOK, UNCHANGED <<pings, lastPing, consecutive, nodeState, cpnState>>,
           pingLoop' \in {"no nodes", "running", "ended"}
    PROVE  PingsOK'
<1>1. PingTypes'
  BY DEF PingsOK, PingTypes
<1>2. NodesCounted'
  BY Zenon DEF PingsOK, NodesCounted
<1>3. NetworkSummed'
  BY DEF PingsOK, NetworkSummed
<1> QED BY <1>1, <1>2, <1>3 DEF PingsOK

LEMMA PingsAreRight == ASSUME PingsOK PROVE NodeStateIsRight
<1>1. ASSUME NEW n \in Node, pings[n] # <<>>
      PROVE  /\ nodeState[n] = "healthy" <=> AllOf(n, TRUE, MinHealthy + 1)
             /\ nodeState[n] = "down" <=> AllOf(n, FALSE, MinDown + 1)
  <2> PICK s \in Seq(BOOLEAN) : s = pings[n]
    BY DEF PingsOK, PingTypes
  <2> PICK last \in BOOLEAN \cup {None} : last = lastPing[n]
    BY DEF PingsOK, PingTypes
  <2> PICK count \in 0 .. Larger : count = consecutive[n]
    BY DEF PingsOK, PingTypes
  <2>1. s # <<>> /\ Counted(s, last, count) /\ nodeState[n] = NodeStateAfter(last, count)
    BY <1>1 DEF PingsOK, NodesCounted
  <2>2. Ends(s, TRUE, MinHealthy + 1) <=> last = TRUE /\ count >= MinHealthy
    <3>1. \A answer : Ends(s, answer, MinHealthy + 1) <=> last = answer /\ count >= MinHealthy
      BY <2>1, Thresholds, CountIsRight
    <3> QED BY <3>1, Zenon
  <2>3. Ends(s, FALSE, MinDown + 1) <=> last = FALSE /\ count >= MinDown
    <3>1. \A answer : Ends(s, answer, MinDown + 1) <=> last = answer /\ count >= MinDown
      BY <2>1, Thresholds, CountIsRight
    <3> QED BY <3>1, Zenon
  <2>4. /\ AllOf(n, TRUE, MinHealthy + 1) <=> Ends(s, TRUE, MinHealthy + 1)
        /\ AllOf(n, FALSE, MinDown + 1) <=> Ends(s, FALSE, MinDown + 1)
    BY DEF AllOf, Ends
  <2>5. last \in BOOLEAN
    <3>1. last = s[Len(s) - 0] /\ Len(s) - 0 = Len(s) /\ Len(s) \in 1 .. Len(s)
      <4>1. Len(s) \in Nat \ {0}
        BY <2>1, EmptySeq
      <4> QED BY <2>1, <4>1 DEF Counted
    <3>2. s[Len(s)] \in BOOLEAN
      BY <3>1, ElementOfSeq
    <3> QED BY <3>1, <3>2
  <2>6. CASE last = TRUE
    BY <2>1, <2>2, <2>3, <2>4, <2>6 DEF NodeStateAfter
  <2>7. CASE last = FALSE
    BY <2>1, <2>2, <2>3, <2>4, <2>7 DEF NodeStateAfter
  <2> QED BY <2>5, <2>6, <2>7
<1>2. ASSUME NEW n \in Node, pings[n] # <<>>
      PROVE  /\ cpnState = "healthy" <=> \A m \in Node : AllOf(m, TRUE, MinHealthy + 1)
             /\ cpnState = "down" <=> \A m \in Node : ~AllOf(m, TRUE, MinHealthy + 1)
  <2>1. (\A m \in Node : pings[m] # <<>>) /\ cpnState = CpnStateOf(nodeState)
    BY <1>2 DEF PingsOK, NetworkSummed
  <2>2. \A m \in Node : nodeState[m] = "healthy" <=> AllOf(m, TRUE, MinHealthy + 1)
    BY <1>1, <2>1
  <2>3. /\ cpnState = "healthy" <=> \A m \in Node : nodeState[m] = "healthy"
        /\ cpnState = "down" <=> \A m \in Node : nodeState[m] # "healthy"
    BY <1>2, <2>1 DEF CpnStateOf
  <2> QED BY <2>2, <2>3
<1> QED BY <1>1, <1>2 DEF NodeStateIsRight

-----------------------------------------------------------------------------
(* The local checks, and the invariant. *)

LocalTypes ==
    /\ checkVrrp \in BOOLEAN
    /\ vrrp \in [state : VrrpState \cup {None}, detail : VrrpDetail \cup {None}]
    /\ activeState \in {"initializing", "active", "inactive", "broken"}
    /\ broken \in (SUBSET Proc) \cup {{None}}
    /\ localLoop \in {"running", "ended"}
    /\ hosts \in BOOLEAN
    /\ dataplane \in {"healthy", "damaged", "broken"}
    /\ connected \in BOOLEAN
    /\ rounds \in [{"pings", "local"} -> BOOLEAN]

CollectorsInvariant == PingsOK /\ LocalTypes /\ ActiveStateFollowsVrrp

LEMMA VrrpIsHandled ==
    ASSUME LocalTypes, ActiveStateFollowsVrrp, NEW look \in Look, HandleVrrpState(look), UNCHANGED checkVrrp
    PROVE  /\ vrrp' \in [state : VrrpState \cup {None}, detail : VrrpDetail \cup {None}]
           /\ activeState' \in {"initializing", "active", "inactive", "broken"}
           /\ hosts' \in BOOLEAN
           /\ ActiveStateFollowsVrrp'
           /\ vrrp'.state # vrrp.state => (hosts' <=> hosts /\ vrrp'.state = "MASTER")
<1>1. CASE ~checkVrrp \/ (StateOf(look) = vrrp.state /\ ErrorDetail(look) = vrrp.detail)
  <2>1. UNCHANGED <<vrrp, activeState, hosts>>
    BY <1>1 DEF HandleVrrpState
  <2> QED BY <2>1 DEF LocalTypes, ActiveStateFollowsVrrp
<1>2. CASE ~(~checkVrrp \/ (StateOf(look) = vrrp.state /\ ErrorDetail(look) = vrrp.detail))
  <2>1. /\ checkVrrp
        /\ vrrp' = [state |-> StateOf(look), detail |-> IF look = "FAULT" THEN "fault" ELSE ErrorDetail(look)]
        /\ activeState' = ActiveStateOf(StateOf(look))
        /\ IF look = "MASTER" THEN hosts' = hosts ELSE hosts' = FALSE
    BY <1>2 DEF HandleVrrpState, HandleActiveState, Cleanup
  <2>2. /\ StateOf(look) \in VrrpState
        /\ (IF look = "FAULT" THEN "fault" ELSE ErrorDetail(look)) \in VrrpDetail \cup {None}
        /\ StateOf(look) = "MASTER" <=> look = "MASTER"
    BY DEF StateOf, ErrorDetail, Look, VrrpState, VrrpDetail
  <2>3. vrrp' \in [state : VrrpState \cup {None}, detail : VrrpDetail \cup {None}] /\ vrrp'.state = StateOf(look)
    BY <2>1, <2>2
  <2>4. vrrp'.state # None
    BY <2>2, <2>3, ConfigAssumption
  <2>5. activeState' \in {"initializing", "active", "inactive", "broken"}
    BY <2>1 DEF ActiveStateOf
  <2>6. ActiveStateFollowsVrrp'
    BY <2>1, <2>3, <2>4 DEF ActiveStateFollowsVrrp
  <2>7. hosts' \in BOOLEAN /\ (hosts' <=> hosts /\ vrrp'.state = "MASTER")
    BY <2>1, <2>2, <2>3 DEF LocalTypes
  <2> QED BY <2>3, <2>5, <2>6, <2>7
<1> QED BY <1>1, <1>2

LEMMA InitCollectors == Init => CollectorsInvariant
<1> SUFFICES ASSUME Init PROVE CollectorsInvariant
  OBVIOUS
<1>1. PingTypes
  <2>1. <<>> \in Seq(BOOLEAN) /\ 0 \in 0 .. Larger
    BY Thresholds, EmptySeq
  <2>2. pings \in [Node -> Seq(BOOLEAN)]
    BY <2>1 DEF Init, CpnInit
  <2>3. lastPing \in [Node -> BOOLEAN \cup {None}]
    BY Zenon DEF Init, CpnInit
  <2> QED BY <2>1, <2>2, <2>3 DEF Init, CpnInit, PingTypes, NodeState
<1>2. NodesCounted
  <2>1. Len(<<>>) <= Larger + 1
    BY Thresholds
  <2>2. \A n \in Node : pings[n] = <<>> /\ lastPing[n] = None /\ consecutive[n] = 0
    BY DEF Init, CpnInit
  <2> QED BY <2>1, <2>2 DEF NodesCounted, Counted
<1>3. NetworkSummed
  BY DEF Init, CpnInit, NetworkSummed
<1>4. LocalTypes
  <2>1. rounds \in [{"pings", "local"} -> BOOLEAN]
    BY DEF Init
  <2> QED BY <2>1 DEF Init, LocalInit, LocalTypes
<1>5. ActiveStateFollowsVrrp
  BY DEF Init, LocalInit, ActiveStateFollowsVrrp
<1> QED BY <1>1, <1>2, <1>3, <1>4, <1>5 DEF CollectorsInvariant, PingsOK

\* The invariant is kept, and hosts are forgotten by a change of the VRRP state as they should be.
LEMMA NextCollectors ==
    ASSUME CollectorsInvariant, [Next]_vars
    PROVE  /\ CollectorsInvariant'
           /\ vrrp'.state # vrrp.state => (hosts' <=> hosts /\ vrrp'.state = "MASTER")
<1>0. PingsOK /\ LocalTypes /\ ActiveStateFollowsVrrp /\ pingLoop \in {"no nodes", "running", "ended"}
  BY DEF CollectorsInvariant, PingsOK, PingTypes
<1>1. ASSUME NEW loop \in {"pings", "local"}, Round(loop)
      PROVE  rounds' \in [{"pings", "local"} -> BOOLEAN]
  BY <1>0, <1>1 DEF Round, LocalTypes
<1>2. ASSUME NEW answers \in SUBSET Node, PingHosts(answers)
      PROVE  CollectorsInvariant' /\ vrrp' = vrrp
  <2>1. UNCHANGED <<checkVrrp, pingLoop, local, hosts, faucet>> /\ Round("pings")
    BY <1>2 DEF PingHosts
  <2>2. LocalTypes'
    BY <1>0, <1>1, <2>1 DEF LocalTypes, local, faucet
  <2>3. ActiveStateFollowsVrrp' /\ vrrp' = vrrp
    BY <1>0, <2>1 DEF ActiveStateFollowsVrrp, local
  <2> QED BY <1>0, <1>2, <2>2, <2>3, PingHostsKeepsPings DEF CollectorsInvariant
<1>3. CASE PingsFail
  <2>1. /\ UNCHANGED <<checkVrrp, pings, lastPing, consecutive, nodeState, cpnState, local, hosts, faucet, rounds>>
        /\ pingLoop' = "ended"
    BY <1>3 DEF PingsFail
  <2>2. LocalTypes' /\ ActiveStateFollowsVrrp' /\ vrrp' = vrrp
    BY <1>0, <2>1 DEF LocalTypes, ActiveStateFollowsVrrp, local, faucet
  <2> QED BY <1>0, <2>1, <2>2, OthersKeepPings DEF CollectorsInvariant
<1>4. ASSUME NEW found \in [Proc -> Found], NEW look \in Look, LocalCheck(found, look)
      PROVE  /\ CollectorsInvariant'
             /\ vrrp'.state # vrrp.state => (hosts' <=> hosts /\ vrrp'.state = "MASTER")
  <2>1. /\ CheckProcessInfo(found) /\ HandleVrrpState(look) /\ Round("local")
        /\ UNCHANGED <<checkVrrp, cpn, localLoop, faucet>>
    BY <1>4 DEF LocalCheck
  <2>2. broken' \in SUBSET Proc
    BY <2>1 DEF CheckProcessInfo
  <2>3. /\ vrrp' \in [state : VrrpState \cup {None}, detail : VrrpDetail \cup {None}]
        /\ activeState' \in {"initializing", "active", "inactive", "broken"}
        /\ hosts' \in BOOLEAN
        /\ ActiveStateFollowsVrrp'
        /\ vrrp'.state # vrrp.state => (hosts' <=> hosts /\ vrrp'.state = "MASTER")
    BY <1>0, <2>1, VrrpIsHandled
  <2>4. rounds' \in [{"pings", "local"} -> BOOLEAN]
    BY <1>1, <2>1
  <2>5. LocalTypes'
    BY <1>0, <2>1, <2>2, <2>3, <2>4 DEF LocalTypes, faucet
  <2>6. PingsOK'
    BY <1>0, <2>1, OthersKeepPings DEF cpn
  <2> QED BY <2>3, <2>5, <2>6 DEF CollectorsInvariant
<1>5. CASE LocalCheckFails
  <2>1. UNCHANGED <<checkVrrp, cpn, vrrp, activeState, broken, hosts, faucet, rounds>> /\ localLoop' = "ended"
    BY <1>5 DEF LocalCheckFails
  <2>2. LocalTypes' /\ ActiveStateFollowsVrrp'
    BY <1>0, <2>1 DEF LocalTypes, ActiveStateFollowsVrrp, faucet
  <2> QED BY <1>0, <2>1, <2>2, OthersKeepPings DEF CollectorsInvariant, cpn
<1>6. CASE HostIsLearned
  <2>1. UNCHANGED <<checkVrrp, cpn, local, faucet, rounds>> /\ hosts' = TRUE
    BY <1>6 DEF HostIsLearned
  <2>2. LocalTypes' /\ ActiveStateFollowsVrrp' /\ vrrp' = vrrp
    BY <1>0, <2>1 DEF LocalTypes, ActiveStateFollowsVrrp, local, faucet
  <2> QED BY <1>0, <2>1, <2>2, OthersKeepPings DEF CollectorsInvariant, cpn
<1>7. CASE FaucetChanges
  <2>1. /\ UNCHANGED <<checkVrrp, cpn, local, hosts, rounds>>
        /\ dataplane' \in {"healthy", "damaged", "broken"} /\ connected' \in BOOLEAN
    BY <1>7 DEF FaucetChanges
  <2>2. LocalTypes' /\ ActiveStateFollowsVrrp' /\ vrrp' = vrrp
    BY <1>0, <2>1 DEF LocalTypes, ActiveStateFollowsVrrp, local
  <2> QED BY <1>0, <2>1, <2>2, OthersKeepPings DEF CollectorsInvariant, cpn
<1>8. CASE UNCHANGED vars
  <2>1. UNCHANGED <<checkVrrp, cpn, local, hosts, faucet, rounds>>
    BY <1>8 DEF vars
  <2>2. LocalTypes' /\ ActiveStateFollowsVrrp' /\ vrrp' = vrrp
    BY <1>0, <2>1 DEF LocalTypes, ActiveStateFollowsVrrp, local, faucet
  <2> QED BY <1>0, <2>1, <2>2, OthersKeepPings DEF CollectorsInvariant, cpn
<1> QED BY <1>2, <1>3, <1>4, <1>5, <1>6, <1>7, <1>8 DEF Next

LEMMA CollectorsHold == Spec => []CollectorsInvariant
<1>1. CollectorsInvariant /\ [Next]_vars => CollectorsInvariant'
  BY NextCollectors
<1> QED BY <1>1, InitCollectors, PTL DEF Spec

LEMMA CollectorsAreRight == CollectorsInvariant => Inv
<1> SUFFICES ASSUME CollectorsInvariant PROVE Inv
  OBVIOUS
<1>0. PingsOK /\ LocalTypes /\ ActiveStateFollowsVrrp
  BY DEF CollectorsInvariant
<1>1. pings \in [Node -> BoundedSeq(BOOLEAN, Larger + 1)]
  <2> SUFFICES ASSUME NEW n \in Node PROVE pings[n] \in BoundedSeq(BOOLEAN, Larger + 1)
    BY <1>0 DEF PingsOK, PingTypes
  <2>1. pings[n] \in Seq(BOOLEAN) /\ Len(pings[n]) <= Larger + 1
    BY <1>0 DEF PingsOK, PingTypes, NodesCounted
  <2>2. pings[n] \in [1 .. Len(pings[n]) -> BOOLEAN] /\ Len(pings[n]) \in 0 .. Larger + 1
    BY <2>1, LenProperties, Thresholds
  <2> QED BY <2>2 DEF BoundedSeq, SeqOf
<1>2. cpnState \in {"initializing", "broken", "healthy", "damaged", "down"}
  BY <1>0 DEF PingsOK, NetworkSummed, CpnStateOf
<1>3. TypeOK
  BY <1>0, <1>1, <1>2 DEF PingsOK, PingTypes, LocalTypes, TypeOK, NodeState
<1> QED BY <1>0, <1>3, PingsAreRight DEF Inv

\* The thresholds of the pings do what they are there for, whatever they are: a node is
\* healthy (down) just if the last pings, one more than the threshold, were all answered
\* (lost), and the forchestrator is active just if VRRP is MASTER (_get_node_state,
\* _get_cpn_state, _handle_vrrp_state).
THEOREM CollectorsFollow == Spec => []Inv
BY CollectorsAreRight, CollectorsHold, PTL

\* What a healthy state of the system says of the processes, of VRRP and of every node,
\* for any set of controllers and nodes (_get_combined_summary, _get_controller_state).
THEOREM HealthIsTrue == Spec => []HealthyIsTrue
<1>1. CollectorsInvariant => HealthyIsTrue
  <2> SUFFICES ASSUME CollectorsInvariant, SystemStateShown = "healthy"
               PROVE  /\ broken = {}
                      /\ checkVrrp => vrrp.state = "MASTER"
                      /\ \A n \in Node : AllOf(n, TRUE, MinHealthy + 1)
                      /\ dataplane = "healthy" /\ connected
    BY DEF HealthyIsTrue
  <2>0. PingsOK /\ LocalTypes /\ ActiveStateFollowsVrrp /\ NodeStateIsRight
    BY PingsAreRight DEF CollectorsInvariant
  <2>1. ControllerState = "active" /\ CombinedSummary = "healthy"
    <3>1. ControllerState \in {"initializing", "inactive", "active", "split"}
      BY DEF ControllerState
    <3> QED BY <3>1 DEF SystemStateShown
  <2>2. SummarySources = {"healthy"} /\ connected
    BY <2>1 DEF CombinedSummary
  <2>3. CpnSummary = "healthy" /\ ProcessState = "healthy" /\ dataplane = "healthy" /\ VrrpSummary = "healthy"
    BY <2>2 DEF SummarySources
  <2>4. broken = {}
    BY <2>3 DEF ProcessState
  <2>5. \A n \in Node : AllOf(n, TRUE, MinHealthy + 1)
    <3>1. cpnState = "healthy"
      BY <2>3 DEF CpnSummary
    <3>2. \A n \in Node : pings[n] # <<>>
      BY <2>0, <3>1 DEF PingsOK, NetworkSummed
    <3> QED BY <2>0, <3>1, <3>2, Zenon DEF NodeStateIsRight
  <2>6. ASSUME checkVrrp PROVE vrrp.state = "MASTER"
    <3>1. vrrp.state \in {"MASTER", "BACKUP"}
      BY <2>3, <2>6, <2>0 DEF VrrpSummary, LocalTypes
    <3>2. vrrp.state # None
      BY <3>1, ConfigAssumption DEF VrrpState
    <3>3. activeState = ActiveStateOf(vrrp.state)
      BY <2>0, <2>6, <3>2 DEF ActiveStateFollowsVrrp
    <3>4. activeState # "inactive"
      BY <2>1 DEF ControllerState
    <3> QED BY <3>1, <3>3, <3>4 DEF ActiveStateOf
  <2> QED BY <2>2, <2>3, <2>4, <2>5, <2>6
<1> QED BY <1>1, CollectorsHold, PTL

\* A change of the VRRP state forgets the learned hosts, except a change to MASTER, which
\* keeps them (_handle_vrrp_state, cleanup).
THEOREM VrrpForgetsHosts == Spec => HostsFollowVrrp
<1>1. CollectorsInvariant /\ [Next]_vars =>
          [vrrp'.state # vrrp.state => (hosts' <=> hosts /\ vrrp'.state = "MASTER")]_vars
  BY NextCollectors
<1> QED BY <1>1, CollectorsHold, PTL DEF Spec, HostsFollowVrrp

=============================================================================
