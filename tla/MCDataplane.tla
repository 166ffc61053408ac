------------------------------ MODULE MCDataplane ------------------------------
(* A small instance of Dataplane for TLC: two switches joined by two links, and two
   egress ports. *)
EXTENDS Dataplane, TLC

CONSTANTS s1, s2, j1, j2, k1, k2, e1, e2

Switches == j1 :> s1 @@ k1 :> s1 @@ j2 :> s2 @@ k2 :> s2 @@ e1 :> s1 @@ e2 :> s2
Peers == j1 :> j2 @@ j2 :> j1 @@ k1 :> k2 @@ k2 :> k1

LacpValues ==
    {[role |-> "selected", state |-> "active"], [role |-> "unselected", state |-> "noact"],
     [role |-> "selected", state |-> "init"]}

\* The initial states, of which those with both ports in use and the first switch as root
\* stand for all.
Start ==
    /\ Init
    /\ faucet.topo.root = s1
    /\ \A p \in EgressPort : faucet.lacp[p].role = "selected" /\ faucet.lacp[p].state = "active"

StartSpec == Start /\ [][Next]_vars

=============================================================================
