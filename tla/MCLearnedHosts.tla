---------------------------- MODULE MCLearnedHosts ----------------------------
(* A small instance of LearnedHosts for TLC: two switches with an access port each,
   joined by a stack link. *)
EXTENDS LearnedHosts, TLC

CONSTANTS m1, m2, s1, s2, a1, a2, k1, k2

Switches == a1 :> s1 @@ k1 :> s1 @@ a2 :> s2 @@ k2 :> s2
Types == [p \in Port |-> IF p \in {a1, a2} THEN "access" ELSE "stack"]
Peers == k1 :> k2 @@ k2 :> k1

\* Faucet has the first host at an access port and behind a stack link, or nothing.
Metrics == {Nowhere, [Nowhere EXCEPT ![m1] = s1 :> a1 @@ s2 :> k2]}

=============================================================================
