----------------------------- MODULE MCFaucetizer -----------------------------
(* A small instance of Faucetizer for TLC. *)
EXTENDS Faucetizer, TLC

CONSTANTS s1, m1, p1, p2, t1, t2

\* The VLAN of s1 is one of the testing VLANs, or there is none.
Maps == {s1 :> t2, s1 :> None}

Structures == {{p1, p2}, {p1}}

Placements == {<<m1, p1>>}

\* Every property is about behaviours in which no two flushes have overlapped: they are not
\* followed any further.
NoOverlap == ~torn

=============================================================================
