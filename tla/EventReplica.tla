----------------------------- MODULE EventReplica -----------------------------
(***************************************************************************)
(* What the event client of Forch promises to the state collector, without *)
(* sockets, buffers and event numbers: while the replica is synchronised   *)
(* it holds a state that Faucet has been in, and it moves on through the   *)
(* states of Faucet one by one, without leaving one out or going back.  A  *)
(* replica that lost track takes over the present state of Faucet.         *)
(***************************************************************************)
EXTENDS Naturals, Sequences

CONSTANTS
    State,  \* the states of Faucet, as far as events report them
    None    \* no replica, none of the states

VARIABLES
    history,  \* the states Faucet has been in since it started
    position, \* how many of them the replica has followed
    replica   \* the state the replica holds, or None while it is not synchronised

vars == <<history, position, replica>>

Init ==
    /\ history \in {<<s>> : s \in State}
    /\ position = 0
    /\ replica = None

\* Faucet changes, or reports its state again.
Advance ==
    /\ history' \in {Append(history, s) : s \in State}
    /\ UNCHANGED <<position, replica>>

\* The replica follows by exactly one state.
Follow ==
    /\ replica # None
    /\ position < Len(history)
    /\ position' = position + 1
    /\ replica' = history[position + 1]
    /\ UNCHANGED history

\* The replica loses track: the connection ends, or an event is missing.
Lose ==
    /\ replica' = None
    /\ position' = 0
    /\ UNCHANGED history

\* Faucet starts anew, which also loses the replica.
Restart ==
    /\ history' \in {<<s>> : s \in State}
    /\ position' = 0
    /\ replica' = None

Resync ==
    /\ replica = None
    /\ position' = Len(history)
    /\ replica' = history[Len(history)]
    /\ UNCHANGED history

Next == Advance \/ Follow \/ Lose \/ Restart \/ Resync

Spec == Init /\ [][Next]_vars

TypeOK ==
    /\ history \in Seq(State) \ {<<>>}
    /\ position \in 0 .. Len(history)
    /\ replica \in State \cup {None}

\* The replica is what Faucet was at the position of the replica.
Faithful == replica # None => position > 0 /\ replica = history[position]

=============================================================================
