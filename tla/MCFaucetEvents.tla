---------------------------- MODULE MCFaucetEvents ----------------------------
(* A small instance of FaucetEvents for TLC. *)
EXTENDS FaucetEvents, TLC

Symmetry == Permutations(Timer)

=============================================================================
