---------------------------- MODULE MCSystemState ----------------------------
(* SystemState needs no definitions of its own for TLC. *)
EXTENDS SystemState

=============================================================================
