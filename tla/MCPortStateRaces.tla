-------------------------- MODULE MCPortStateRaces --------------------------
(* PortStateRaces needs no definitions of its own for TLC: the configurations *)
(* choose which of its threads run.                                         *)
EXTENDS PortStateRaces

=============================================================================
