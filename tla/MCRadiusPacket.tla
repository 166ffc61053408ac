---------------------------- MODULE MCRadiusPacket ----------------------------
(* TLC instances of RadiusPacket. *)
EXTENDS RadiusPacket
=============================================================================
