------------------------- MODULE MCPortStateManager -------------------------
(* Small instances of PortStateManager for TLC. *)
EXTENDS PortStateManager

\* The default transitions out of sequestered.
DefaultResults == [code \in ResultCode |->
                      IF code = "PASSED" THEN "operational" ELSE "infracted"]

=============================================================================
