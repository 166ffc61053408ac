--------------------------- MODULE MCAuthenticator ---------------------------
(* Small instances of Authenticator for TLC. *)
EXTENDS Authenticator, TLC

CONSTANTS m1, m2, s1

=============================================================================
