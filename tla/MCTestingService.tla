--------------------------- MODULE MCTestingService ---------------------------
(* A small instance of TestingService for TLC. *)
EXTENDS TestingService, TLC

CONSTANTS m1, m2

Devices == Permutations(Mac)

=============================================================================
