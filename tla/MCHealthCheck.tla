--------------------------- MODULE MCHealthCheck ---------------------------
(* HealthCheck has no parameters: TLC explores all of it. *)
EXTENDS HealthCheck
=============================================================================
