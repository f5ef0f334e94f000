---------------------------- MODULE MCEventGateway ----------------------------
(* Small instances of EventGateway for TLC. *)
EXTENDS EventGateway

CONSTANTS t, u, p
=============================================================================
