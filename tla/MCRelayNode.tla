----------------------------- MODULE MCRelayNode -----------------------------
(* Instances of RelayNode for TLC. *)
EXTENDS RelayNode

CONSTANT a1
=============================================================================
