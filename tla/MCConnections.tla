--------------------------- MODULE MCConnections ---------------------------
(* Connections for TLC.  Its run checks liveness properties, so no symmetry. *)
EXTENDS Connections
=============================================================================
