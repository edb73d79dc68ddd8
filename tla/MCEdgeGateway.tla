--------------------------- MODULE MCEdgeGateway ---------------------------
(* Small instances of EdgeGateway: the constants are numbers. *)
EXTENDS EdgeGateway
=============================================================================
