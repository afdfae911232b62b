--------------------------- MODULE MCBridgeServer ---------------------------
(***************************************************************************)
(* Two devices, so that one loop can fail or return while the other reads  *)
(* or publishes; a field and the snapshot, so that a stop falls in between.*)
(***************************************************************************)
EXTENDS BridgeServer
=============================================================================
