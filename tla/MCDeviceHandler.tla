-------------------------- MODULE MCDeviceHandler --------------------------
(***************************************************************************)
(* Two devices, so that one loop can end or throw while the other polls or *)
(* reconnects; two battery packs, so that a pack read can be lost between  *)
(* two selections; two reads per full cycle, for the pause between them.   *)
(***************************************************************************)
EXTENDS DeviceHandler
=============================================================================
