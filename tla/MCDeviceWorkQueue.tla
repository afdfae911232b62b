------------------------- MODULE MCDeviceWorkQueue -------------------------
(***************************************************************************)
(* Three calls for one device, so that a call can arrive before, between   *)
(* and after the release and the settling of its predecessors, and a call  *)
(* for a second device whose work hangs.                                   *)
(***************************************************************************)
EXTENDS DeviceWorkQueue, TLC

CONSTANTS c1, c2, c3, d1, a1, a2

MCAddressOf == (c1 :> a1) @@ (c2 :> a1) @@ (c3 :> a1) @@ (d1 :> a2)
=============================================================================
