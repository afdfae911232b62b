-------------------------- MODULE MCDeviceSession --------------------------
(***************************************************************************)
(* One session, three commands in any order: enough for an answer to the   *)
(* first to arrive during the second or the third.                         *)
(***************************************************************************)
EXTENDS DeviceSession

=============================================================================
