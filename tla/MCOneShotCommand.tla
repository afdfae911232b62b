-------------------------- MODULE MCOneShotCommand --------------------------
(* One command with one transport, three attempts to connect. *)
EXTENDS OneShotCommand

=============================================================================
