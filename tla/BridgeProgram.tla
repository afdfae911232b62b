---------------------------- MODULE BridgeProgram ----------------------------
(***************************************************************************)
(* The program bluetti-mqtt from its first word to its end (main() of      *)
(* cli/bluetti-mqtt.ts): the command line decides whether and how the      *)
(* server runs (CommandLine), and the server is run and stopped            *)
(* (BridgeServer).                                                         *)
(*                                                                         *)
(* Device stands for the devices that the options name.  Of the options    *)
(* only runOnce decides what the server's parts do to one another, so that *)
(* the others are forgotten when it starts.                                *)
(***************************************************************************)
EXTENDS BridgeServer, CommandLine

programVars == <<vars, parseVars>>

\* No part of the server exists yet, and runOnce, for which RunOnce holds FALSE,
\* means nothing.
ProgramInit == ParseInit /\ Init /\ ~runOnce

Parse == ParseNext /\ UNCHANGED vars

Forgotten == [option \in Options |-> Default(option)]

\* main() goes on behind its checks: the helper is created, the signal handlers are
\* installed and the server is run.
Launch ==
  /\ program = "bridge" /\ outcome = "runs"
  /\ runOnce' = (options.runOnce = <<"yes">>)
  /\ outcome' = "launched"
  /\ options' = Forgotten /\ addresses' = <<>> /\ argv' = <<>> /\ rest' = <<>> /\ file' = BadFile
  /\ UNCHANGED <<program, main, bridgeVars, helper, signalVars, loopVars, session, known, command>>

Launched(A) == outcome = "launched" /\ A /\ UNCHANGED parseVars

ProgramNext == Parse \/ Launch \/ Launched(Next)

\* As for the server alone.
ProgramSpec ==
  /\ ProgramInit /\ [][ProgramNext]_programVars
  /\ WF_programVars(Launched(BridgeStarts))
  /\ WF_programVars(Launched(stopRequested /\ HandlerStarts))
  /\ WF_programVars(Launched(Cleanup))
  /\ \A d \in Device :
       WF_programVars(Launched(LoopStep(d))) /\ WF_programVars(Launched(CommandStep(d)))
=============================================================================
