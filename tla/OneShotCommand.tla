--------------------------- MODULE OneShotCommand ---------------------------
(***************************************************************************)
(* cli/shared.ts withConnectedDevice, as poll and logger use it, and the   *)
(* same code in cli/probe.ts: one command that creates a helper client,    *)
(* connects one device, works with it, and cleans up.  Its transport is    *)
(* HelperTransport, whose steps are the rest of the program.               *)
(***************************************************************************)
EXTENDS HelperTransport

CONSTANT Own  \* the transport that the command creates, which is the only one in use

ASSUME OwnAssumption == Own \in Transport

VARIABLES
  stage,            \* what the command awaits
  cleanupComplete,  \* the flag: cleanup has begun
  error,            \* what it will reject with, or "none"
  wrong             \* what went wrong so far, in order

commandVars == <<stage, cleanupComplete, error, wrong>>

CommandInit ==
  /\ Init
  /\ stage = "initializing"
  /\ cleanupComplete = FALSE
  /\ error = "none"
  /\ wrong = <<>>

\* connectAndInitialize() has returned.
Initialized ==
  /\ stage = "initializing"
  /\ phase[Own] = "ready"
  /\ stage' = "working"
  /\ UNCHANGED <<vars, cleanupComplete, error, wrong>>

\* connectAndInitialize() has thrown.  The transport that is to be disconnected
\* has no session any more, so the cleanup is over at once.
InitializationThrows ==
  /\ stage = "initializing"
  /\ phase[Own] = "failed"
  /\ wrong' = Append(wrong, "initialization")
  /\ error' = "initialization"
  /\ cleanupComplete' = TRUE
  /\ stage' = "settled"
  /\ Dispose

\* cleanup(true).
WorkReturns ==
  /\ stage = "working"
  /\ cleanupComplete' = TRUE
  /\ stage' = "reporting"
  /\ Disconnect(Own)
  /\ UNCHANGED <<error, wrong>>

\* A command of the work fails, its result cannot be decoded, or the device is
\* not of a known model: cleanup(false).
WorkThrows ==
  /\ stage = "working"
  /\ wrong' = Append(wrong, "work")
  /\ error' = "work"
  /\ cleanupComplete' = TRUE
  /\ stage' = "swallowing"
  /\ Disconnect(Own)

\* The answer to the disconnection, its deadline, or the exit of the helper.
Disconnects ==
  /\ DisconnectSettles(Own)
  /\ wrong' = IF phase'[Own] = "close_failed" THEN Append(wrong, "disconnect") ELSE wrong
  /\ UNCHANGED <<stage, cleanupComplete, error>>

\* Fault: the error of the disconnection replaces that of the work.
FinishWithLastError ==
  /\ stage \in {"reporting", "swallowing"}
  /\ phase[Own] \in {"closed", "close_failed"}
  /\ error' = IF phase[Own] = "close_failed" THEN "disconnect" ELSE error
  /\ stage' = "settled"
  /\ IF stage = "reporting" /\ phase[Own] = "close_failed"
     THEN UNCHANGED vars
     ELSE Dispose
  /\ UNCHANGED <<cleanupComplete, wrong>>

\* When cleanup(true) throws, the second cleanup finds the flag set and returns.
Finish ==
  /\ stage \in {"reporting", "swallowing"}
  /\ phase[Own] \in {"closed", "close_failed"}
  /\ stage' = "settled"
  /\ IF stage = "reporting" /\ phase[Own] = "close_failed"
     THEN error' = "disconnect" /\ UNCHANGED vars
     ELSE Dispose /\ UNCHANGED error
  /\ UNCHANGED <<cleanupComplete, wrong>>

CommandNext ==
  \/ (Initialize(Own) \/ Helper) /\ UNCHANGED commandVars
  \/ Initialized \/ InitializationThrows
  \/ WorkReturns \/ WorkThrows \/ Disconnects \/ Finish

CommandSpec == CommandInit /\ [][CommandNext]_<<vars, commandVars>>
-----------------------------------------------------------------------------
\* "The original operation error takes precedence over a secondary disconnect
\* failure": the command reports the first thing that went wrong, whatever
\* followed it, and unless that was the disconnection the helper is killed.
OutcomeOfWork ==
  stage = "settled" =>
    /\ error = IF wrong = <<>> THEN "none" ELSE Head(wrong)
    /\ error # "disconnect" => disposed /\ ~running
=============================================================================
