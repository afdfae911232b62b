------------------------- MODULE MCPollingSchedule -------------------------
(***************************************************************************)
(* Small numbers in the proportions of DEFAULT_POLLING_OPTIONS: the fast   *)
(* clamp below the full default, the penalty larger than a recovery step.  *)
(***************************************************************************)
EXTENDS PollingSchedule, TLC

MCDefaults ==
  ("fastIntervalMs" :> 2) @@ ("fullIntervalMs" :> 6) @@ ("commandDelayMs" :> 1) @@
  ("busyPenaltyMs" :> 2) @@ ("recoveryStepMs" :> 1) @@
  ("maxFastIntervalMs" :> 5) @@ ("maxFullIntervalMs" :> 12) @@ ("maxCommandDelayMs" :> 3)

\* The default, a longer interval whose fourfold exceeds the full default, and
\* an object that overrides the penalty and the step.
MCIntervals == {0, 3}
MCOptionObjects == {("busyPenaltyMs" :> 1) @@ ("recoveryStepMs" :> 2)}

\* An interval above the fast clamp, as `--interval 10` is with the defaults.
LongInterval == {6}
=============================================================================
