-------------------------- MODULE PollingSchedule --------------------------
(***************************************************************************)
(* app/polling-state.ts and its use by DeviceHandler.run: the adaptive     *)
(* schedule of one device.  Due times are kept relative to the clock, as   *)
(* the code only ever compares them with Date.now().  How late a timer     *)
(* fires and how long a cycle takes is the environment's choice, up to     *)
(* MaxLate and MaxCycle.                                                   *)
(***************************************************************************)
EXTENDS Integers

CONSTANTS Defaults,      \* DEFAULT_POLLING_OPTIONS
          Intervals,     \* the numbers passed as intervalMsOrOptions
          OptionObjects, \* the option objects passed, as functions on some fields
          MaxLate,       \* how late a timer fires
          MaxCycle       \* how long one polling cycle takes

Field == {"fastIntervalMs", "fullIntervalMs", "commandDelayMs", "busyPenaltyMs",
          "recoveryStepMs", "maxFastIntervalMs", "maxFullIntervalMs", "maxCommandDelayMs"}
Options == [Field -> Nat]

ASSUME ScheduleAssumption ==
  /\ Defaults \in Options
  /\ Intervals \subseteq Int
  /\ \A o \in OptionObjects : \A f \in DOMAIN o : o[f] \in Nat
  /\ MaxLate \in Nat /\ MaxCycle \in Nat

VARIABLES
  options,         \* defaultPollingOptions, fixed by the constructor
  fastIntervalMs, fullIntervalMs, commandDelayMs,
  fastDueIn,       \* nextFastPollAt, relative to now
  fullDueIn,       \* nextFullPollAt, relative to now
  cycle,           \* none, fast, full, or the recovery that interrupted one
  lastResult,      \* history: how the last cycle ended
  sinceFull        \* history: time since the full windows were last scheduled

intervals == <<fastIntervalMs, fullIntervalMs, commandDelayMs>>
vars == <<options, intervals, fastDueIn, fullDueIn, cycle, lastResult, sinceFull>>

Least(a, b) == IF a <= b THEN a ELSE b
Greatest(a, b) == IF a >= b THEN a ELSE b

\* normalizePollingOptions, for a number and for an object.
NormalizeInterval(ms) ==
  IF ms <= 0
  THEN Defaults
  ELSE [Defaults EXCEPT !["fastIntervalMs"] = ms,
                        !["fullIntervalMs"] = Greatest(4 * ms, @)]
NormalizeObject(o) == [f \in Field |-> IF f \in DOMAIN o THEN o[f] ELSE Defaults[f]]

Normalized == {NormalizeInterval(ms) : ms \in Intervals} \cup {NormalizeObject(o) : o \in OptionObjects}

TypeOK ==
  /\ options \in Options
  /\ fastIntervalMs \in Nat /\ fullIntervalMs \in Nat /\ commandDelayMs \in Nat
  /\ fastDueIn \in Int /\ fullDueIn \in Int
  /\ cycle \in {"none", "fast", "full", "recovering"}
  /\ lastResult \in {"none", "ok", "expected_error", "busy"}
  /\ sinceFull \in Nat

\* createDevicePollingState: both cycles are due at once.
Init ==
  /\ options \in Normalized
  /\ fastIntervalMs = options["fastIntervalMs"]
  /\ fullIntervalMs = Greatest(options["fullIntervalMs"], options["fastIntervalMs"])
  /\ commandDelayMs = options["commandDelayMs"]
  /\ fastDueIn = 0
  /\ fullDueIn = 0
  /\ cycle = "none"
  /\ lastResult = "none"
  /\ sinceFull = 0
-----------------------------------------------------------------------------
ShouldRunFull == fullDueIn <= 0
ShouldRunFast == ShouldRunFull \/ fastDueIn <= 0

\* The sleep until the earlier of the two due times.
SleepUntilDue ==
  /\ cycle = "none"
  /\ ~ShouldRunFast
  /\ \E late \in 0 .. MaxLate :
       LET slept == Least(fastDueIn, fullDueIn) + late IN
       /\ fastDueIn' = fastDueIn - slept
       /\ fullDueIn' = fullDueIn - slept
       /\ sinceFull' = sinceFull + slept
  /\ UNCHANGED <<options, intervals, cycle, lastResult>>

StartCycle ==
  /\ cycle = "none"
  /\ ShouldRunFast
  /\ cycle' = IF ShouldRunFull THEN "full" ELSE "fast"
  /\ UNCHANGED <<options, intervals, fastDueIn, fullDueIn, lastResult, sinceFull>>

ApplyBusyBackoff ==
  /\ fastIntervalMs' = Least(fastIntervalMs + options["busyPenaltyMs"], options["maxFastIntervalMs"])
  /\ fullIntervalMs' = Least(fullIntervalMs + 2 * options["busyPenaltyMs"], options["maxFullIntervalMs"])
  /\ commandDelayMs' = Least(commandDelayMs + options["recoveryStepMs"], options["maxCommandDelayMs"])

\* Fault: the configured values are not the floor.
RecoverWithoutFloor ==
  /\ fastIntervalMs' = fastIntervalMs - options["recoveryStepMs"]
  /\ fullIntervalMs' = fullIntervalMs - 2 * options["recoveryStepMs"]
  /\ commandDelayMs' = commandDelayMs - options["recoveryStepMs"]

RecoverPollingState ==
  /\ fastIntervalMs' = Greatest(options["fastIntervalMs"], fastIntervalMs - options["recoveryStepMs"])
  /\ fullIntervalMs' = Greatest(options["fullIntervalMs"], fullIntervalMs - 2 * options["recoveryStepMs"])
  /\ commandDelayMs' = Greatest(options["commandDelayMs"], commandDelayMs - options["recoveryStepMs"])

\* Faults: every cycle reschedules the full windows; only a flawless cycle
\* recovers.
FinishCycleReschedulesBoth(result) ==
  /\ cycle \in {"fast", "full"}
  /\ IF result = "busy" THEN ApplyBusyBackoff ELSE RecoverPollingState
  /\ fastDueIn' = fastIntervalMs'
  /\ fullDueIn' = fullIntervalMs'
  /\ \E took \in 0 .. MaxCycle :
       sinceFull' = IF cycle = "full" THEN 0 ELSE sinceFull + took
  /\ cycle' = "none"
  /\ lastResult' = result
  /\ UNCHANGED options

RecoverWhenOk ==
  IF lastResult' = "ok" THEN RecoverPollingState ELSE UNCHANGED intervals

FinishCycleRecoversWhenOk(result) ==
  /\ cycle \in {"fast", "full"}
  /\ cycle' = "none"
  /\ lastResult' = result
  /\ IF result = "busy" THEN ApplyBusyBackoff ELSE RecoverWhenOk
  /\ fastDueIn' = fastIntervalMs'
  /\ \E took \in 0 .. MaxCycle :
       IF cycle = "full"
       THEN fullDueIn' = fullIntervalMs' /\ sinceFull' = 0
       ELSE fullDueIn' = fullDueIn - took /\ sinceFull' = sinceFull + took
  /\ UNCHANGED options

\* The end of a cycle: a busy read or pack read backs off, anything else
\* recovers; the full windows are rescheduled only by a full cycle.
FinishCycle(result) ==
  /\ cycle \in {"fast", "full"}
  /\ IF result = "busy" THEN ApplyBusyBackoff ELSE RecoverPollingState
  /\ fastDueIn' = fastIntervalMs'
  /\ \E took \in 0 .. MaxCycle :
       IF cycle = "full"
       THEN fullDueIn' = fullIntervalMs' /\ sinceFull' = 0
       ELSE fullDueIn' = fullDueIn - took /\ sinceFull' = sinceFull + took
  /\ cycle' = "none"
  /\ lastResult' = result
  /\ UNCHANGED options

LoseConnection ==
  /\ cycle \in {"fast", "full"}
  /\ cycle' = "recovering"
  /\ UNCHANGED <<options, intervals, fastDueIn, fullDueIn, lastResult, sinceFull>>

\* scheduleNextPoll: whatever was due is put off by a whole interval.
Reconnect ==
  /\ cycle = "recovering"
  /\ cycle' = "none"
  /\ fastDueIn' = fastIntervalMs
  /\ fullDueIn' = fullIntervalMs
  /\ sinceFull' = 0
  /\ UNCHANGED <<options, intervals, lastResult>>

Finish == \E result \in {"ok", "expected_error", "busy"} : FinishCycle(result)

Next ==
  \/ SleepUntilDue
  \/ StartCycle
  \/ Finish
  \/ LoseConnection
  \/ Reconnect

Spec == Init /\ [][Next]_vars

\* Timers fire and the loop goes on.
FairSpec == Spec /\ WF_vars(SleepUntilDue) /\ WF_vars(StartCycle) /\ WF_vars(Finish)
-----------------------------------------------------------------------------
\* Configurations whose intervals lie below the clamps: those the backoff was
\* designed for.
Sane ==
  /\ options["fastIntervalMs"] <= options["maxFastIntervalMs"]
  /\ Greatest(options["fullIntervalMs"], options["fastIntervalMs"]) <= options["maxFullIntervalMs"]
  /\ options["commandDelayMs"] <= options["maxCommandDelayMs"]

\* Backoff and recovery, in any order, never leave the band between the
\* configured value and its clamp.
WithinBand ==
  Sane =>
    /\ fastIntervalMs \in options["fastIntervalMs"] .. options["maxFastIntervalMs"]
    /\ fullIntervalMs \in options["fullIntervalMs"] .. options["maxFullIntervalMs"]
    /\ commandDelayMs \in options["commandDelayMs"] .. options["maxCommandDelayMs"]

\* The longest interval between two full cycles that the options allow.
FullCeiling ==
  Greatest(options["maxFullIntervalMs"],
           Greatest(options["fullIntervalMs"], options["fastIntervalMs"]))

\* Fast cycles do not starve full ones, however long they take and however the
\* intervals are adjusted meanwhile: as long as the link is up the full windows
\* are read at most one late timer or one fast cycle after they are due.
FullCycleNotStarved ==
  cycle # "recovering" => sinceFull <= FullCeiling + Greatest(MaxLate, MaxCycle)

\* A device that is no longer busy, and stays connected, is polled at the
\* configured rates again.
ReturnsToConfigured ==
  <>[](lastResult # "busy" /\ cycle # "recovering") =>
    <>[](/\ fastIntervalMs = options["fastIntervalMs"]
         /\ fullIntervalMs = options["fullIntervalMs"]
         /\ commandDelayMs = options["commandDelayMs"])
=============================================================================
