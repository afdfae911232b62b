----------------------- MODULE PollingScheduleProofs -----------------------
(***************************************************************************)
(* Proofs about the schedule for all options, intervals and delays.        *)
(***************************************************************************)
EXTENDS PollingSchedule, TLAPS

LEMMA FieldTypes ==
  ASSUME NEW o \in Options
  PROVE  /\ o["fastIntervalMs"] \in Nat /\ o["fullIntervalMs"] \in Nat /\ o["commandDelayMs"] \in Nat
         /\ o["busyPenaltyMs"] \in Nat /\ o["recoveryStepMs"] \in Nat
         /\ o["maxFastIntervalMs"] \in Nat /\ o["maxFullIntervalMs"] \in Nat
         /\ o["maxCommandDelayMs"] \in Nat
BY DEF Options, Field

\* Whatever the constructor is given, it works with a natural number per field.
LEMMA NormalizedTypes == Normalized \subseteq Options
<1> USE ScheduleAssumption DEF ScheduleAssumption
<1>1. ASSUME NEW ms \in Intervals PROVE NormalizeInterval(ms) \in Options
  <2>1. ms \in Int /\ Defaults \in [Field -> Nat] /\ Defaults["fullIntervalMs"] \in Nat
    BY FieldTypes DEF Options
  <2>2. CASE ms <= 0
    BY <2>2 DEF NormalizeInterval
  <2>3. CASE ~(ms <= 0)
    <3>1. ms \in Nat /\ Greatest(4 * ms, Defaults["fullIntervalMs"]) \in Nat
      BY <2>1, <2>3 DEF Greatest
    <3>2. [Defaults EXCEPT !["fastIntervalMs"] = ms,
             !["fullIntervalMs"] = Greatest(4 * ms, Defaults["fullIntervalMs"])] \in [Field -> Nat]
      BY <2>1, <3>1
    <3> QED
      BY <2>1, <2>3, <3>2 DEF NormalizeInterval, Options, Field
  <2> QED
    BY <2>2, <2>3
<1>2. ASSUME NEW o \in OptionObjects PROVE NormalizeObject(o) \in Options
  BY DEF NormalizeObject, Options
<1> QED
  BY <1>1, <1>2 DEF Normalized

Intervals3 == fastIntervalMs \in Nat /\ fullIntervalMs \in Nat /\ commandDelayMs \in Nat

LEMMA AdjustTypes ==
  ASSUME TypeOK, ApplyBusyBackoff \/ RecoverPollingState
  PROVE  Intervals3'
BY FieldTypes DEF TypeOK, ApplyBusyBackoff, RecoverPollingState, Intervals3, Least, Greatest

LEMMA NextTypeOK == TypeOK /\ [Next]_vars => TypeOK'
<1> SUFFICES ASSUME TypeOK, [Next]_vars PROVE TypeOK'
  OBVIOUS
<1> USE ScheduleAssumption DEF ScheduleAssumption, intervals
<1>1. CASE SleepUntilDue
  <2>1. PICK late \in 0 .. MaxLate :
          LET slept == Least(fastDueIn, fullDueIn) + late IN
          /\ fastDueIn' = fastDueIn - slept
          /\ fullDueIn' = fullDueIn - slept
          /\ sinceFull' = sinceFull + slept
    BY <1>1 DEF SleepUntilDue
  <2>2. Least(fastDueIn, fullDueIn) + late \in Nat
    BY <1>1 DEF SleepUntilDue, ShouldRunFast, ShouldRunFull, Least, TypeOK
  <2> QED
    BY <1>1, <2>1, <2>2 DEF SleepUntilDue, TypeOK
<1>2. CASE StartCycle \/ LoseConnection \/ Reconnect
  BY <1>2 DEF StartCycle, LoseConnection, Reconnect, TypeOK
<1>3. ASSUME NEW result \in {"ok", "expected_error", "busy"}, FinishCycle(result) PROVE TypeOK'
  <2>1. Intervals3'
    BY <1>3, AdjustTypes DEF FinishCycle
  <2>2. PICK took \in 0 .. MaxCycle :
          IF cycle = "full"
          THEN fullDueIn' = fullIntervalMs' /\ sinceFull' = 0
          ELSE fullDueIn' = fullDueIn - took /\ sinceFull' = sinceFull + took
    BY <1>3 DEF FinishCycle
  <2>3. fullDueIn' \in Int /\ sinceFull' \in Nat
    BY <2>1, <2>2 DEF TypeOK, Intervals3
  <2> QED
    BY <1>3, <2>1, <2>3 DEF FinishCycle, TypeOK, Intervals3
<1>4. CASE UNCHANGED vars
  BY <1>4 DEF vars, TypeOK
<1> QED
  BY <1>1, <1>2, <1>3, <1>4 DEF Next, Finish

LEMMA InitTypeOK == Init => TypeOK
<1> SUFFICES ASSUME Init PROVE TypeOK
  OBVIOUS
<1>1. options \in Options
  BY NormalizedTypes DEF Init
<1> QED
  BY <1>1, FieldTypes DEF Init, TypeOK, Greatest

\* Intervals and delays stay natural numbers: no recovery takes one below zero.
THEOREM TypeCorrect == Spec => []TypeOK
BY InitTypeOK, NextTypeOK, PTL DEF Spec
-----------------------------------------------------------------------------
LEMMA AdjustWithinBand ==
  ASSUME TypeOK, WithinBand, options' = options, ApplyBusyBackoff \/ RecoverPollingState
  PROVE  WithinBand'
<1>1. SUFFICES ASSUME Sane PROVE
        /\ fastIntervalMs' \in options["fastIntervalMs"] .. options["maxFastIntervalMs"]
        /\ fullIntervalMs' \in options["fullIntervalMs"] .. options["maxFullIntervalMs"]
        /\ commandDelayMs' \in options["commandDelayMs"] .. options["maxCommandDelayMs"]
  BY DEF WithinBand, Sane
<1>2. options \in Options /\ Intervals3
  BY DEF TypeOK, Intervals3
<1>3. CASE ApplyBusyBackoff
  BY <1>1, <1>2, <1>3, FieldTypes DEF WithinBand, Sane, ApplyBusyBackoff, Least, Greatest, Intervals3
<1>4. CASE RecoverPollingState
  BY <1>1, <1>2, <1>4, FieldTypes DEF WithinBand, Sane, RecoverPollingState, Greatest, Intervals3
<1> QED
  BY <1>3, <1>4

\* WithinBand for all options, penalties and steps.
THEOREM Band == Spec => []WithinBand
<1>1. Init => WithinBand
  <2> SUFFICES ASSUME Init, Sane PROVE
        /\ fastIntervalMs \in options["fastIntervalMs"] .. options["maxFastIntervalMs"]
        /\ fullIntervalMs \in options["fullIntervalMs"] .. options["maxFullIntervalMs"]
        /\ commandDelayMs \in options["commandDelayMs"] .. options["maxCommandDelayMs"]
    BY DEF WithinBand
  <2>1. options \in Options
    BY NormalizedTypes DEF Init
  <2> QED
    BY <2>1, FieldTypes DEF Init, Sane, Greatest
<1>2. TypeOK /\ WithinBand /\ [Next]_vars => WithinBand'
  <2> SUFFICES ASSUME TypeOK, WithinBand, [Next]_vars PROVE WithinBand'
    OBVIOUS
  <2>1. CASE SleepUntilDue \/ StartCycle \/ LoseConnection \/ Reconnect \/ UNCHANGED vars
    BY <2>1 DEF SleepUntilDue, StartCycle, LoseConnection, Reconnect, vars, intervals, WithinBand, Sane
  <2>2. CASE Finish
    BY <2>2, AdjustWithinBand DEF Finish, FinishCycle
  <2> QED
    BY <2>1, <2>2 DEF Next
<1> QED
  BY <1>1, <1>2, InitTypeOK, NextTypeOK, PTL DEF Spec
-----------------------------------------------------------------------------
\* The time since the last full cycle and the time to the next one add up to
\* one full interval, and the next one is never overdue by more than one late
\* timer or one fast cycle, because a fast cycle only starts before it is due.
FullBudget ==
  /\ fullIntervalMs <= FullCeiling
  /\ sinceFull + fullDueIn <= FullCeiling
  /\ fullDueIn + Greatest(MaxLate, MaxCycle) >= 0
  /\ cycle = "fast" => fullDueIn > 0

LEMMA CeilingType == ASSUME TypeOK PROVE FullCeiling \in Nat
BY FieldTypes DEF TypeOK, FullCeiling, Greatest

LEMMA NextFullBudget == TypeOK /\ FullBudget /\ [Next]_vars => FullBudget'
<1> SUFFICES ASSUME TypeOK, FullBudget, [Next]_vars, TypeOK' PROVE FullBudget'
  BY NextTypeOK
<1> USE DEF intervals
<1> DEFINE G == Greatest(MaxLate, MaxCycle)
<1>1. /\ G \in Nat /\ G >= MaxLate /\ G >= MaxCycle /\ FullCeiling \in Nat
      /\ MaxLate \in Nat /\ MaxCycle \in Nat
  BY CeilingType, ScheduleAssumption DEF ScheduleAssumption, Greatest
<1>2. options' = options /\ FullCeiling' = FullCeiling
  BY DEF Next, SleepUntilDue, StartCycle, Finish, FinishCycle, LoseConnection, Reconnect, vars, FullCeiling
<1>3. /\ fullIntervalMs \in Nat /\ fullDueIn \in Int /\ sinceFull \in Nat /\ fastDueIn \in Int
      /\ fullIntervalMs' \in Nat /\ fullDueIn' \in Int /\ sinceFull' \in Nat
  BY DEF TypeOK
<1> HIDE DEF G
<1>4. FullBudget <=> /\ fullIntervalMs <= FullCeiling
                     /\ sinceFull + fullDueIn <= FullCeiling
                     /\ fullDueIn + G >= 0
                     /\ cycle = "fast" => fullDueIn > 0
  BY DEF FullBudget, G
<1>5. FullBudget' <=> /\ fullIntervalMs' <= FullCeiling
                      /\ sinceFull' + fullDueIn' <= FullCeiling
                      /\ fullDueIn' + G >= 0
                      /\ cycle' = "fast" => fullDueIn' > 0
  BY <1>2 DEF FullBudget, G
<1>6. CASE SleepUntilDue
  <2>1. PICK late \in 0 .. MaxLate :
          LET slept == Least(fastDueIn, fullDueIn) + late IN
          /\ fullDueIn' = fullDueIn - slept
          /\ sinceFull' = sinceFull + slept
    BY <1>6 DEF SleepUntilDue
  <2>2. /\ Least(fastDueIn, fullDueIn) \in Nat /\ Least(fastDueIn, fullDueIn) <= fullDueIn
        /\ cycle' = "none" /\ fullIntervalMs' = fullIntervalMs
    BY <1>3, <1>6 DEF SleepUntilDue, ShouldRunFast, ShouldRunFull, Least
  <2> QED
    BY <1>1, <1>3, <1>4, <1>5, <2>1, <2>2
<1>7. CASE StartCycle
  BY <1>1, <1>3, <1>4, <1>5, <1>7 DEF StartCycle, ShouldRunFull
<1>8. CASE LoseConnection \/ Reconnect
  <2>1. CASE LoseConnection
    BY <1>3, <1>4, <1>5, <2>1 DEF LoseConnection
  <2>2. CASE Reconnect
    <3>1. fullDueIn' = fullIntervalMs /\ sinceFull' = 0 /\ cycle' = "none"
          /\ fullIntervalMs' = fullIntervalMs
      BY <2>2 DEF Reconnect
    <3>2. fullDueIn' + G >= 0 /\ sinceFull' + fullDueIn' <= FullCeiling
      BY <1>1, <1>3, <1>4, <3>1
    <3> QED
      BY <1>4, <1>5, <3>1, <3>2
  <2> QED
    BY <1>8, <2>1, <2>2
<1>9. ASSUME NEW result \in {"ok", "expected_error", "busy"}, FinishCycle(result) PROVE FullBudget'
  <2>1. fullIntervalMs' <= FullCeiling
    <3>1. CASE ApplyBusyBackoff
      BY <3>1, <1>3, FieldTypes DEF ApplyBusyBackoff, FullCeiling, Least, Greatest, TypeOK
    <3>2. CASE RecoverPollingState
      BY <3>2, <1>3, <1>4, FieldTypes DEF RecoverPollingState, FullCeiling, Greatest, TypeOK
    <3> QED
      BY <1>9, <3>1, <3>2 DEF FinishCycle
  <2>2. PICK took \in 0 .. MaxCycle :
          IF cycle = "full"
          THEN fullDueIn' = fullIntervalMs' /\ sinceFull' = 0
          ELSE fullDueIn' = fullDueIn - took /\ sinceFull' = sinceFull + took
    BY <1>9 DEF FinishCycle
  <2>3. cycle' = "none" /\ cycle \in {"fast", "full"}
    BY <1>9 DEF FinishCycle
  <2>4. CASE cycle = "full"
    <3>1. PICK n \in Nat : fullIntervalMs' = n
      BY <1>3
    <3>2. fullDueIn' = n /\ sinceFull' = 0 /\ n <= FullCeiling
      BY <2>1, <2>2, <2>4, <3>1
    <3>3. n + G >= 0 /\ 0 + n <= FullCeiling
      BY <1>1, <3>2
    <3> QED
      BY <1>5, <2>1, <2>3, <3>2, <3>3
  <2>5. CASE cycle = "fast"
    <3>1. fullDueIn' = fullDueIn - took /\ sinceFull' = sinceFull + took
      BY <2>2, <2>5
    <3>2. fullDueIn > 0 /\ sinceFull + fullDueIn <= FullCeiling /\ took <= G
      BY <1>1, <1>4, <2>5
    <3>3. fullDueIn' + G >= 0 /\ sinceFull' + fullDueIn' <= FullCeiling
      BY <1>1, <1>3, <3>1, <3>2
    <3> QED
      BY <1>5, <2>1, <2>3, <3>3
  <2> QED
    BY <2>3, <2>4, <2>5
<1>10. CASE UNCHANGED vars
  BY <1>1, <1>3, <1>4, <1>5, <1>10 DEF vars
<1> QED
  BY <1>6, <1>7, <1>8, <1>9, <1>10 DEF Next, Finish

\* FullCycleNotStarved for all options and delays.
THEOREM NotStarved == Spec => []FullCycleNotStarved
<1>1. Init => FullBudget
  <2> SUFFICES ASSUME Init PROVE FullBudget
    OBVIOUS
  <2>1. TypeOK /\ FullCeiling \in Nat /\ Greatest(MaxLate, MaxCycle) \in Nat
    BY InitTypeOK, CeilingType, ScheduleAssumption DEF ScheduleAssumption, Greatest
  <2>2. fullIntervalMs <= FullCeiling
    BY <2>1, FieldTypes DEF Init, FullCeiling, Greatest, TypeOK
  <2> QED
    BY <2>1, <2>2 DEF Init, FullBudget
<1>2. TypeOK /\ FullBudget => FullCycleNotStarved
  <2> SUFFICES ASSUME TypeOK, FullBudget PROVE sinceFull <= FullCeiling + Greatest(MaxLate, MaxCycle)
    BY DEF FullCycleNotStarved
  <2>1. FullCeiling \in Nat /\ Greatest(MaxLate, MaxCycle) \in Nat
    BY CeilingType, ScheduleAssumption DEF ScheduleAssumption, Greatest
  <2> QED
    BY <2>1 DEF FullBudget, TypeOK
<1> QED
  BY <1>1, <1>2, InitTypeOK, NextTypeOK, NextFullBudget, PTL DEF Spec
=============================================================================
