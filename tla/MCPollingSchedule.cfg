CONSTANTS
  Defaults <- MCDefaults
  Intervals <- MCIntervals
  OptionObjects <- MCOptionObjects
  MaxLate = 1
  MaxCycle = 3
SPECIFICATION FairSpec
INVARIANTS
  TypeOK
  WithinBand
  FullCycleNotStarved
PROPERTIES
  ReturnsToConfigured
