CONSTANTS
  Links = {l1}
  Results <- CycleResults
  LegacyResults <- SomeLegacy
  NoRecord = NoRecord
  HistoryCapacity = 3
  MinObservationsForServing = 1
  MaxAbsentCycles = 2
SPECIFICATION DurableSpec
INVARIANT TypeOK
INVARIANT ServedIsListed
INVARIANT ServedHasPassed
PROPERTY RestartLosesOnlyGrace
