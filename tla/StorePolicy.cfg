CONSTANTS
  Links = {l1}
  Results <- ScoreResults
  LegacyResults <- NoLegacy
  NoRecord = NoRecord
  HistoryCapacity = 8
  MinObservationsForServing = 1
  MaxAbsentCycles = 1
SPECIFICATION Spec
INVARIANT PolicyOverrideHolds
