SPECIFICATION Spec
CONSTANTS
  MaxCycles = 2
  MaxQueue = 1
INVARIANTS TypeOK StatusIsCurrent OnboardedOnce
PROPERTIES AnswersArrive
