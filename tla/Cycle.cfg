SPECIFICATION Spec
CONSTANTS
  w1 = w1
  w2 = w2
  Slots <- MCSlots
  Sources <- MCSources
  Offers <- MCOffers
  Canonical <- MCCanonical
  Parsable <- MCParsable
  ProbeLimit = 2
  MaxRetries = 1
  RateLimited = TRUE
  ClaudeEnabled = FALSE
INVARIANTS
  TypeOK
  RecordedIsEvidence
  CompleteCycleIsAccountedFor
  NoStarvation
PROPERTIES
  CycleEnds
