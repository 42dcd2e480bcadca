SPECIFICATION Spec
CONSTANTS
  Subscribers = {"scheduler", "subserver"}
  Publishers = {"tui", "cycle"}
  NoEvent = NoEvent
  BufSize = 1
  Default <- MCDefault
  Configured <- MCConfigured
  Listens = {"l1", "l2"}
  Formats = {"base64"}
  SourceIDs = {1}
  NoFile = NoFile
  MaxUpdates = 2
  MaxQueue = 1
INVARIANTS
  TypeOK
  NothingUnsavedIsApplied
  PendingRestartIsTruthful
PROPERTIES
  ImplementsOrderedBus
  HotSettingsArrive
