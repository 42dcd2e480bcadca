SPECIFICATION LiveSpec
CONSTANTS
  Loops = {l1, l2}
  Intervals = {1, 2}
  NoInterval = 0
  MaxOps = 1
  MaxUpdates = 2
INVARIANTS OneLoop SignalIsCurrent TimerIsCurrent PausedRunsAtMostOne
PROPERTIES StopIsClean StopReturns CyclesGoOn
