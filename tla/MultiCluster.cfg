CONSTANTS
  Cluster = {ca, cb}
  Size <- AllTwo
  Forked = {ca}
  MaxHeight = 1
  RvcGap = 0
  RvcStart = 0
  Lossy = {}
  StartX = {0, 1}
SPECIFICATION Spec
INVARIANTS
  ExecutedOnceReady
  TimerOnlyWhileWaiting
  RotatedForMajority
  ExecutedAfterAllClusters
CHECK_DEADLOCK FALSE
