CONSTANTS
  Cluster = {ca, cb}
  Size <- ForkedIsTwo
  Forked = {ca}
  MaxHeight = 1
  RvcGap = 0
  RvcStart = 0
  Lossy = {}
  StartX = {0}
SPECIFICATION Spec
INVARIANTS
  ExecutesDecided
CHECK_DEADLOCK FALSE
