CONSTANTS
  Cmd = {w1, w2}
  Reads = {}
  Reconfigs = {}
  blk_size = 1
  Throws = {FALSE}
  MaxSubmit = 1
  MaxElsewhere = 0
  MaxRotate = 1
SPECIFICATION Spec
INVARIANTS
  ResolvedIsProposed
CHECK_DEADLOCK FALSE
