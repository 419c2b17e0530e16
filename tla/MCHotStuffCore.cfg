CONSTANTS
  lead = lead
  cut = cut
  Replica = {lead, cut}
  Proposers = {lead, cut}
  MaxBlocks = 4
SPECIFICATION StartSpec
INVARIANTS
  TypeOK
  IndInv
PROPERTIES
  NeverBack
CHECK_DEADLOCK FALSE
