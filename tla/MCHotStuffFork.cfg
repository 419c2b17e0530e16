CONSTANTS
  lead = lead
  cut = cut
  r3 = r3
  r4 = r4
  Replica = {lead, cut, r3, r4}
  Proposers = {lead, cut}
  MaxBlocks = 7
SPECIFICATION ForkSpec
SYMMETRY Symmetry
INVARIANTS
  Agreement
  ChainIsFinal
CHECK_DEADLOCK FALSE
