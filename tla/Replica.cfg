CONSTANTS
  Parts = {"fetch", "restart", "proposer", "prune", "leave", "five", "rejoin", "peers", "rotation", "client", "window"}
  n0 = n0
  n1 = n1
  n2 = n2
  n3 = n3
  n4 = n4
  Cmd = {"w1", "w2", "rd"}
  Reads = {"rd"}
  Reconfigs = {"w2"}
  blk_size = 1
  Throws = {TRUE, FALSE}
  MaxSubmit = 2
  MaxElsewhere = 1
  MaxRotate = 1
  Nodes = {"A", "B"}
  Blocks = {0, 1, 2, 3}
  Genesis = 0
  Author <- ChainAuthor
  Parent <- ChainParent
  QcRef <- ChainQcRef
  Upto <- ChainUpto
  VoteTo <- ChainVoteTo
  MaxLost = 2
  MaxRestarts = 0
  Nobody = "nobody"
SPECIFICATION ReplicaSpec
SYMMETRY Bystanders
CHECK_DEADLOCK FALSE
INVARIANTS
  BlocksArrive
  PruningIsSafe
  ChangesAgree
  OneUncertified
  AnsweredOnce
  ClientCounts
PROPERTY RotationIsSound
