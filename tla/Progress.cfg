CONSTANTS
  Parts = {"loss", "blocks", "batches", "client", "reconfig", "queue", "calls", "verify", "refs", "conn", "tls", "peers", "beat"}
  Null = Null
  Nobody = Nobody
  Threads = {1, 2, 3}
  Owner = 1
  MaxCopies = 3
SPECIFICATION ProgressSpec
CHECK_DEADLOCK FALSE
INVARIANT NoUseAfterFree
PROPERTIES
  LossIsMadeUpFor
  CommandsAreAnswered
  ThreadsGoOn
  ConnectionsGoOn
  PeersStayLinked
