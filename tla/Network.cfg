\* A round trip of up to 6 ticks may outlast a ping period of 4 to 6.
CONSTANTS
  Parts = {"queue", "rewind", "shared", "map", "events", "conn", "full", "pool", "tls", "timer", "peers", "crash", "calls", "late", "beat"}
  Null = Null
  NotFound = NotFound
  t1 = t1
  t2 = t2
  k1 = k1
  k2 = k2
  k3 = k3
  v1 = v1
  v2 = v2
  c1 = c1
  c2 = c2
  EventSlots = {1, 2}
  MaxEvents = 3
  PingPeriod = 4
  ConnTimeout = 7
  MaxDelay = 3
SPECIFICATION NetworkSpec
SYMMETRY Alike
CHECK_DEADLOCK FALSE
INVARIANTS
  EventsAreOwned
  BytesInOrder
  PoolIsSound
  PeersAgree
  NoFalseTimeout
PROPERTIES
  QueueIsFifo
  MapIsAtomic
