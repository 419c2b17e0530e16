------------------------------- MODULE Network -------------------------------
(***************************************************************************)
(* The parts of salticidae under a replica's network, each on its own:     *)
(*   "queue"   a queue with one consumer,                                  *)
(*   "rewind"  that puts items back,                                       *)
(*   "shared"  the queue for several consumers, with one,                  *)
(*   "loss"    and with two (LockFreeQueue);                               *)
(*   "map"     the hash table that threads share (HashTable);              *)
(*   "events"  the event objects and their libuv handles (UvEvents);       *)
(*   "conn"    the bytes of one connection,                                *)
(*   "full"    with small buffers and a message that is damaged (ConnIO);  *)
(*   "pool"    the connections that users end,                             *)
(*   "tls"     with a handshake of their own,                              *)
(*   "timer"   and the connections that a timer ends (ConnPool);           *)
(*   "peers"   two peers whose connections break,                          *)
(*   "crash"   one of which restarts,                                      *)
(*   "calls"   or whose users connect and delete,                          *)
(*   "late"    or whose handshakes outlast the retry timer (PeerNet);      *)
(*   "beat"    the heartbeat of a connection (Heartbeat).                  *)
(* A behaviour is one part's; the variables of the others rest.            *)
(***************************************************************************)
EXTENDS Heartbeat, UvEvents, Integers, TLC

CONSTANTS
  Parts,                 \* the parts that are run
  Null, NotFound,
  t1, t2, k1, k2, k3, v1, v2,   \* the threads, keys and values of "map"
  c1, c2                 \* the connections of "pool" and "timer", the consumers of "loss"

VARIABLES
  part,
  blk, top, head, tail, nalloc, th, sent, got, rewound, claims,
  lists, heap, readers, writer, call, at, prev, holds, calls,
  arrived, taken, recv_buffer, msg_state, msg, msg_sleep, poll, incoming, handled,
  pushed, send_buffer, notified, bytes_sent, flight, mask, ready_send, ready_recv, pc, guarded,
  conn, pool, open, nconn, q, listening, running, fatal,
  peer, end, chan, replay, assertion, faults
queueVars == <<blk, top, head, tail, nalloc, th, sent, got, rewound, claims>>
mapVars == <<lists, heap, readers, writer, call, at, prev, holds, calls>>
ioVars == <<arrived, taken, recv_buffer, msg_state, msg, msg_sleep, poll, incoming, handled,
            pushed, send_buffer, notified, bytes_sent, flight, mask, ready_send, ready_recv, pc, guarded>>
poolVars == <<conn, pool, open, nconn, q, listening, running, fatal>>
peerVars == <<peer, end, chan, replay, assertion, faults>>
allVars == <<part, queueVars, mapVars, eventVars, ioVars, poolVars, peerVars, beatVars>>

TwoProducers == {"p1", "p2"}
OneConsumer == {"c"}
OneEach == ("p1" :> 1) @@ ("p2" :> 1)
TwoAndOne == ("p1" :> 2) @@ ("p2" :> 1)
TwoConns == {c1, c2}
OneTwo == {1, 2}
Queue == INSTANCE LockFreeQueue WITH
  Producers <- TwoProducers, Consumers <- OneConsumer, Multi <- FALSE, QSize <- 1, Unbounded <- TRUE,
  Spare <- 1, MaxBlocks <- 3, Load <- TwoAndOne, MaxRewind <- 0
Rewound == INSTANCE LockFreeQueue WITH
  Producers <- TwoProducers, Consumers <- OneConsumer, Multi <- FALSE, QSize <- 1, Unbounded <- TRUE,
  Spare <- 1, MaxBlocks <- 3, Load <- OneEach, MaxRewind <- 1
Shared == INSTANCE LockFreeQueue WITH
  Producers <- TwoProducers, Consumers <- OneConsumer, Multi <- TRUE, QSize <- 1, Unbounded <- FALSE,
  Spare <- 1, MaxBlocks <- 2, Load <- TwoAndOne, MaxRewind <- 0
Loss == INSTANCE LockFreeQueue WITH
  Producers <- {"p"}, Consumers <- TwoConns, Multi <- TRUE, QSize <- 1, Unbounded <- FALSE,
  Spare <- 1, MaxBlocks <- 2, Load <- "p" :> 4, MaxRewind <- 0

MapThreads == {t1, t2}
MapKeys == {k1, k2, k3}
MapValues == {v1, v2}
MapCells == {1, 2, 3}
MapHash == (k1 :> 1) @@ (k2 :> 1) @@ (k3 :> 2)
Map == INSTANCE HashTable WITH
  head <- lists, Threads <- MapThreads, Keys <- MapKeys, Values <- MapValues, Buckets <- OneTwo,
  Hash <- MapHash, Cells <- MapCells, MaxCalls <- 4

Good(n) == [len |-> n, ok |-> TRUE]
Conn == INSTANCE ConnIO WITH
  got <- taken, sent <- bytes_sent, Inbound <- <<Good(1), Good(0), Good(2)>>, Outbound <- <<3, 2>>,
  HeaderSize <- 1, ChunkSize <- 2, MaxRecv <- 5, MaxMsgSize <- 2, QueueCap <- 1, KernelOut <- 2
\* The third message is damaged and the last one too long.
Full == INSTANCE ConnIO WITH
  got <- taken, sent <- bytes_sent,
  Inbound <- <<Good(1), Good(0), [len |-> 1, ok |-> FALSE], Good(3)>>, Outbound <- <<3, 2>>,
  HeaderSize <- 1, ChunkSize <- 2, MaxRecv <- 2, MaxMsgSize <- 2, QueueCap <- 1, KernelOut <- 2

Pool == INSTANCE ConnPool WITH
  Conns <- TwoConns, Fds <- {11, 12}, Workers <- OneTwo, EnableTls <- FALSE,
  MayTerminate <- {"user"}, MaxStrikes <- 1
Tls == INSTANCE ConnPool WITH
  Conns <- {"c"}, Fds <- {11, 12}, Workers <- {1, 2}, EnableTls <- TRUE,
  MayTerminate <- {"user"}, MaxStrikes <- 2
Timed == INSTANCE ConnPool WITH
  Conns <- TwoConns, Fds <- {11, 12}, Workers <- OneTwo, EnableTls <- FALSE,
  MayTerminate <- {"timer"}, MaxStrikes <- 1

\* The nonces of "a" are below, above or the same as those of "b".
Both == {"a", "b"}
SameOrAbove == ("a" :> {2, 10}) @@ ("b" :> {2})
Below == ("a" :> {1}) @@ ("b" :> {2})
TwoEach == ("a" :> 2) @@ ("b" :> 2)
OneLess == ("a" :> 2) @@ ("b" :> 1)
Broken == INSTANCE PeerNet WITH
  Nodes <- Both, MaxActive <- TwoEach, Nonces <- SameOrAbove,
  CalmCalls <- TRUE, NTry <- -1, MaxLate <- 0, MaxBreaks <- 1, MaxCrashes <- 0, MaxConnPeer <- 0, MaxDelPeer <- 0
Crashed == INSTANCE PeerNet WITH
  Nodes <- Both, MaxActive <- OneLess, Nonces <- Below,
  CalmCalls <- TRUE, NTry <- -1, MaxLate <- 0, MaxBreaks <- 0, MaxCrashes <- 1, MaxConnPeer <- 0, MaxDelPeer <- 0
Called == INSTANCE PeerNet WITH
  Nodes <- Both, MaxActive <- TwoEach, Nonces <- Below,
  CalmCalls <- TRUE, NTry <- -1, MaxLate <- 0, MaxBreaks <- 0, MaxCrashes <- 0, MaxConnPeer <- 1, MaxDelPeer <- 1
Delayed == INSTANCE PeerNet WITH
  Nodes <- Both, MaxActive <- OneLess, Nonces <- Below,
  CalmCalls <- TRUE, NTry <- -1, MaxLate <- 1, MaxBreaks <- 0, MaxCrashes <- 0, MaxConnPeer <- 0, MaxDelPeer <- 0

ASSUME BeatAssumptions

Alike == Permutations({t1, t2}) \cup Permutations({v1, v2}) \cup Permutations({c1, c2})
-----------------------------------------------------------------------------
QueueInit ==
  CASE part = "queue" -> Queue!Init
    [] part = "rewind" -> Rewound!Init
    [] part = "shared" -> Shared!Init
    [] part = "loss" -> Loss!Init
    [] OTHER -> /\ blk = 0 /\ top = 0 /\ head = 0 /\ tail = 0 /\ nalloc = 0 /\ th = 0
                /\ sent = 0 /\ got = 0 /\ rewound = 0 /\ claims = 0
MapInit ==
  IF part = "map" THEN Map!Init
  ELSE /\ lists = 0 /\ heap = 0 /\ readers = 0 /\ writer = 0 /\ call = 0 /\ at = 0 /\ prev = 0
       /\ holds = 0 /\ calls = 0
IoInit ==
  IF part \in {"conn", "full"} THEN Conn!Init
  ELSE /\ arrived = 0 /\ taken = 0 /\ recv_buffer = 0 /\ msg_state = 0 /\ msg = 0 /\ msg_sleep = 0
       /\ poll = 0 /\ incoming = 0 /\ handled = 0 /\ pushed = 0 /\ send_buffer = 0 /\ notified = 0
       /\ bytes_sent = 0 /\ flight = 0 /\ mask = 0 /\ ready_send = 0 /\ ready_recv = 0 /\ pc = 0
       /\ guarded = 0
PoolInit ==
  CASE part \in {"pool", "timer"} -> Pool!Init
    [] part = "tls" -> Tls!Init
    [] OTHER -> /\ conn = 0 /\ pool = 0 /\ open = 0 /\ nconn = 0 /\ q = 0
                /\ listening = 0 /\ running = 0 /\ fatal = 0
PeerInit ==
  IF part \in {"peers", "calls"} THEN Broken!Init
  ELSE IF part \in {"crash", "late"} THEN Delayed!Init
  ELSE peer = 0 /\ end = 0 /\ chan = 0 /\ replay = 0 /\ assertion = 0 /\ faults = 0
NetworkInit ==
  /\ part \in Parts
  /\ QueueInit /\ MapInit /\ IoInit /\ PoolInit /\ PeerInit
  /\ BeatInit /\ (part # "beat" => timer = PingPeriod)
  /\ EventInit /\ (part # "events" => class = "FdEvent")

QueueNext ==
  \/ (part = "queue" /\ Queue!Next) \/ (part = "rewind" /\ Rewound!Next)
  \/ (part = "shared" /\ Shared!Next) \/ (part = "loss" /\ Loss!Next)
IoNext == (part = "conn" /\ Conn!Next) \/ (part = "full" /\ Full!Next)
PoolNext == (part = "pool" /\ Pool!Next) \/ (part = "tls" /\ Tls!Next) \/ (part = "timer" /\ Timed!Next)
PeerNext ==
  \/ (part = "peers" /\ Broken!Next) \/ (part = "crash" /\ Crashed!Next)
  \/ (part = "calls" /\ Called!Next) \/ (part = "late" /\ Delayed!Next)
NetworkNext ==
  \/ QueueNext /\ UNCHANGED <<part, mapVars, eventVars, ioVars, poolVars, peerVars, beatVars>>
  \/ part = "map" /\ Map!Next
     /\ UNCHANGED <<part, queueVars, eventVars, ioVars, poolVars, peerVars, beatVars>>
  \/ part = "events" /\ EventNext
     /\ UNCHANGED <<part, queueVars, mapVars, ioVars, poolVars, peerVars, beatVars>>
  \/ IoNext /\ UNCHANGED <<part, queueVars, mapVars, eventVars, poolVars, peerVars, beatVars>>
  \/ PoolNext /\ UNCHANGED <<part, queueVars, mapVars, eventVars, ioVars, peerVars, beatVars>>
  \/ PeerNext /\ UNCHANGED <<part, queueVars, mapVars, eventVars, ioVars, poolVars, beatVars>>
  \/ part = "beat" /\ BeatNext
     /\ UNCHANGED <<part, queueVars, mapVars, eventVars, ioVars, poolVars, peerVars>>

NetworkSpec == NetworkInit /\ [][NetworkNext]_allVars
-----------------------------------------------------------------------------
\* A block is never in two places: on the free list, or in the chain from head to
\* tail, or with the thread that is about to link it (queue.h).
BlocksDisjoint == (part = "queue" => Queue!BlocksDisjoint) /\ (part = "rewind" => Rewound!BlocksDisjoint)
\* The lock-free queue implements a first-in first-out queue with rewind: each
\* enqueue takes effect at the compare_exchange on tail, each dequeue when the
\* head index moves, whatever blocks are recycled meanwhile.
ImplementsFifo ==
  /\ (part = "queue" => Queue!Fifo!Init) /\ (part = "rewind" => Rewound!Fifo!Init)
  /\ [][part = "queue" => [Queue!Fifo!Next]_<<Queue!Contents, Queue!Received, Queue!Entered>>]_allVars
  /\ [][part = "rewind" => [Rewound!Fifo!Next]_<<Rewound!Contents, Rewound!Received, Rewound!Entered>>]_allVars
\* try_dequeue finds nothing only when nothing is queued: at the load that
\* decides (of tail, or of next) no item is claimed and not yet taken.
EmptyOnlyIfEmpty ==
  [][(part \in {"queue", "rewind"} /\ th["c"].pc \in {"look", "next"} /\ th'["c"].pc \in {"idle", "release"})
       => Queue!Contents = <<>>]_allVars
\* Nothing is lost or doubled: an item that was enqueued is in one place, queued,
\* delivered, or claimed by a consumer that waits for it.
EachInOnePlace == (part = "shared" => Shared!EachInOnePlace) /\ (part = "loss" => Loss!EachInOnePlace)

\* No thread looks at a node that another one has deleted.
NoDeadNode == part = "map" => Map!NoDeadNode
\* Every node is in one list, at the bucket of its key.
NodesInPlace == part = "map" => Map!NodesInPlace
\* "Concurrent Thread Safe Library": calls of several threads behave as if each
\* took effect at once.
Linearizable ==
  /\ part = "map" => Map!Abstract!Init
  /\ [][part = "map" => [Map!Abstract!Next]_<<Map!Stored, call>>]_allVars

\* The handlers get the messages that were sent, whole, in order and each once,
\* whatever the sizes of the reads and however often the queue was full.
FramesInOrder == (part = "conn" => Conn!FramesInOrder) /\ (part = "full" => Full!FramesInOrder)
\* The bytes go out in the order of the messages, also when the socket takes a
\* part of one.
SentInOrder == (part = "conn" => Conn!SentInOrder) /\ (part = "full" => Full!SentInOrder)
\* What is left to send has a WRITE event or a notification to come.
SendHasEvent == (part = "conn" => Conn!SendHasEvent) /\ (part = "full" => Full!SendHasEvent)

\* The pool is what the process has open, and a connection is deleted when it is
\* in the pool (the asserts of add_conn and del_conn).
PoolIsOpen ==
  (part = "pool" => Pool!PoolIsOpen) /\ (part = "tls" => Tls!PoolIsOpen) /\ (part = "timer" => Timed!PoolIsOpen)
\* A socket event exists only for a live connection whose descriptor is still
\* its own, or one that got its worker too late.
EventsOfLive ==
  (part = "pool" => Pool!EventsOfLive) /\ (part = "tls" => Tls!EventsOfLive) /\ (part = "timer" => Timed!EventsOfLive)
\* select_worker compares the numbers of connections the workers really have, as
\* long as none got its worker too late.
CountsAreFed ==
  (part = "pool" => Pool!CountsAreFed) /\ (part = "tls" => Tls!CountsAreFed) /\ (part = "timer" => Timed!CountsAreFed)
\* The user hears that a connection is up before it hears that it is down, and
\* each at most once; of one that got its worker too late also the other way round.
ToldInOrder ==
  (part = "pool" => Pool!ToldInOrder) /\ (part = "tls" => Tls!ToldInOrder) /\ (part = "timer" => Timed!ToldInOrder)
\* stop leaves no descriptor open.
StopCloses ==
  (part = "pool" => Pool!StopCloses) /\ (part = "tls" => Tls!StopCloses) /\ (part = "timer" => Timed!StopCloses)

\* No assertion of the handshake fails, and no connection points to a Peer that
\* del_peer has freed; but after a retry timer that has overtaken a handshake the
\* assertions of pong_handler (network.h:1109) and of on_dispatcher_teardown may.
NoAssertionFails == part \in {"peers", "crash", "calls", "late"} => Broken!NoAssertionFails
\* When nothing is in progress and both nodes hold the other for connected, they
\* have chosen the same connection, and it is open at both ends.
SameConnection ==
  (part \in {"peers", "calls"} => Broken!SameConnection) /\ (part \in {"crash", "late"} => Delayed!SameConnection)
\* When nothing is in progress, no connection but the chosen one is open: after
\* breaks.  A restart, a call of conn_peer or a slow handshake may leave another
\* one, until conn_timeout ends it.
ExactlyOne == part = "peers" => Broken!ExactlyOne
\* Whenever everything is settled and conn_timeout has ended what is left over,
\* both nodes are connected, or the retry timer of one of them is armed; unless,
\* after a restart or a slow handshake, a preempting ping came to nothing.
NeverStuck ==
  (part \in {"peers", "calls"} => Broken!NeverStuck) /\ (part \in {"crash", "late"} => Delayed!NeverStuck)

\* The lock-free queues are queues while one thread consumes: see the four
\* properties it is made of.  Two consumers lose items (MPMCQueue, part "loss").
QueueIsFifo == [](BlocksDisjoint /\ EachInOnePlace) /\ ImplementsFifo /\ EmptyOnlyIfEmpty
\* Threads that share the hash table see a map whose calls are atomic: what CTSL
\* (HashMap.h, HashBucket.h) promises of the map in which the application keeps
\* its data.  The application itself calls it from one thread.
MapIsAtomic == [](NoDeadNode /\ NodesInPlace) /\ Linearizable
\* The bytes of a connection come and go in order (conn.cpp, network.h).
BytesInOrder == FramesInOrder /\ SentInOrder /\ SendHasEvent
\* The connections of a ConnPool stay consistent in its threads, from conn_server
\* and connect to del_conn and stop (conn.cpp), but for a connection that is given
\* a worker while the call that ends it without one waits (conn.cpp:295-317).
PoolIsSound == PoolIsOpen /\ EventsOfLive /\ CountsAreFed /\ ToldInOrder /\ StopCloses
\* The handshakes of two peers, with their races, end in one shared connection,
\* or in a retry (PeerNetwork of network.h), also after a break, a restart, a call
\* of the user or a retry that comes too early, with the exceptions above.
PeersAgree == NoAssertionFails /\ SameConnection /\ ExactlyOne /\ NeverStuck
=============================================================================
