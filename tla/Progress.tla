------------------------------- MODULE Progress ------------------------------
(***************************************************************************)
(* What must happen in the end, for small instances of the parts of the    *)
(* system, each on its own and under the fairness its module states:       *)
(*   "loss"     announcements to other clusters get lost (MultiCluster);   *)
(*   "blocks"   fetching blocks while messages get lost (BlockFetch);      *)
(*   "batches"  the batches given to the pacemaker (ProposerQueue);        *)
(*   "client"   a client, with a replica that stops,                       *)
(*   "reconfig" and the one that asks to reconfigure (ClientServer);       *)
(*   "queue"    a lock-free queue with two producers (LockFreeQueue);      *)
(*   "calls"    calls into the thread of an event loop (ThreadCall);       *)
(*   "verify"   the threads that verify signatures (VeriPool);             *)
(*   "refs"     the references to an object that threads share (RefCount); *)
(*   "conn"     the bytes of one connection (ConnIO);                      *)
(*   "tls"      a connection that ends (ConnPool);                         *)
(*   "peers"    two peers whose connections break (PeerNet);               *)
(*   "beat"     the heartbeat of a connection (Heartbeat).                 *)
(* A behaviour is one part's; the variables of the others rest.  What has  *)
(* to happen is stable once it has happened, or can be undone only a       *)
(* bounded number of times, so that "again and again" says of it what      *)
(* "in the end" does.                                                      *)
(***************************************************************************)
EXTENDS RefCount, Integers, Sequences

CONSTANTS
  Parts,                     \* the parts that are run
  Null                       \* no block of a queue

VARIABLES
  part,
  cid_blkhash, committed, finished_heights, tracker, timers, executed, lcomplains, rcomplains,
  dropped, last_rvc, proposer, others_known, status, mc1, mc2, lc, rc,
  rep, net, lost_msgs, restarts,
  submitted, answers, decision_waiting, buffer, pending_beats, armed, locked, blocks, full,
  known, decided, elsewhere, lost, leads, rotations, up,
  waiting, cnt, iter, reconfig_done, requests, cmd_pending, resp_queue, responses, stopping,
  answered, finished,
  blk, top, head, tail, nalloc, th, sent, got, rewound, claims,
  queue, wait_sig, nfd, at, made, loop, loop_cnt, stopped, result,
  inq, inSig, inFd, outq, outSig, outFd, main, wk, task, burst_cnt, pms, verdict, asked, damaged,
  arrived, taken, recv_buffer, msg_state, msg, msg_sleep, poll, incoming, handled, pushed,
  send_buffer, notified, bytes_sent, flight, mask, ready_send, ready_recv, io_pc, guarded,
  conn, pool, open, nconn, q, listening, running, fatal,
  peer, end, chan, replay, assertion, faults,
  ping_timer_ok, pong_msg_ok, timer, timeout, wire, alive, ended
lossVars == <<cid_blkhash, committed, finished_heights, tracker, timers, executed, lcomplains,
              rcomplains, dropped, last_rvc, proposer, others_known, status, mc1, mc2, lc, rc>>
blocksVars == <<rep, net, lost_msgs, restarts>>
batchesVars == <<submitted, answers, decision_waiting, buffer, pending_beats, armed, locked,
                 blocks, full, known, decided, elsewhere, lost, leads, rotations, up>>
clientVars == <<waiting, cnt, iter, reconfig_done, requests, cmd_pending, resp_queue, responses,
                stopping, answered, finished>>
queueVars == <<blk, top, head, tail, nalloc, th, sent, got, rewound, claims>>
callsVars == <<queue, wait_sig, nfd, at, made, loop, loop_cnt, stopped, result>>
verifyVars == <<inq, inSig, inFd, outq, outSig, outFd, main, wk, task, burst_cnt, pms, verdict,
                asked, damaged>>
connVars == <<arrived, taken, recv_buffer, msg_state, msg, msg_sleep, poll, incoming, handled,
              pushed, send_buffer, notified, bytes_sent, flight, mask, ready_send, ready_recv,
              io_pc, guarded>>
tlsVars == <<conn, pool, open, nconn, q, listening, running, fatal>>
peersVars == <<peer, end, chan, replay, assertion, faults>>
beatVars == <<ping_timer_ok, pong_msg_ok, timer, timeout, wire, alive, ended>>
replicaVars == <<lossVars, blocksVars, batchesVars, clientVars>>
threadVars == <<queueVars, callsVars, verifyVars, vars>>
networkVars == <<connVars, tlsVars, peersVars, beatVars>>
allVars == <<part, replicaVars, threadVars, networkVars>>

\* Two clusters, the first of which has two replicas.
Loss == INSTANCE MultiCluster WITH
  finished <- finished_heights, Cluster <- {"ca", "cb"}, Size <- [k \in {"ca", "cb"} |-> IF k = "ca" THEN 2 ELSE 1],
  Forked <- {}, MaxHeight <- 1, RvcGap <- 0, RvcStart <- 0, Lossy <- {"cb"}, StartX <- {0}

\* The chain of blocks of Replica: the third one carries the certificate of the
\* first one.
Author == [b \in 1..3 |-> "A"]
Parent == [b \in 0..3 |-> IF b = 0 THEN 0 ELSE b - 1]
QcRef == [b \in 0..3 |-> IF b <= 1 THEN 0 ELSE 1]
Upto == [b \in 0..3 |-> 1..b]
VoteTo == [r \in {"A", "B"} |-> IF r = "A" THEN "B" ELSE "A"]
Fetch == INSTANCE BlockFetch WITH
  Nodes <- {"A", "B"}, Blocks <- 0..3, Genesis <- 0, MaxLost <- 2, MaxRestarts <- 0, Nobody <- "nobody"

Proposing == INSTANCE ProposerQueue WITH
  Cmd <- {"w1", "w2"}, Reads <- {}, Reconfigs <- {},
  blk_size <- 1, Throws <- BOOLEAN, MaxSubmit <- 2, MaxElsewhere <- 0, MaxRotate <- 1

Client == INSTANCE ClientServer WITH
  Replicas <- 1..4, nfaulty <- 1, max_iter_num <- 1, max_async_num <- 1, reconfig_client <- FALSE, MaxStops <- 1
Reconfiguring == INSTANCE ClientServer WITH
  Replicas <- 1..4, nfaulty <- 1, max_iter_num <- 1, max_async_num <- 1, reconfig_client <- TRUE, MaxStops <- 1

Queue == INSTANCE LockFreeQueue WITH
  Producers <- {"p1", "p2"}, Consumers <- {"c"}, Multi <- FALSE, QSize <- 1, Unbounded <- FALSE,
  Spare <- 1, MaxBlocks <- 3, Load <- [p \in {"p1", "p2"} |-> IF p = "p1" THEN 2 ELSE 1], MaxRewind <- 0

Calls == INSTANCE ThreadCall WITH cnt <- loop_cnt, Callers <- {"a", "b"}, MaxCalls <- 2, Burst <- 2

Verify == INSTANCE VeriPool WITH
  cnt <- burst_cnt, Workers <- {"v1", "v2"}, Tasks <- {"t1", "t2"}, Valid <- {"t1"}, MaxVerify <- 3, Burst <- 1

Good(n) == [len |-> n, ok |-> TRUE]
Conn == INSTANCE ConnIO WITH
  pc <- io_pc, got <- taken, sent <- bytes_sent, Inbound <- <<Good(1), Good(0), Good(2)>>, Outbound <- <<3, 2>>,
  HeaderSize <- 1, ChunkSize <- 2, MaxRecv <- 2, MaxMsgSize <- 2, QueueCap <- 1, KernelOut <- 2

Tls == INSTANCE ConnPool WITH
  Conns <- {"c"}, Fds <- {11, 12}, Workers <- {1, 2}, EnableTls <- TRUE,
  MayTerminate <- {"user"}, MaxStrikes <- 2

Linking == INSTANCE PeerNet WITH
  Nodes <- {"a", "b"}, MaxActive <- [n \in {"a", "b"} |-> 2], Nonces <- [n \in {"a", "b"} |-> IF n = "a" THEN {3} ELSE {2}],
  MaxLate <- 0, CalmCalls <- TRUE, NTry <- -1, MaxBreaks <- 1, MaxCrashes <- 0, MaxConnPeer <- 0,
  MaxDelPeer <- 0

\* A round trip of up to 6 ticks may outlast a ping period of 4 to 6.
Beat == INSTANCE Heartbeat WITH PingPeriod <- 4, ConnTimeout <- 7, MaxDelay <- 3

ASSUME Assumptions /\ Proposing!Assumptions /\ Calls!Assumptions /\ Beat!BeatAssumptions
-----------------------------------------------------------------------------
ProgressInit ==
  /\ part \in Parts
  /\ Init
  /\ IF part = "loss" THEN Loss!Init
     ELSE /\ cid_blkhash = 0 /\ committed = 0 /\ finished_heights = 0 /\ tracker = 0
          /\ timers = 0 /\ executed = 0 /\ lcomplains = 0 /\ rcomplains = 0 /\ dropped = 0
          /\ last_rvc = 0 /\ proposer = 0 /\ others_known = 0 /\ status = 0 /\ mc1 = 0
          /\ mc2 = 0 /\ lc = 0 /\ rc = 0
  /\ IF part = "blocks" THEN Fetch!FetchInit
     ELSE /\ rep = 0 /\ net = 0 /\ lost_msgs = 0 /\ restarts = 0
  /\ IF part = "batches" THEN Proposing!Init
     ELSE /\ submitted = 0 /\ answers = 0 /\ decision_waiting = 0 /\ buffer = 0
          /\ pending_beats = 0 /\ armed = 0 /\ locked = 0 /\ blocks = 0 /\ full = 0 /\ known = 0
          /\ decided = 0 /\ elsewhere = 0 /\ lost = 0 /\ leads = 0 /\ rotations = 0
          /\ up = 0
  /\ IF part \in {"client", "reconfig"} THEN Client!ClientInit
     ELSE /\ waiting = 0 /\ cnt = 0 /\ iter = 0 /\ reconfig_done = 0 /\ requests = 0
          /\ cmd_pending = 0 /\ resp_queue = 0 /\ responses = 0 /\ stopping = 0 /\ answered = 0
          /\ finished = 0
  /\ IF part = "queue" THEN Queue!Init
     ELSE /\ blk = 0 /\ top = 0 /\ head = 0 /\ tail = 0 /\ nalloc = 0 /\ th = 0 /\ sent = 0
          /\ got = 0 /\ rewound = 0 /\ claims = 0
  /\ IF part = "calls" THEN Calls!Init
     ELSE /\ queue = 0 /\ wait_sig = 0 /\ nfd = 0 /\ at = 0 /\ made = 0 /\ loop = 0
          /\ loop_cnt = 0 /\ stopped = 0 /\ result = 0
  /\ IF part = "verify" THEN Verify!Init
     ELSE /\ inq = 0 /\ inSig = 0 /\ inFd = 0 /\ outq = 0 /\ outSig = 0 /\ outFd = 0 /\ main = 0
          /\ wk = 0 /\ task = 0 /\ burst_cnt = 0 /\ pms = 0 /\ verdict = 0 /\ asked = 0
          /\ damaged = 0
  /\ IF part = "conn" THEN Conn!Init
     ELSE /\ arrived = 0 /\ taken = 0 /\ recv_buffer = 0 /\ msg_state = 0 /\ msg = 0
          /\ msg_sleep = 0 /\ poll = 0 /\ incoming = 0 /\ handled = 0 /\ pushed = 0
          /\ send_buffer = 0 /\ notified = 0 /\ bytes_sent = 0 /\ flight = 0 /\ mask = 0
          /\ ready_send = 0 /\ ready_recv = 0 /\ io_pc = 0 /\ guarded = 0
  /\ IF part = "tls" THEN Tls!Init
     ELSE /\ conn = 0 /\ pool = 0 /\ open = 0 /\ nconn = 0 /\ q = 0
          /\ listening = 0 /\ running = 0 /\ fatal = 0
  /\ IF part = "peers" THEN Linking!Init
     ELSE /\ peer = 0 /\ end = 0 /\ chan = 0 /\ replay = 0 /\ assertion = 0 /\ faults = 0
  /\ IF part = "beat" THEN Beat!BeatInit
     ELSE /\ ping_timer_ok = 0 /\ pong_msg_ok = 0 /\ timer = 0 /\ timeout = 0 /\ wire = 0
          /\ alive = 0 /\ ended = 0

ProgressNext ==
  \/ part = "loss" /\ Loss!Next
     /\ UNCHANGED <<part, blocksVars, batchesVars, clientVars, threadVars, networkVars>>
  \/ part = "blocks" /\ Fetch!FetchNext
     /\ UNCHANGED <<part, lossVars, batchesVars, clientVars, threadVars, networkVars>>
  \/ part = "batches" /\ Proposing!Next
     /\ UNCHANGED <<part, lossVars, blocksVars, clientVars, threadVars, networkVars>>
  \/ ((part = "client" /\ Client!ClientNext) \/ (part = "reconfig" /\ Reconfiguring!ClientNext))
     /\ UNCHANGED <<part, lossVars, blocksVars, batchesVars, threadVars, networkVars>>
  \/ part = "queue" /\ Queue!Next
     /\ UNCHANGED <<part, replicaVars, callsVars, verifyVars, vars, networkVars>>
  \/ part = "calls" /\ Calls!Next
     /\ UNCHANGED <<part, replicaVars, queueVars, verifyVars, vars, networkVars>>
  \/ part = "verify" /\ Verify!Next
     /\ UNCHANGED <<part, replicaVars, queueVars, callsVars, vars, networkVars>>
  \/ part = "refs" /\ Next
     /\ UNCHANGED <<part, replicaVars, queueVars, callsVars, verifyVars, networkVars>>
  \/ part = "conn" /\ Conn!Next
     /\ UNCHANGED <<part, replicaVars, threadVars, tlsVars, peersVars, beatVars>>
  \/ part = "tls" /\ Tls!Next
     /\ UNCHANGED <<part, replicaVars, threadVars, connVars, peersVars, beatVars>>
  \/ part = "peers" /\ Linking!Next
     /\ UNCHANGED <<part, replicaVars, threadVars, connVars, tlsVars, beatVars>>
  \/ part = "beat" /\ Beat!BeatNext
     /\ UNCHANGED <<part, replicaVars, threadVars, connVars, tlsVars, peersVars>>

\* Fairness of each part, while it is the one that is run.
\* Consensus makes progress, timers fire, and the network delivers what is sent to
\* a replica that is up, except perhaps the announcements of the Lossy clusters.
\* A complaint that ended in an exception is not delivered again.
Lossless(c, answer) == c # "cb" \/ answer
LossFairness ==
  \A r \in Loss!Replica, h \in Loss!Height :
    /\ WF_lossVars(part = "loss" /\ Loss!OnDeliverBlk(r, h, "main"))
    /\ WF_lossVars(part = "loss" /\ Loss!Commit(r, h))
    /\ WF_lossVars(part = "loss" /\ Loss!RemoteViewChangeTimer(r, h))
    /\ \A c \in {"ca", "cb"}, answer \in BOOLEAN :
         /\ WF_lossVars(/\ part = "loss" /\ Lossless(c, answer) /\ <<c, h, answer>> \in mc1
                        /\ Loss!Hears(r, c) /\ Loss!ReceiveMc1(r, c, h, answer))
         /\ WF_lossVars(/\ part = "loss" /\ <<r[1], c, h, answer>> \in mc2
                        /\ Loss!ReceiveMc2(r, c, h, answer))
    /\ \A v \in Loss!Peers(r) : WF_lossVars(part = "loss" /\ <<v, h>> \in lc /\ Loss!ReceiveLComplain(r, v, h))
    /\ \A c \in {"ca", "cb"}, scope \in {"other", "local"} :
         WF_lossVars(/\ part = "loss" /\ <<c, h, scope>> \in rc /\ h \notin dropped[r]
                     /\ Loss!HearsComplaint(r, <<c, h, scope>>) /\ Loss!ReceiveRComplain(r, h))

\* Every replica's loop handles what arrives, its timers fire and its pool
\* works; no replica has to propose, and nothing has to be lost.
BlocksFairness ==
  \A r \in {"A", "B"} :
    /\ WF_blocksVars(part = "blocks" /\ \E m \in net : m.to = r /\ Fetch!Handle(m))
    /\ WF_blocksVars(part = "blocks" /\ \E b \in 1..3 : Fetch!Verified(r, b))
    /\ \A b \in 1..3 : WF_blocksVars(part = "blocks" /\ Fetch!Timeout(r, b))

\* The votes for a block of this replica arrive and are counted.
BatchesFairness ==
  WF_batchesVars(part = "batches" /\ \E throws \in BOOLEAN :
                   Proposing!OnQcFinish(Proposing!last_proposed, TRUE, throws))

\* A command is decided in the end (a reconfiguration is answered without), and
\* the loops of the client and of the replicas that are not stopped run.
ClientFairness ==
  /\ WF_clientVars(part = "client" /\ Client!Start)
  /\ WF_clientVars(part = "reconfig" /\ Reconfiguring!Start)
  /\ \A r \in 1..4 : /\ WF_clientVars(part = "client" /\ Client!Respond(r))
                     /\ WF_clientVars(part = "reconfig" /\ Reconfiguring!Respond(r))
                     /\ WF_clientVars(part \in {"client", "reconfig"} /\ Client!Serve(r))

\* Every thread keeps running; nobody has to make a call, to ask for a
\* verification or to copy a reference.
ThreadsFairness ==
  /\ \A p \in {"p1", "p2"} : WF_queueVars(part = "queue" /\ (Queue!FreeListStep(p) \/ Queue!EnqStep(p)))
  /\ WF_queueVars(part = "queue" /\ (Queue!FreeListStep("c") \/ Queue!DeqStep("c") \/ Queue!NoPop("c")))
  /\ WF_callsVars(part = "calls" /\ Calls!LoopStep)
  /\ \A c \in {"a", "b"} : WF_callsVars(part = "calls" /\ Calls!CallerStep(c))
  /\ WF_verifyVars(part = "verify" /\ Verify!MainStep)
  /\ \A w \in {"v1", "v2"} : WF_verifyVars(part = "verify" /\ Verify!WorkerStep(w))
  /\ \A t \in Threads : WF_vars(part = "refs" /\ Step(t))

\* The event loop of the worker serves every event that stays ready, the user's
\* thread empties its queue, and the network moves the bytes it was given.
ConnFairness ==
  /\ WF_connVars(part = "conn" /\ Conn!Arrive) /\ WF_connVars(part = "conn" /\ Conn!Drain)
  /\ WF_connVars(part = "conn" /\ Conn!Handle) /\ WF_connVars(part = "conn" /\ Conn!ReadEvent)
  /\ WF_connVars(part = "conn" /\ Conn!WriteEvent) /\ WF_connVars(part = "conn" /\ Conn!QueueEvent)
  /\ WF_connVars(part = "conn" /\ Conn!PollTimer)
  /\ WF_connVars(part = "conn" /\ (\/ Conn!SendStep \/ Conn!SendDone \/ Conn!RecvFull
                                  \/ Conn!RecvChunk \/ Conn!ReadHeader \/ Conn!ReadPayload))

\* Every thread goes on with its queue.
TlsFairness ==
  /\ WF_tlsVars(part = "tls" /\ (\/ Tls!DelConn("c") \/ Tls!DispTerminate("c")
                                \/ Tls!Terminate("c") \/ Tls!Setup("c")))
  /\ WF_tlsVars(part = "tls" /\ Tls!ConnCallback("c"))
  /\ \A t \in {1, 2} :
       WF_tlsVars(part = "tls" /\ (Tls!Feed(t, "c") \/ Tls!WorkerTerminate(t, "c") \/ Tls!Enable(t, "c")))

\* Timers fire, connections are made, and the threads of both nodes go on.
PeersFairness ==
  /\ \A n \in {"a", "b"} : /\ WF_peersVars(part = "peers" /\ Linking!Retry(n))
                           /\ WF_peersVars(part = "peers" /\ Linking!Replay(n))
  /\ \A c \in Linking!Conns :
       /\ WF_peersVars(part = "peers" /\ Linking!Connected(c))
       /\ \A n \in {"a", "b"} :
            WF_peersVars(part = "peers" /\ (\/ Linking!Setup(c, n) \/ Linking!WorkerTerminate(c, n)
                                           \/ Linking!Eof(c, n) \/ Linking!Teardown(c, n)
                                           \/ Linking!Handle(c, n)))

\* Time passes, timers fire, and a peer that has not died answers.
BeatFairness ==
  /\ WF_beatVars(part = "beat" /\ Beat!PingTimer) /\ WF_beatVars(part = "beat" /\ Beat!PeerPong)
  /\ WF_beatVars(part = "beat" /\ Beat!PongHandler) /\ WF_beatVars(part = "beat" /\ Beat!Timeout)
  /\ WF_beatVars(part = "beat" /\ Beat!Tick)

Fairness ==
  /\ LossFairness /\ BlocksFairness /\ BatchesFairness /\ ClientFairness /\ ThreadsFairness
  /\ ConnFairness /\ TlsFairness /\ PeersFairness /\ BeatFairness

ProgressSpec == ProgressInit /\ [][ProgressNext]_allVars /\ Fairness
-----------------------------------------------------------------------------
\* The remote view change makes up for lost announcements: while no replica is
\* stopped, every replica executes every height in the end, unless a replica of
\* its cluster could not complain because another complaint was too recent, or the
\* complaint came to a replica that had no block of that height yet.
LossRecovered ==
  []<>(part = "loss" => \/ \E r \in Loss!Replica : status[r] # "up"
                        \/ \A r \in Loss!Replica, h \in Loss!Height : Loss!Settled(r, h))
\* A complaint that rotates the proposer of one replica reaches the whole
\* cluster, but for a replica that had no block of that height when it came.
RotationSpreads ==
  []<>(part = "loss" => \A r, s \in Loss!Replica, h \in Loss!Height :
         r[1] = s[1] /\ h \in rcomplains[r] => Loss!Reached(s, h))

\* Every wait for a block ends, although requests, answers and proposals are
\* lost: a replica delivers each block it has heard of, with all its ancestors.
WaitsEnd == []<>(part = "blocks" => Fetch!NothingWaits)

\* While this replica stays the proposer and on_propose does not throw, every
\* full batch becomes a block (PMWaitQC::beat).
BatchesProposed ==
  <>[](part = "batches" /\ leads /\ rotations = 0 /\ lost = <<>> =>
         pending_beats = <<>> /\ armed = <<>>)

\* With no more replicas stopped than may be faulty every command is answered,
\* and the client comes to the end of its run, be it the ordinary one or the one
\* that asks for a reconfiguration (which is answered at once).
AllAnswered == []<>((part = "client" => Client!AllDone) /\ (part = "reconfig" => Reconfiguring!AllDone))

\* Every item that was enqueued is delivered (queue.h).
Delivered == <>[](part = "queue" => Queue!AllDelivered)

\* While there is work in the queue and the loop sleeps, a wake-up is on its way
\* (the wait_sig of MPSCQueueEventDriven).
NoLostWakeup == part = "calls" => Calls!NoLostWakeup
\* Every caller of ThreadCall::call gets its result, even if the closure throws
\* or the loop was stopped, whatever the burst.
CallReturns == \A c \in {"a", "b"} : []<>(part = "calls" => at[c] = "idle")

\* A task is in one place: a queue, or with the worker that verifies it.
OnePlace == part = "verify" => Verify!OnePlace
\* Every promise of VeriPool::verify is resolved: no wake-up of a worker or of the
\* main loop is lost, whatever the bursts and the workers that wake up in vain,
\* as long as the queue to the workers has not lost a task between two of them.
EveryTaskVerified == []<>(part = "verify" => pms = {} \/ damaged)

\* When all references are dropped the object has been deleted.
ObjectDeleted == []<>(part = "refs" => objDeleted = 1)

\* Everything the user has written to a connection is sent.
AllSent == <>[](part = "conn" => Conn!SentAll)
\* A message that found the queue to the user full gets into it.
SleepEnds == []<>(part = "conn" => ~msg_sleep)
\* Everything received is handled, unless a full receive buffer has masked READ
\* for good.
AllHandled == <>[](part = "conn" => Conn!HandledAll \/ Conn!Stalled)

\* The user hears of the end of every connection, unless a fatal error stops the
\* pool (Network!EventsOfLive says when).
EndIsTold == <>[](part = "tls" /\ conn["c"].terminated /\ running /\ ~fatal => Tls!EndTold("c"))

\* The nodes end up connected, unless they have used up the connections that
\* the instance allows.  Here no handshake outlasts the retry timer (2 to 3 s),
\* and no node restarts: Network!NeverStuck says what becomes of those that do.
EventuallyLinked == <>[](part = "peers" => Linking!Linked \/ Linking!OutOfConns)

\* The heartbeat goes on for ever as long as the peer answers.
Beats ==
  \/ []<>(part = "beat" => ~alive)
  \/ []<><<part = "beat" /\ \E w \in {wire, <<>>} : Beat!SendPing(w)>>_beatVars
\* A peer that has fallen silent is given up.
SilentIsEnded == []<>(part = "beat" /\ ~alive => ended)

\* Lost messages are made up for: announcements and complaints between clusters,
\* and blocks within one.
LossIsMadeUpFor == LossRecovered /\ RotationSpreads /\ WaitsEnd
\* A command gets into a block, and its answer to the client.  A beat that may be
\* proposed is never left waiting for an event that is over (NoStrandedBeat).
CommandsAreAnswered ==
  [](part = "batches" => Proposing!NoStrandedBeat) /\ BatchesProposed /\ AllAnswered
\* No thread of a replica waits for ever for another: what is given to a queue, an
\* event loop, the verification pool or the last reference is dealt with, but for
\* a task that the queue of the pool loses between two workers (queue.h:218).
ThreadsGoOn ==
  /\ [](NoLostWakeup /\ OnePlace /\ ObjectAlive)
  /\ Delivered /\ CallReturns /\ EveryTaskVerified /\ ObjectDeleted
\* A connection moves all its bytes, unless a full receive buffer stops it
\* (conn.cpp:117-123), and tells its user when it ends, unless the pool is stopped.
ConnectionsGoOn == AllSent /\ SleepEnds /\ AllHandled /\ EndIsTold
\* Two peers whose connection breaks find each other again (when no handshake is
\* slower than the retry timer), their heartbeat goes on with one ping at a time,
\* and a peer that is silent is given up.
PeersStayLinked ==
  [](part = "beat" => Beat!OneOutstanding) /\ EventuallyLinked /\ Beats /\ SilentIsEnded
=============================================================================
