# A formal model of Ava HotStuff

This directory holds TLA+ modules that model the replicas of this repository and the
libraries they are built on, TLC configurations that check them on small instances,
and TLAPS proofs of the main safety results. `PROJECT.json` is the index: components,
runs, mutants, the map from definitions to source lines, findings, hazards and theorems.

## The system

Ava runs several clusters of replicas. Every cluster orders its own commands with
chained HotStuff; a block of height *h* is executed once the own cluster has
committed it and every other cluster has announced that it has committed its block
of height *h*. A replica is one event loop: message handlers, timers and the
command queue run one at a time, and promises (`promise.hpp`) run their callbacks
inside the call that resolves them. Around that loop there are threads: those of the
network library (`salticidae`: a dispatcher and workers that own the connections),
those that verify signatures, and in the application those that take requests and
send answers. They meet in lock-free queues with an eventfd. Signatures come from
`secp256k1`.

How the parts meet:

- the client sends a command to the replicas; the queue handler of `start_mc` keeps
  its callback in `decision_waiting`, collects a batch and hands it to the pacemaker
  as a beat; a resolved beat proposes the batch (`ProposerQueue`, `RoundRobin`);
- proposals and votes move the core (`HotStuffCore`) after the blocks they name have
  been fetched, verified and delivered (`BlockFetch`, `VeriPool`); certificates
  travel as bytes (`Wire`) and are checked with `Ecdsa`;
- a commit and the announcements of the other clusters together execute a height
  (`MultiCluster`); a missing announcement leads to complaints and to a rotation;
  `Reconfig` changes the members and so the majorities;
- all messages go over `PeerNet`'s connections, which are `ConnPool` (life cycle),
  `ConnIO` (bytes) and `Heartbeat`; threads call each other through `ThreadCall` and
  `LockFreeQueue`, and share objects through `RefCount`.

The queue, the map and the curve are composed in TLA+: `LockFreeQueue` and `HashTable`
are shown to implement `FifoQueue` and `KeyValueMap`, and `Curve` extends `Ecmult` and
`Ecdsa`, both over `SmallCurve`. Elsewhere a module takes of its neighbour what the
neighbour's properties state: `MultiCluster` assumes of consensus what `HotStuffSafety`
proves, `ProposerQueue` that `on_propose` succeeds or throws, `ConnPool` that a
`ThreadCall` queue keeps its order.

Hard to get right, and to test: votes, certificates and competing proposals in any
order; a commit and the last announcement of another cluster racing for the same
execution; complaints racing late announcements; rotation seen at different times;
counters compared with `==`; promises whose callbacks re-enter the core; exceptions
that the network layer swallows half way through a handler
(`salticidae/include/salticidae/network.h`, `reg_handler`); a consumer that goes to
sleep while a producer decides not to wake it; a connection torn down by one thread
while another feeds it. The list is `hazards` in `PROJECT.json`.

## Modules

| Module | Models |
|---|---|
| `HotStuffCore` | `HotStuffCore` of every replica of one cluster, with `PMHighTail` |
| `MultiCluster` | execution across clusters, timers, complaints, rotation of the fixed proposer |
| `ProposerQueue` | the command queue, the beats (`PMWaitQC`) and the replies of one replica |
| `RoundRobin` | `PMRoundRobinProposer`: beats, impeachment, rotation and its timers |
| `BlockFetch` | fetch and delivery contexts of two replicas, lost messages, a restart |
| `BlockStore` | `EntityStorage` and `prune`: what may be released, with the pointers of the core |
| `Reconfig` | `MsgRecs`, AGG, ECHO, READY, leave sets, majorities, peers of other clusters |
| `ClientServer` | the client's window and counting, the request and response threads of a replica |
| `Wire` | `DataStream`, blobs, blocks, certificates and every message, as bytes |
| `ConfigParse` | options, files and command lines, the text helpers, the start-up of a process |
| `Promise` | `promise.hpp`: `then`, `fail`, `all`, `race`, nested resolution |
| `PointerWalk`, `RefCount` | `RcObj`, `WeakObj`, `BoxObj` in one thread; `ArcObj` shared by threads |
| `LockFreeQueue`, `FifoQueue` | `FreeList`, `MPMCQueue`, `MPSCQueue`, one memory access a step; the abstract queue |
| `HashTable`, `KeyValueMap` | the concurrent hash map with its bucket locks; the abstract map |
| `ThreadCall`, `VeriPool` | event-driven queues, `ThreadCall`; the pool that verifies signatures |
| `UvEvents` | the event objects over libuv handles (external), the life of the loop |
| `ConnPool`, `ConnIO` | `ConnPool`: threads and life cycle, TLS; partial sends, framing, masking |
| `PeerNet`, `Heartbeat` | the handshake of `PeerNetwork` with retries; ping and pong |
| `BigNat`, `Field5x52`, `Field10x26`, `ScalarLimbs` | field elements and scalars as limbs of full width |
| `Wnaf`, `Sha256`, `Der` | recodings of scalars; hash, HMAC, nonce generator; signatures as DER |
| `SmallCurve`, `Ecmult`, `Ecdsa` | the group law, the multiplications and batches, keys and signatures |
| `MCHotStuffCore` | starting states of `HotStuffCore` for TLC |
| `Replica`, `Network`, `Library`, `Progress`, `Arithmetic`, `Curve` | put instances of the modules under one run, see below |
| `HotStuffCoreProofs`, `HotStuffVotes`, `HotStuffSafety`, `MultiClusterProofs` | proofs about consensus and execution |
| `ReplicaProofs` | proofs about `Heartbeat`, `ProposerQueue` and `ClientServer`; those about `BlockFetch`, `RefCount` and `UvEvents` are in the modules themselves |

`Replica`, `Network`, `Library` and `Progress` hold the state of several modules. The
variable `part` picks one of them at the start and never changes; the variables of
the others keep the value 0. A property of a part is stated as `part = "x" => ...`. Nothing is
claimed about two parts of such a root at once.

### `HotStuffCore`

A block is a number in the order of creation, 0 is genesis. `parent`, `qc_ref`,
`height` are the fields of `Block`; `anc[b]` is the set of ancestors of `b`, which
replaces the loops that walk `parents[0]` down to a height and compare. `proposals`
and `votes` are the messages ever sent: a message may be received late, out of
order, repeatedly or never. Each replica has the fields of the class. `tails` is
computed from `delivered`, and the blocks with `decision` set are the ancestors of
`b_exec`, since `update` marks exactly those it walks over.

| Action | Code |
|---|---|
| `OnPropose` | `on_propose` with the update, the own vote and the broadcast it makes |
| `OnDeliverBlk` | `on_deliver_blk`, once the parents are delivered, for a proposed block or one below it |
| `OnReceiveProposal` | `on_receive_proposal` with `update`, the vote rule, `PMHighTail`, `do_vote` |
| `OnReceiveVote` | `on_receive_vote` with `update_hqc` and `PMHighTail` |

The pacemaker is left open, as it is to the class: any replica of `Proposers` may
propose at any time and a vote goes to any of them. So the safety results hold for
every pacemaker that takes its parents from `PMHighTail`, during rotations too.

*Nested proposals.* `on_receive_proposal` calls `on_qc_finish` before it lets
`PMHighTail` adopt the block and before it votes. If a beat of this replica waits
for that certificate, `on_propose` runs there. The model takes it as the next step
of the replica, with the own vote counted after it (`nested`). This loses nothing:
when the replica votes for the received block, `on_propose` can only succeed on a
tail at least as high as that block, so adopting the block before or after makes no
difference; when it does not vote, proposing first gives the same state.

*Exceptions.* `on_propose` throws when the new block is not above `vheight`. Called
from the queue handler this ends the process; called from a message handler it is
caught by the network layer. Both outcomes are in the model, with the state that
`on_propose` had changed by then. The block it made is not sent, but it is delivered
here and may become the tail; a later proposal then stands on it, and the other
replicas fetch it like any block below a proposal.

Not in the module: replicas that do not follow the protocol, and reconfiguration
(`Replica` is constant). A cluster has more than one replica.

### `MultiCluster`

Consensus appears by what the proofs of `HotStuffCore` establish: the replicas of a
cluster commit the same blocks in the order of height. Per height there is the block
that gets committed, `"main"`, and, in the clusters of `Forked`, another proposal of
that height, `"fork"`, which a replica may deliver first. `RvcGap` and `RvcStart`
are the literals 100 and -5 of the code; small values let TLC reach complaints.

| Action | Code |
|---|---|
| `OnDeliverBlk` | `store_in_map_for_mc` in `on_deliver_blk` |
| `Commit` | the commit loop of `update`, for all blocks of one call |
| `ReceiveMc1`, `ReceiveMc2` | `propose_handler` for `msg_type` 1 and 2, `receive_mc_local`, `decide_after_mc` |
| `RemoteViewChangeTimer` | the timer, `start_local_complain` |
| `ReceiveLComplain` | `LComplain_handler`, `on_receive_LComplain`, `send_RComplain` |
| `ReceiveRComplain` | `RComplain_handler`, `on_receive_RComplain`, `send_RComplain_local`, `rotate` |

The loop that fills a new cluster tracker starts from an uninitialized `x`
(`hotstuff.cpp:1025`). `StartX` is the set of values it may have: zero or less
gives a long enough vector, more than zero an access out of bounds, which stops the
replica in the model. The MC message that answers a complaint has an uninitialized
`reconfig_count`, so receiving it may or may not fill `other_peers_f_plus_one`.

### `ProposerQueue` and `RoundRobin`

`ProposerQueue` is one replica under `PaceMakerDummyFixed`. A batch of `blk_size`
commands is handed to `beat()` and is then in exactly one place: `pending_beats`,
`armed` (the beat that waits in `qc_waiting` for the certificate of `last_proposed`),
`blocks` (proposed) or `lost` (resolved and not proposed). `full` holds the own blocks
whose majority of votes was counted here, which is all `async_qc_finish` looks at;
`known` also those whose certificate came in the proposal of another replica. What
`on_propose` does inside is `HotStuffCore`; here it succeeds or throws (`Throws`). From
the queue handler an exception ends the process (`up`), from a message handler it does
not. A step is tried with an exception only where it calls `on_propose`: a beat is resolved
at once, or a beat waits for that certificate.

| Action | Code |
|---|---|
| `ExecCommand` | the queue handler of `start_mc` for one command, with `send_reconfig_ack`, `do_decide_read_only` and `beat` |
| `OnQcFinish` | `on_qc_finish`, from `on_receive_vote` or `on_receive_proposal`, with the callbacks of `PMWaitQC` |
| `Decide`, `DecideElsewhere` | `do_decide` for the commands of an own block, of a block of another replica |
| `Rotate` | `PaceMakerDummyFixed::rotate`, when it changes whether this replica proposes |

Decisions are freer than in the code: in any order and for blocks without a
certificate, because `decide_after_mc` guarantees neither. `AnsweredOnce` holds all
the same. `RoundRobin` is the same seat under `PMRoundRobinProposer`; its state is one
record and each function of the class an operator on it, because one call runs through
several of them. `on_propose` may throw in each of them. Where a message handler is
below it the exception is swallowed: the callbacks of the promise that were not run yet
are gone (`Drop`), and `lost` records that the lock was left on.

### The other parts of a replica

- `BlockFetch`: the record of a replica holds its fetch and delivery contexts, the
  blocks fetched, delivered and being verified. A handler with every callback it
  triggers is one step. `Propose`, `Handle` (one branch per message), `Verified`,
  `Timeout`, `Lose`, `Restart`.
- `BlockStore`: `blk_cache`, the pointers `parents[0]` and `qc_ref`, the core's fields;
  `Deliver` runs `update`, `Prune` cuts pointers and releases. The application's calls of
  `prune` are commented out (`hotstuff_app.cpp:659`, `:697`); the model shows what they
  would do.
- `Reconfig`: per replica `pending_recs`, the echo and ready counters, `leave_set`,
  `reconfig_count`, `reconfig_sent`; a bag of messages per receiver. One action per
  message type and one for `get_leave_set`. The second part is
  `other_peers_f_plus_one` at a proposer of another cluster, which takes any count that
  differs from the one it has, older ones included (`hotstuff.cpp:1003`).
- `ClientServer`: `waiting`, `cnt` and `iter` of the client; for every replica the
  queues between its request, main and response threads.

### The libraries

- Threads. In `LockFreeQueue`, `RefCount` and `ThreadCall` a step is one access to
  shared memory, under sequential consistency. `HashTable` steps from node to node
  under the lock of a bucket. `VeriPool` has the main thread and the workers with the
  wake-up of both queues; two workers may be in `try_dequeue` at once, and then an item may
  be lost (`InDamage`, the effect that `mpmc_loss` derives from the queue itself).
  `ConnPool` has one sequence of calls per thread; a burst may end after any call.
- Bytes and events. `ConnIO` moves segments of `ChunkSize` bytes through the buffers of
  a connection with the masks of its events; `UvEvents` has event objects, the handles
  of libuv (marked external) and the pointer `handle->data` between them.
- `PeerNet` is both ends of a pair of peers: `peer` holds the state of `Peer`, `end` the
  two ends of each connection, `chan` the messages in between. A retry timer may fire
  while a handshake goes on, `MaxLate` times; a connection that nobody chose ends by
  `Timeout`.
- `Promise` keeps the call stack as state, because a callback may settle promises and
  register callbacks while those of its own promise are being run.
- Formats. `Wire` writes and reads every message over a small alphabet of bytes
  (`Radix`) with short integers; serialize and unserialize are separate definitions,
  as they are in the code. `ConfigParse` steps through files and arguments.
- Arithmetic. `Field5x52`, `Field10x26` and `ScalarLimbs` use the real widths on
  `BigNat`, which are numbers in limbs of 16 bits because TLC's integers have 32.
  `SmallCurve`, `Ecmult` and `Ecdsa` use the formulas of the code over a field of 43
  elements and a group of order 31. `Sha256` has real words in its rounds and an
  abstract compression function in the layers above.

## Runs

| Run | Instance | Checks |
|---|---|---|
| `core` | `HotStuffCore`, 2 replicas that both propose, 4 blocks, from genesis and from a certified block | `TypeOK`, `IndInv`, `NeverBack` |
| `fork` | `HotStuffCore`, 4 replicas, two branches of three blocks and one more block | `Agreement`, `ChainIsFinal` |
| `clusters` | `MultiCluster`, 2 clusters of 2, one height, a fork, an out-of-bounds tracker | `ExecutedOnceReady`, `TimerOnlyWhileWaiting`, `ExecutedAfterAllClusters`, `RotatedForMajority` |
| `replica` | `Replica`: fetching (lossy; with a restart), batches and answers, pruning, leaving (of four and of five) and rejoining, peers, rotation, clients | `BlocksArrive`, `PruningIsSafe`, `ChangesAgree`, `OneUncertified`, `AnsweredOnce`, `RotationIsSound`, `ClientCounts` |
| `library` | `Library`: options, texts, start-up, messages, certificates, promises, pointers | `OptionsAreRead`, `TextsComeBack`, `StartupAgrees`, `MessagesAreRead`, `CertificatesCarryVotes`, `PromisesAreKept`, `PointersAreSafe` |
| `network` | `Network`: queues, hash map, events, connections, pool, TLS, peers (broken, crashed, called, late), heartbeat | `QueueIsFifo`, `MapIsAtomic`, `EventsAreOwned`, `BytesInOrder`, `PoolIsSound`, `PeersAgree`, `NoFalseTimeout` |
| `progress` | `Progress`: 13 parts under fairness | `LossIsMadeUpFor`, `CommandsAreAnswered`, `ThreadsGoOn`, `ConnectionsGoOn`, `PeersStayLinked`, `NoUseAfterFree` |
| `arithmetic` | `Arithmetic`: limbs at full width, chains, recodings, hashes, DER | `NumbersAreRight`, `BytesAreRight` |
| `curve` | `Curve`: group law, multiplications, batches, keys, signatures, certificates | `PointsAreRight`, `SignaturesAreRight` |
| `executes_decided` | `MultiCluster`, clusters of 2 and 1, a fork | `ExecutesDecided`, violated |
| `resolved` | `ProposerQueue`, 2 commands, 1 rotation | `ResolvedIsProposed`, violated |
| `mpmc_loss` | `Network`, part `"loss"`: an `MPMCQueue` with two consumers | `EachInOnePlace`, violated |

A property of a composite run is the conjunction of what its parts promise; every
conjunct has a definition and a comment of its own. They say:

- `BlocksArrive`: a delivered block has its parent and the block of its certificate
  (`DeliveredClosed`), and whoever waits is served by a request or a timer
  (`WaitsAreServed`). `PruningIsSafe`: `prune` cannot be noticed by `update`, leaves no
  dangling pointer and keeps the recent blocks. `ChangesAgree`: a change of members
  was asked for by enough replicas, all apply the same one, and enough peers are told for
  one correct one to be among them. Two majorities share a correct replica, in a cluster
  of five too, where a leave makes the majority smaller; when both sides have carried out
  the leave this is about the votes of the replicas that stay, because the code does not
  refuse a vote of the one that left. `OneUncertified`: one own block without a
  certificate. `AnsweredOnce`: one answer per command that arrived. `RotationIsSound`: a
  locked pacemaker has something to wait for, unless an exception of `on_propose` was
  swallowed under the lock; its timer runs only while it rotates, and a rotation ends with
  a proposal of the new proposer. `ClientCounts`: a client takes a command as done after
  enough answers.
- `OptionsAreRead`: what a file and a command line set is what the last assignment says,
  and what must be refused is. `TextsComeBack`: splitting, addresses and hexadecimal keys
  come back as they were. `StartupAgrees`: for four nodes in up to four clusters and five in
  two, in any order, all processes take the same number of faults; they count all clusters if the
  last cluster has a node for every other one; and a replica takes the id its peers know
  it by exactly when no node of another cluster stands between the first node of its
  cluster and itself. `MessagesAreRead`: each message is read as written, a short one is
  refused. `CertificatesCarryVotes`: a certificate holds the votes that have a bit in it,
  and is accepted if and only if these are a quorum of the reader. After a leave the
  certificate has fewer bits than there are ids, so this is less than "accepted wherever it
  is read": see Disagreements. `PromisesAreKept`: handlers run once and in order, chained
  promises agree, a settled promise stays settled. `PointersAreSafe`: no freed object is
  touched.
- `QueueIsFifo`: blocks of the queue are never in two places, items come out first in,
  first out (a refinement), and "empty" is true when it is said, for one consumer.
  `MapIsAtomic`: the map behaves as if calls were atomic (a refinement); the application
  calls it from one thread only. `EventsAreOwned`: an event fires into the object that
  owns it. `BytesInOrder`: frames and bytes keep their order and a pending send has an
  event. `PoolIsSound`: the pool is what is open, events belong to live connections, the
  counts of the workers are right and the user is told in order, whoever ends a
  connection; the exception is a connection that gets its worker after `disp_terminate`
  found none (`crossed`), and what then goes wrong is stated too. `PeersAgree`: the two
  ends of a handshake choose one and the same connection and neither gets stuck, with
  breaks, a restart, calls of the user and a retry that overtakes a handshake. Two
  assertions may fail after such a retry, and a preempting ping that comes to nothing after
  a restart or such a retry may leave both nodes without a timer; the properties name
  exactly these cases. That no other connection is open (`ExactlyOne`) is stated for breaks
  only. `NoFalseTimeout`: a peer that answers is not given up.
- `progress`: sixteen liveness properties in five groups, with the invariants of the
  threads they rest on (`NoLostWakeup`, `OnePlace`, `ObjectAlive`, `NoStrandedBeat`,
  `OneOutstanding`) and `NoUseAfterFree` of the shared references. Three of them name a case
  in which the code does not get there: a task that the queue of the pool loses between
  two workers (`EveryTaskVerified`), a full receive buffer that leaves READ masked
  (`AllHandled`), and a pool stopped by a fatal error (`EndIsTold`).
- `NumbersAreRight`, `PointsAreRight`: every operation agrees with integer arithmetic or
  the textbook definition and keeps the magnitudes its `VERIFY_CHECK`s ask for, and the
  frames of the scratch space balance. `BytesAreRight`: digests, nonces and encodings
  are those of their standards, and parsers read inside their input. `SignaturesAreRight`:
  what is signed is accepted, what is accepted or recovered is a signature by that key.

`Replica` extends `ProposerQueue` and `BlockFetch`, `Network` extends `Heartbeat` and `UvEvents`,
and `Progress` extends `RefCount`, so that `OneUncertified`, `AnsweredOnce`, `BlocksArrive`,
`NoFalseTimeout`, `EventsAreOwned` and `NoUseAfterFree` are in the runs the very formulas that
the theorems are about. In the other parts these components stay in their initial
states.

Every property of a passing run has a mutant in `PROJECT.json`: a faulty variant
(`Mut...`) of one mapped definition under which TLC finds the property violated.

### Bounds, and why they are enough

- `MaxBlocks`. A commit needs a chain of a block and three above it (`update` looks at
  three certificates), so with four blocks one is executed, and with fewer on the chain
  locks and certificates on two branches meet. `CertifiedInit` is a state reachable from
  genesis; starting there as well brings TLC to executions early. `fork` is about two
  branches at four replicas, the smallest number with a fault to tolerate: it starts
  after one proposer was cut off and built a branch of its own, and the last block may
  extend either branch. What the runs show for these sizes is proved for all of them.
- Two replicas have a majority of two: every vote counts. Runs with four show
  majorities that are not everybody.
- `MultiCluster`: one height is enough for complaints, as heights interact only
  through `last_rvc`. `RvcGap` of 0 puts the small heights into the window in which the
  code complains; with the literal 100 the timers of the first 95 heights do nothing.
- `ProposerQueue`: commands sent twice with blocks of one give an own block, an armed beat
  and pending ones. `RoundRobin`: two beats, three blocks and two rotations, so that the
  proposer goes away and comes back. `Reconfig`: four replicas, and five, the smallest
  number in which one leave changes the majority.
- `BlockFetch`: a chain of three blocks, the third with an older certificate, so that the
  parent and the certificate's block differ; two losses (`"fetch"`), or a loss and a restart
  while the third block is never proposed (`"restart"`).
- Queues: blocks of one slot and one spare block make every item recycle a block, the
  smallest case in which a stale pointer meets a reused block. Two producers and three
  items; two items when one of them is put back (`"rewind"`). Hash map: two keys share a bucket, two threads, four calls.
- Connections: segments, buffers and the user's queue of one or two elements, so that each
  of them is full at some time, the receive buffer in `"full"` of `network` and in
  `progress`; two descriptors, so that one is reused while calls about its former
  connection are under way. Peers: nonces below, above and equal to the other's (below it
  when peers crash, are called or late); one break, crash, late handshake, repeated connect
  or deletion. One of the nodes opens one connection and the other two where a node
  restarts or is late.
- Heartbeat: periods of 4 to 6 ticks and round trips of up to 6: either may be longer.
- Numbers: operands are the borders of every range (0, 1, the modulus and its neighbours,
  full limbs, powers of two at the edges of limbs), to a depth of two operations. On the
  small curve every scalar, pair of points and bit pattern that the formulas tell apart
  occurs. No point of that curve has an x coordinate that is 0 modulo the order, so
  no nonce gives r = 0 there; the retry is reached through refused nonces.

Deadlock is not checked: the replicas, threads and callers may stop when the blocks,
commands or calls of the instance are used up, or after an exception. That nobody
stops too early is what the liveness properties state.

### Fairness

`Progress` states weak fairness of single actions, part by part (`LossFairness` to
`BeatFairness`), and nothing for what users, clients or failures do.

- Replicas (`"loss"`, `"blocks"`): commits, the receipt of every message that was not
  lost, and the timers. The network layer resends over TCP what was accepted, and the
  event loop runs every timer that is due. Nothing is assumed of the announcements of
  a lossy cluster, of requests and answers for blocks that are lost, or of proposals.
- `"batches"`: counting the majority for the last own block. With a fixed proposer that
  is not rotated all votes are sent to it, over TCP.
- `"client"`, `"reconfig"`: a replica that is not stopped decides a command it was given and its threads
  empty their queues.
- Threads (`"queue"`, `"calls"`, `"verify"`, `"refs"`): each thread takes its next step. The
  threads are those of the operating system, which are never suspended for ever; no
  thread has to start a call. A step of a failed compare_exchange loop is not fair in
  any stronger sense.
- Connections (`"conn"`, `"tls"`, `"peers"`, `"beat"`): the loop serves an event that stays
  ready (libuv polls level-triggered), threads go on with their queues, bytes the kernel
  accepted arrive, timers fire. In `progress` a handshake of `PeerNet` is faster than the
  retry timer of 2 to 3 seconds (`MaxLate` 0); in `network` one is slower. Everywhere a user
  calls `conn_peer` again only between handshakes (`CalmCalls`).

A liveness property of the form `[]<>(part = "x" => P)` says that *P* holds again and
again in that part, `<>[](...)` that it holds from some time on.

## Findings

1. `executes_decided`: `decide_after_mc` executes the block that `cid_blkhash` holds
   for the height. `insert` keeps the first one delivered (`entity.h:334`), so after
   a fork a replica can execute a block its cluster did not decide, although
   `consensus.h:151` says that `do_decide` is "Called by HotStuffCore upon the decision
   being made for cmd". It happens when the last MC message comes after the commit;
   the other path, in `update`, executes the decided block.
2. `resolved`: `liveness.h:41-42` says "When promise is resolved, the replica should
   propose the command". If the proposer is rotated while a beat waits for a
   certificate, the batch is dropped, and `locked` remains set: when this replica
   becomes the proposer again, none of its beats is ever resolved.
3. `mpmc_loss`: `MPMCQueue::try_dequeue` raises the reference count of a block it read
   before without looking at `freed` (`queue.h:218`; `_enqueue` does, at 119). With two
   consumers the block may have been recycled meanwhile, `head` moves back, and an item
   is overwritten. `test_queue.cpp:103` counts on every item reaching a consumer. With
   one consumer the queue is right (`EachInOnePlace` in `QueueIsFifo`, `Delivered` in
   `ThreadsGoOn`).

### Disagreements

Met while modelling, between the code and a sentence of a comment, a log or a document.
The modules do what the code does; no run states the sentence, and where a property is
about the same thing it says what holds in the code. Paths are below `src/`.

| Code | Sentence |
|---|---|
| `src/hotstuff.cpp:257` delivers a block inside a log statement, before its verification is looked at | `consensus.h:112` "The invalid blocks will be dropped by this function" |
| `src/hotstuff.cpp:1305` counts the proposer's own acknowledgement without comparing, so a round may not start | `hotstuff.cpp:401`, "equal to majority, sending agg message" |
| `src/hotstuff.cpp:853` may return an empty leave set for a round | `:852` "returning non zero leave set" |
| `src/hotstuff.cpp:911` adds peers without clearing the vector | `:898` "Add up to f + 1 PeerIds" |
| `include/hotstuff/liveness.h:446` deletes the rotation timer for any decision: a rotation can stall | `:297` "round-robin style proposer liveness gadget" |
| `include/hotstuff/liveness.h:346` lets a later beat replace one that waits | `:42` "Get a promise resolved ..." |
| `src/consensus.cpp:296` sends fields of a proposal that were never set | `hotstuff.h:320` "deliver consensus message: \<propose\>" |
| `include/hotstuff/liveness.h:348-352` locks before `on_propose`, which may throw: swallowed by a message handler, the exception leaves the lock on and no beat waiting (`RotationIsSound`) | `:297` "round-robin style proposer liveness gadget" |
| `src/hotstuff.cpp:1003` compares the counts of a cluster with `!=`: an older one is taken again, and a later block of the same count hides its leave set (`ChangesAgree`) | `:898` "Add up to f + 1 PeerIds" |
| `src/consensus.cpp:384-396` counts the vote of a replica that has left | `consensus.h:213` "Create a quorum certificate that proves 2f+1 votes for a block." |
| `src/crypto.cpp:27` sizes a certificate by the replicas left, not by their ids: the votes of higher ids are dropped, and a certificate that needs them is refused (`CertificatesCarryVotes`) | `consensus.h:213` "Create a quorum certificate that proves 2f+1 votes for a block." |
| `include/hotstuff/entity.h:83` dereferences the end iterator for an unknown id, which a vote may carry (`SignaturesAreRight` excepts it) | `:77` "rid not found, returning null" |
| `examples/hotstuff_app.cpp:436` needs the nodes of a cluster to follow each other, `:384-394` a large last cluster (`StartupAgrees`) | `README.md:45` asks for no order |
| `include/hotstuff/in_memory_db.cpp:34,49` return "0" for a missing key and always "1" | `database.h:41,49` |
| `salticidae/include/salticidae/event.h:665` lets a second worker in, and a task may be lost between the two (`ThreadsGoOn`) | "only one consumer should be here a a time" |
| `salticidae/src/conn.cpp:119` may leave READ masked (`ConnectionsGoOn`) | "temporarily mask the READ event" |
| `salticidae/include/salticidae/network.h:683` stops reading after a wrong checksum until more comes | `:682` "dropping the message" |
| `salticidae/include/salticidae/network.h:668` throws out of the poll timer | `:666` "terminating the connection" |
| `salticidae/src/conn.cpp:305` may tear down in the dispatcher, under a worker that was fed meanwhile (`PoolIsSound`) | `conn.h:90` "destroyed by the worker" |
| `salticidae/include/salticidae/network.h:1109` and `on_dispatcher_teardown` assert what a retry during a handshake breaks (`PeersAgree`) | `assert(old_conn->peer == nullptr)`, `assert(p->conn == conn)` |
| `salticidae/include/salticidae/network.h:851` handles a preempting ping again without arming the retry timer (`PeersAgree`) | `README.rst:61-62` "retry ... when it is broken" |
| `salticidae/include/salticidae/network.h:1206`, `:862` | `README.rst:61-62` "exactly one ... connection", "retry ... when it is broken" |
| `salticidae/src/util.cpp:249` drops a short name that is taken: `-c` is `--conf` | `hotstuff_app.cpp:299` "specify the port" |
| `salticidae/include/salticidae/stream.h:180` accepts pairs with one hexadecimal digit | `:181` "not a valid hex string" |
| `secp256k1/src/field_5x52_impl.h:63`, `field_10x26_impl.h:54` wrap around at the greatest magnitude `fe_verify` accepts; no caller comes near it | `field_5x52_impl.h:43`, `field_10x26_impl.h:29` |

## Proofs

Proved for every value of the constants that meets the assumptions; TLC evaluates the
assumptions in the runs.

| Theorem | Statement |
|---|---|
| `TypeCorrect` (`HotStuffCoreProofs`) | `Spec => []TypeOK` |
| `Inductive` (`HotStuffSafety`) | `Spec => []IndInv` |
| `CertificatesUnique`, `AlwaysJustified`, `ChainsFinal` | `UniqueCertificate`, `JustifiedByAncestor`, `ChainIsFinal` |
| `AgreementHolds`, `NeverBreached`, `ExecutedBelowLock` | `Agreement`, `NoSafetyBreach`, `ExecBelowLock` |
| `NothingUndone` | the action property `NeverBack` |
| `ExecutionInv` (`MultiClusterProofs`) | the inductive invariant of execution and complaints |
| `ExecutesOnce`, `TimersStop`, `ExecutesLast`, `RotatesForMajority` | `ExecutedOnceReady`, `TimerOnlyWhileWaiting`, `ExecutedAfterAllClusters`, `RotatedForMajority` |
| `QueueInv` (`ReplicaProofs`) | the inductive invariant of the command queue |
| `BeatsWaitForCertificate`, `BeatsGetTheirTurn`, `CallbacksMatch` | `OneUncertified`, `NoStrandedBeat`, `AnsweredOnce` |
| `Counted`, `NeverFreedInUse`, `AliveWhileHeld` (`RefCount`) | `CountsAgree`, `NoUseAfterFree`, `ObjectAlive`, for up to 255 threads: `dcnt` has 8 bits |
| `NeverGivenUp`, `OnePing` (`ReplicaProofs`) | `NoFalseTimeout`, `OneOutstanding` |
| `ClientCountsReplicas` (`ReplicaProofs`) | `DoneByEnough` and `Window` |
| `WaitingIsServed` (`BlockFetch`) | `BlocksArrive` |
| `EventsStayOwned` (`UvEvents`) | `EventsAreOwned` |

`CertificatesUnique`, `AlwaysJustified`, `NeverBreached` and `ExecutedBelowLock` state what
no run lists on its own: they follow from `IndInv`, which `core` checks.

### The consensus core

Assumptions: a finite set of more than one replica, any set of proposers among them, any
number of blocks (`ReplicaAssumption`, `ProposersAssumption`, `MaxBlocksAssumption`).

`nmajority` is the code's `nreplicas - nfaulty`, and two sets of that size intersect
(`QuorumsIntersect`). A replica votes at most once at a height, since `vheight` rises
with each vote, so two blocks of one height cannot both be certified. `Agreement` is
not inductive: nothing in it stops a vote for a block that conflicts with a chain about
to be committed. `IndInv` adds what is needed:

- `TreeInv`: the tree is well formed and a block extends the block of its certificate;
- `RefInv`, `CertInv`: messages and fields name existing blocks, `hqc_tail` extends
  `hqc`, counted votes were cast, and certificates have majorities;
- `LockInv`: `b_exec`, `b_lock`, `hqc` are certified, in this order of height, and
  `b_exec` heads a direct chain (three blocks, each the parent of the next) whose
  last block is certified;
- `VoteInv`: a replica's votes are at or below its `vheight`, one a height; its lock is at
  least as high as the block two certificates back from each block it voted for, and
  for two votes, at *b* and later above it at *c*, there was a lock that high which
  let the vote for *c* pass (`LockWitness`, the two conditions of
  `on_receive_proposal`);
- `ChainInv`: for a direct chain ending in *q* and a certified block *c* not below the
  head of the chain, either *c* extends the head or *q* can never be certified any
  more, because a majority has passed its height without a vote for it (`Dead`).

`ChainInv` is the heart. `ChainIsFinal` alone is not inductive, because *c* may be
certified before *q* is. When *c* gets its certificate and a majority voted for *q*, the two
majorities share a voter; its lock at the vote for *c* is a certified block not below
the head, and lower than *c* or an ancestor of it, so the invariant applied to that
lock, or to the certificate of *c* above it, puts *c* on the branch. `Agreement`
follows from `LockInv` and `ChainIsFinal`, and with it that "safety breached :(" is
never thrown. `NeverBack` needs both: that a new executed block extends the old one is
`Agreement` between a replica before and after a step, and heights only rise
(`Forward`, once for each action). `IndInv` is an invariant of the run `core`.

### Execution across clusters

Assumptions: finitely many clusters, each with one or more replicas, any heights, any
`StartX`, any clusters that fork or lose announcements. The invariant beside the types has
three parts:

- `Recorded`: a replica delivers and commits without gaps, and a height is executed once,
  exactly when it is committed and finished (`ExecutedOnceReady`). The two ways to the
  execution, in `update` and in `decide_after_mc`, are the two cases of the proof: whichever
  comes last finds the other's mark, and neither can find it twice;
- `Heard`: an MC message, an entry of a tracker and a finished height mean that a replica
  of that cluster committed the height, or answered a complaint about it;
- `Complained`: a complaint that travels between clusters stands for a majority of
  complainers, and each of those had committed the height. It needs the messages in
  it, because `RotatedForMajority` speaks of the sender's cluster and the rotation happens
  two messages later.

### The command queue

Assumptions: a finite set of commands, a positive block size, any rotations. The pacemaker
is the record `Pace`; `ArmInTurn` and its siblings say once what `Arm`, `Resolve` and `Beat`
make of it, and each handler says which it calls. `InTurn` is the strengthening: a beat is
pending only behind a locked pacemaker, and a locked pacemaker has an armed beat or
lost one. Without its third conjunct, that an armed beat implies the lock, a certificate
could arm a second beat over the first. `AnsweredOnce` is inductive with the types.

### Fetching and delivering blocks

Assumptions (`FetchAssumptions`): `Upto[b]` is the chain that `Parent` makes below *b*, without
a circle, and votes are sent to replicas. Any blocks, losses, duplicates and restarts.
`BlocksArrive` speaks of states between handlers and is not inductive. `FetchInv` adds:

- `Complete`: a delivery that no longer waits for its parent or for the block of its
  certificate has it, which the step that delivers the block relies on;
- `Served`: what a delivery waits for is being fetched, with a peer that was asked, or is
  being delivered. Inside a handler it holds up to the blocks the handler is about to go
  on with, the second argument of `Served`;
- `OnlyHeard`: before any restart, a block that a message, a fetch or a delivery names is
  stored at some replica. `Propose` needs it: it delivers the new block at its proposer
  without a delivery context, so no such context may exist yet. A restart breaks it, so
  it is stated for `restarts = 0`, the states in which the model proposes.

What `Join`, `FetchBlk` and `OnDeliver` make of the record of a replica is stated once, as the
predicates `Joins`, `Fetches`, `Delivers` and `Hangs`; a delivery that ends resolves those above
it in the same step, and `DeliverBlkSettles` says that nothing is left behind.

### The client

Assumptions: numbers for the faults, the commands and the window; any replicas, any of
which may stop at any time. `OnePlace` says that at each replica a command is in one place on its way
from the request to the handled answer (requested, pending, executed, answered, handled),
and once. Without it a replica could be counted twice, and `nfaulty + 1` answers would
not be those of `nfaulty + 1` replicas. `Counted` says that `waiting` holds the number of replicas
whose answer was handled. Replica's `ClientCounts` is this property for two instances.

### Events

Assumption: `MaxEvents` is a number; any slots. `EventsAreOwned` is not inductive. `EventInv`
adds that every handle of an event, not only an active one, has the event's address
(a move rewrites them all, and `add` activates what it finds), that an event with handles
holds the `EventContext` (so the loop is not freed under it), and that handles are made
in order (so those of a new event were never used).

### Shared references and the heartbeat

`CountsAgree` says that `ref_cnt` counts the `ArcObj`s and `dcnt` the threads inside
`release_ref`, and that at most one thread deletes. It holds for any finite set of threads
and any number of copies. `InStep` relates the three clocks of the heartbeat: the
connection's timeout is behind the ping timer by at most a period and a half, and the age
of the ping or pong under way accounts for the rest. The assumption is that
a period and a half, and a round trip, are shorter than `conn_timeout`; the defaults
(30 s and 180 s, `network.h:564`) meet it for round trips below three minutes.

### Only model-checked

- Liveness, all of `progress` but its invariants: the prover has neither fairness nor `ENABLED`.
- The refinements `ImplementsFifo` and `Linearizable`: the mappings are folds over the chain
  of blocks or nodes, and facts about them for chains of every length need induction over
  data, which the installed provers cannot do.
- `BlocksDisjoint`, `EachInOnePlace`, `EmptyOnlyIfEmpty` of the lock-free queue, for the same
  reason.
- The modules on data (`Wire`, `ConfigParse`, `BigNat` and the limbs, `Sha256`, `Der`, `Wnaf`,
  `Ecmult`, `Ecdsa`): recursive definitions and `Bitwise`.
- `BlockStore`, `Reconfig`, `RoundRobin`, `ThreadCall`, `VeriPool`, `ConnPool`, `ConnIO`, `PeerNet`,
  `Promise`, `PointerWalk`: in reach for the most part, and not proved yet. `BlockStore`,
  `ConnIO` and `PointerWalk` walk chains with recursive operators and would have to be
  restated first.

## Not modelled

- Replicas that send what the code does not send. Faults are crashes (a replica that
  takes no more steps or restarts) and messages lost, late or repeated.
- Consensus while the members change: `HotStuffCore` has constant replicas, `Reconfig` one
  proposer. `Wire` has certificates under changing members, of one word of bits.
- The two-step variant (`HOTSTUFF_TWO_STEP`, off by default); fetching of commands
  (`ENT_TYPE_CMD`, never started); blocks that nothing refers to any more and that stay in
  the cache after `prune`.
- `AweakObj`, `static_pointer_cast` of a `BoxObj`, `SigEvent::add_once` (no code uses them); the
  reference counts inside `promise_t`; that an assignment in a callback of an event to the
  same event destroys the closure that runs (`liveness.h:390`), whose captures are not used
  afterwards.
- The TLS twins of the socket callbacks, peers without an address, manual connections and
  the table of `ClientNetwork`; the C bindings; memory orders weaker than sequential
  consistency.
- Bit counts near 2^32 in `_Bits`; configuration files that name each other in a circle.
- `InMemoryDB`, the statistics and the choice of keys of the client, the key generators and
  scripts, and the vendored hash tables that no file includes.
