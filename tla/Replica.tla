------------------------------- MODULE Replica -------------------------------
(***************************************************************************)
(* The parts of a replica beside its core, each on its own:                *)
(*   "fetch"     the blocks that are fetched and delivered, with messages  *)
(*               lost,                                                     *)
(*   "restart"   and with a replica that restarts (BlockFetch);            *)
(*   "proposer"  the commands that become blocks and are answered         *)
(*               (ProposerQueue);                                          *)
(*   "prune"     the storage of blocks (BlockStore);                       *)
(*   "leave"     a node of four leaves its cluster,                        *)
(*   "five"      the last phase of that with five,                         *)
(*   "rejoin"    a node of two leaves and rejoins,                         *)
(*   "peers"     the peers of other clusters (Reconfig);                   *)
(*   "rotation"  the round-robin pacemaker (RoundRobin);                   *)
(*   "client"    a client of four replicas,                                *)
(*   "window"    a client with several commands under way (ClientServer).  *)
(* A behaviour is one part's; the variables of the others rest.            *)
(***************************************************************************)
EXTENDS ProposerQueue, BlockFetch, TLC

CONSTANTS
  Parts,               \* the parts that are run
  n0, n1, n2, n3, n4   \* the nodes of "leave" and "five"

VARIABLES
  part,
  nblk, parent_of, ref_of, height, blk_cache, ptr, core, marked, kept,
  got, pending_recs, reconfig_count, reconfig_sent, echo, ready, leave_set, bags, applied, told,
  other_peers, filled, heard, left,
  pm,
  waiting, cnt, iter, reconfig_done, requests, cmd_pending, resp_queue, responses, stopping,
  answered, finished
storeVars == <<nblk, parent_of, ref_of, height, blk_cache, ptr, core, marked, kept>>
reconfigVars == <<got, pending_recs, reconfig_count, reconfig_sent, echo, ready, leave_set, bags, applied, told>>
peerVars == <<other_peers, filled, heard, left>>
clientVars == <<waiting, cnt, iter, reconfig_done, requests, cmd_pending, resp_queue, responses,
                stopping, answered, finished>>
allVars == <<part, fetchVars, storeVars, reconfigVars, peerVars, vars, pm, clientVars>>

\* A proposes a chain of blocks, and B tells A of it by its votes.  The third
\* block carries the certificate of the first one: A had not got the votes for
\* the second.
ChainAuthor == [b \in 1..3 |-> "A"]
ChainParent == [b \in 0..3 |-> IF b = 0 THEN 0 ELSE b - 1]
ChainQcRef == [b \in 0..3 |-> IF b <= 1 THEN 0 ELSE 1]
ChainUpto == [b \in 0..3 |-> 1..b]
ChainVoteTo == [r \in {"A", "B"} |-> IF r = "A" THEN "B" ELSE "A"]
\* With a restart only two of the blocks are proposed.
FewAuthor == [b \in 1..3 |-> IF b = 3 THEN "nobody" ELSE "A"]
Restarting == INSTANCE BlockFetch WITH Author <- FewAuthor, MaxLost <- 1, MaxRestarts <- 1
Store == INSTANCE BlockStore WITH decided <- marked, MaxBlocks <- 6, MaxStaleness <- 1
Leave(n) == [node |-> n, mode |-> 1]
Rejoin(n) == [node |-> n, mode |-> 0]
Clusters == {1, 2}
Peers == <<<<11, 12, 13, 14>>, <<21, 22>>>>
MaxCount == 2
MaxOther == 6
Four == {n0, n1, n2, n3}
Two == {n0, n1}
AskedToLeave == {n1, n2, n3}
OneLeaves == {Leave(n3)}
Five == Four \cup {n4}
AskedOfFive == Five \ {n4}
FifthLeaves == {Leave(n4)}
OneRejoins == {Leave(n1), Rejoin(n1)}
Leaving == INSTANCE Reconfig WITH
  net <- bags, known <- heard, Nodes <- Four, Leader <- n0, Recs <- OneLeaves,
  Asked <- AskedToLeave, MaxTold <- 0, MaxCut <- 1
\* Of five replicas a majority is four, and three once one of them has left.
LeavingFive == INSTANCE Reconfig WITH
  net <- bags, known <- heard, Nodes <- Five, Leader <- n0, Recs <- FifthLeaves,
  Asked <- AskedOfFive, MaxTold <- 0, MaxCut <- 0
Rejoining == INSTANCE Reconfig WITH
  net <- bags, known <- heard, Nodes <- Two, Leader <- n0, Recs <- OneRejoins,
  Asked <- Two, MaxTold <- 2, MaxCut <- 3
Rotation == INSTANCE RoundRobin WITH
  s <- pm, nreplicas <- 2, me <- 0, Throws <- BOOLEAN, MaxBlocks <- 3, MaxBeats <- 2, MaxRotations <- 2
OneByOne == INSTANCE ClientServer WITH
  Replicas <- 1..4, nfaulty <- 1, max_iter_num <- 2, max_async_num <- 1, reconfig_client <- FALSE, MaxStops <- 0
Several == INSTANCE ClientServer WITH
  Replicas <- 1..2, nfaulty <- 0, max_iter_num <- 3, max_async_num <- 2, reconfig_client <- FALSE, MaxStops <- 0

\* The two nodes of "leave" that are neither the proposer nor the leaving one.
Bystanders == Permutations({n1, n2})

ASSUME Assumptions /\ FetchAssumptions /\ OneByOne!ClientAssumptions /\ Several!ClientAssumptions
-----------------------------------------------------------------------------
ReplicaInit ==
  /\ part \in Parts
  /\ FetchInit
  /\ IF part = "prune" THEN Store!Init
     ELSE /\ nblk = 0 /\ parent_of = 0 /\ ref_of = 0 /\ height = 0 /\ blk_cache = 0
          /\ ptr = 0 /\ core = 0 /\ marked = 0 /\ kept = 0
  /\ CASE part = "leave" -> Leaving!Init
       [] part = "five" -> LeavingFive!AllReady(Leave(n4))
       [] part = "rejoin" -> Rejoining!Init
       [] OTHER -> /\ got = 0 /\ pending_recs = 0 /\ reconfig_count = 0 /\ reconfig_sent = 0
                   /\ echo = 0 /\ ready = 0 /\ leave_set = 0 /\ bags = 0 /\ applied = 0 /\ told = 0
  /\ IF part = "peers" THEN Leaving!PeersInit ELSE other_peers = 0 /\ filled = 0 /\ heard = 0 /\ left = 0
  /\ Init /\ (part # "proposer" => leads)
  /\ IF part = "rotation" THEN Rotation!Init ELSE pm = 0
  /\ CASE part = "client" -> OneByOne!ClientInit
       [] part = "window" -> Several!ClientInit
       [] OTHER -> /\ waiting = 0 /\ cnt = 0 /\ iter = 0 /\ reconfig_done = 0 /\ requests = 0
                   /\ cmd_pending = 0 /\ resp_queue = 0 /\ responses = 0 /\ stopping = 0
                   /\ answered = 0 /\ finished = 0

BlocksNext == (part = "fetch" /\ FetchNext) \/ (part = "restart" /\ Restarting!FetchNext)
ReconfigNext == (part = "leave" /\ Leaving!Next) \/ (part = "five" /\ LeavingFive!Next) \/ (part = "rejoin" /\ Rejoining!Next)
ClientNext == (part = "client" /\ OneByOne!ClientNext) \/ (part = "window" /\ Several!ClientNext)
ReplicaNext ==
  \/ BlocksNext /\ UNCHANGED <<part, storeVars, reconfigVars, peerVars, vars, pm, clientVars>>
  \/ part = "prune" /\ Store!Next
     /\ UNCHANGED <<part, fetchVars, reconfigVars, peerVars, vars, pm, clientVars>>
  \/ ReconfigNext /\ UNCHANGED <<part, fetchVars, storeVars, peerVars, vars, pm, clientVars>>
  \/ part = "peers" /\ Leaving!PeersNext
     /\ UNCHANGED <<part, fetchVars, storeVars, reconfigVars, vars, pm, clientVars>>
  \/ part = "proposer" /\ Next
     /\ UNCHANGED <<part, fetchVars, storeVars, reconfigVars, peerVars, pm, clientVars>>
  \/ part = "rotation" /\ Rotation!Next
     /\ UNCHANGED <<part, fetchVars, storeVars, reconfigVars, peerVars, vars, clientVars>>
  \/ ClientNext /\ UNCHANGED <<part, fetchVars, storeVars, reconfigVars, peerVars, vars, pm>>

ReplicaSpec == ReplicaInit /\ [][ReplicaNext]_allVars
-----------------------------------------------------------------------------
\* What update does with a block, and the walk that decides a vote, is not
\* changed by what prune has cut.
PruningIsInvisible == part = "prune" => Store!PruningIsInvisible
\* Prune never drops a block that a block in the storage points at.
PointersAreStored == part = "prune" => Store!PointersAreStored
\* The blocks from b_exec down to the staleness asked for stay.
RecentBlocksStay == part = "prune" => Store!RecentBlocksStay

\* A replica carries out a change only after a majority was asked for it.
ChangeWasAsked == (part = "leave" => Leaving!ChangeWasAsked) /\ (part = "five" => LeavingFive!ChangeWasAsked)
\* While only some replicas have carried out a change, any two majorities still
\* have a replica in common that is not faulty, be it of four replicas or of five,
\* where the leave makes the majority smaller.
MajoritiesIntersect ==
  (part = "leave" => Leaving!MajoritiesIntersect) /\ (part = "five" => LeavingFive!MajoritiesIntersect)
\* Replicas carry out the same change in the same round.
SameChangePerRound == part = "rejoin" => Rejoining!SameChangePerRound

\* Every other cluster has a correct replica among those a block is sent to.
ReachesCorrect == part = "peers" => Leaving!ReachesCorrect

\* A proposer that is locked waits for a certificate that will unlock it, unless
\* on_propose threw under the lock and a message handler swallowed the exception.
LockedHasCause == part = "rotation" => Rotation!LockedHasCause
\* No timer runs once a rotation has ended.
TimerOnlyWhileRotating == part = "rotation" => Rotation!TimerOnlyWhileRotating
\* A rotation ends only with the decision of a block that the current proposer
\* proposed after this replica turned to it.
EndsWithNewProposal ==
  [][part = "rotation" /\ pm.rotating /\ ~pm'.rotating =>
       /\ pm'.decided > pm.since /\ pm.blocks[pm'.decided] = pm.proposer
       /\ pm'.proposer = pm.proposer]_allVars

\* A command is taken as done after answers of more replicas than may be faulty,
\* although the client counts answers and not replicas.
DoneByEnough == (part = "client" => OneByOne!DoneByEnough) /\ (part = "window" => Several!DoneByEnough)
\* The client has as many commands under way as it may, and no more.
Window == (part = "client" => OneByOne!Window) /\ (part = "window" => Several!Window)
\* Prune changes nothing that the core still looks at (HotStuffCore::prune, a
\* public operation; hotstuff_app.cpp has its calls commented out).
PruningIsSafe == PruningIsInvisible /\ PointersAreStored /\ RecentBlocksStay
\* A reconfiguration is asked for, the same at every replica, and never leaves two
\* majorities, or a block and another cluster, without a correct replica between,
\* as long as a replica that has left does not vote where its leave is known.
ChangesAgree == ChangeWasAsked /\ MajoritiesIntersect /\ SameChangePerRound /\ ReachesCorrect
\* A round-robin proposer is locked for nothing only after an exception that was
\* swallowed, and a rotation ends only when the new proposer has a block decided
\* (PMRoundRobinProposer).
RotationIsSound == [](LockedHasCause /\ TimerOnlyWhileRotating) /\ EndsWithNewProposal
\* The client counts enough answers and keeps its window (hotstuff_client.cpp).
ClientCounts == DoneByEnough /\ Window
=============================================================================
