------------------------------ MODULE Reconfig -------------------------------
(***************************************************************************)
(* A node leaves or rejoins its cluster.  Every replica that gets the      *)
(* client's command tells the proposer (MsgRecs); the proposer starts a    *)
(* round (AGG), which the replicas ECHO to each other and then make READY; *)
(* a replica that counts enough READYs changes its leave set, the peers it *)
(* sends to, and with them its majority.                                   *)
(*                                                                         *)
(* Messages are kept in a bag per receiver.  That gives up the order of one  *)
(* connection, which no property needs: a multicast is sent by the network   *)
(* thread and a send_msg by the caller, so not even those two are ordered.   *)
(* The proposer is the same all along (see the pacemaker for its rotation).  *)
(*                                                                         *)
(* The second part is what other clusters make of it: the peers of other   *)
(* clusters that a proposer sends its decided blocks to                    *)
(* (other_peers_f_plus_one), filled when the first block is sent, and      *)
(* added to when a block of another cluster tells of a reconfiguration.    *)
(***************************************************************************)
EXTENDS Integers, FiniteSets, Bags, SequencesExt

CONSTANTS
  Nodes, Leader,
  Recs,     \* changes the client asks for: [node, mode], 1 to leave, 0 to rejoin
  Asked,    \* replicas the client's commands reach
  MaxTold,  \* bound on the blocks sent to other clusters
  MaxCut,   \* bound on the messages that are lost with a connection
  Clusters, \* the other clusters
  Peers,    \* cluster -> its peers, in the order the set's iteration has
  MaxCount, \* bound on the reconfigurations of another cluster
  MaxOther  \* bound on the peers in other_peers, which only grows

VARIABLES
  got,            \* commands the client's message has brought to a replica
  pending_recs,   \* MsgRecs counted by the proposer
  reconfig_count, reconfig_sent,  \* rounds started; the last one told other clusters
  echo, ready,    \* reconfig_echo_counter, reconfig_ready_counter
  leave_set,
  net,            \* messages under way to a replica
  applied,        \* <<round, change>> a replica has carried out
  told,           \* <<round, leave set>> sent to the other clusters
  other_peers,    \* other_peers_f_plus_one
  filled,         \* other_peers_f_plus_one_init
  known,          \* clusterid_to_reconfig_count
  left            \* the leave sets of a cluster that were taken over
vars == <<got, pending_recs, reconfig_count, reconfig_sent, echo, ready, leave_set,
          net, applied, told>>

Rounds == 0..(2 * Cardinality(Recs))   \* a change of the majority can start a second one
AGG == "AGG"  ECHO == "ECHO"  READY == "READY"
Msg(type, rec, c) == [type |-> type, rec |-> rec, round |-> c]

Init ==
  /\ got = [r \in Nodes |-> {}] /\ pending_recs = [rec \in Recs |-> 0]
  /\ reconfig_count = 0 /\ reconfig_sent = 0
  /\ echo = [r \in Nodes |-> [c \in Rounds |-> 0]] /\ ready = echo
  /\ leave_set = [r \in Nodes |-> {}]
  /\ net = [r \in Nodes |-> EmptyBag]
  /\ applied = [r \in Nodes |-> {}] /\ told = <<>>

\* The last phase of a round that was the first: every ECHO was counted, and
\* every READY is under way, to the node that is reconfigured twice.
AllReady(rec) ==
  LET senders(r) == Cardinality(Nodes \ {r}) * IF r = rec.node THEN 2 ELSE 1
  IN /\ got = [r \in Nodes |-> IF r \in Asked THEN {rec} ELSE {}]
     /\ pending_recs = [x \in Recs |-> IF x = rec THEN Cardinality(Asked) ELSE 0]
     /\ reconfig_count = 1 /\ reconfig_sent = 0
     /\ echo = [r \in Nodes |-> [c \in Rounds |-> IF c = 1 THEN Cardinality(Nodes) ELSE 0]]
     /\ ready = [r \in Nodes |-> [c \in Rounds |-> IF c = 1 /\ r # rec.node THEN 1 ELSE 0]]
     /\ leave_set = [r \in Nodes |-> {}]
     /\ net = [r \in Nodes |-> [m \in {Msg(READY, rec, 1)} |-> senders(r)]]
     /\ applied = [r \in Nodes |-> {}] /\ told = <<>>

\* peers_current: the peers of a replica never include itself.
PeersCurrent(r, leave) == Nodes \ ({r} \cup leave)

\* update_config_parameters: nreplicas - nfaulty.
NMajority(r, leave) ==
  LET current == Cardinality(PeersCurrent(r, leave))
  IN current + 1 - current \div 3

Majority(r) == NMajority(r, leave_set[r])
Bump(counter, r, c) == [counter EXCEPT ![r][c] = @ + 1]
Send(n, to, m) == [n EXCEPT ![to] = @ (+) SetToBag({m})]
Multicast(n, r, msgs) ==
  [q \in Nodes |-> IF q \in PeersCurrent(r, leave_set[r]) THEN n[q] (+) SetToBag(msgs) ELSE n[q]]
Receives(r, m) == BagIn(m, net[r])
Taken(r, m) == [net EXCEPT ![r] = @ (-) SetToBag({m})]

\* The handler of cmd_pending: send_reconfig_ack.  The proposer counts its own
\* without comparing.
ClientCommand(r, rec) ==
  /\ r \in Asked /\ rec \notin got[r] /\ got' = [got EXCEPT ![r] = @ \cup {rec}]
  /\ IF r = Leader
     THEN pending_recs' = [pending_recs EXCEPT ![rec] = @ + 1] /\ UNCHANGED net
     ELSE net' = Send(net, Leader, Msg("RECS", rec, 0)) /\ UNCHANGED pending_recs
  /\ UNCHANGED <<reconfig_count, reconfig_sent, echo, ready, leave_set, applied, told>>

\* Every change is round 1.
MutStartRound(n, rec) ==
  /\ reconfig_count' = 1
  /\ net' = Multicast(n, Leader, {Msg(AGG, rec, 1), Msg(ECHO, rec, 1)})
  /\ echo' = Bump(echo, Leader, 1)

\* AGG and the proposer's ECHO go out together; its own ECHO it counts itself.
StartRound(n, rec) ==
  LET c == reconfig_count + 1 IN
  /\ reconfig_count' = c
  /\ net' = Multicast(n, Leader, {Msg(AGG, rec, c), Msg(ECHO, rec, c)})
  /\ echo' = Bump(echo, Leader, c)

EnoughRecs(rec) == pending_recs[rec] + 1 = Majority(Leader)

\* MsgRecs_handler at the proposer: exactly at the majority a round starts.
RecvRecs(m) ==
  /\ m.type = "RECS" /\ Receives(Leader, m)
  /\ pending_recs' = [pending_recs EXCEPT ![m.rec] = @ + 1]
  /\ IF EnoughRecs(m.rec)
     THEN StartRound(Taken(Leader, m), m.rec)
     ELSE net' = Taken(Leader, m) /\ UNCHANGED <<reconfig_count, echo>>
  /\ UNCHANGED <<got, reconfig_sent, ready, leave_set, applied, told>>

(***************************************************************************)
(* MsgRecsAggEchoReady_handler.                                            *)
(***************************************************************************)
\* AGG: echo to the others, and count the own echo without comparing.
RecvAgg(r, m) ==
  /\ m.type = AGG /\ Receives(r, m)
  /\ net' = Multicast(Taken(r, m), r, {Msg(ECHO, m.rec, m.round)})
  /\ echo' = Bump(echo, r, m.round)
  /\ UNCHANGED <<got, pending_recs, reconfig_count, reconfig_sent, ready, leave_set, applied, told>>

\* ECHO below the majority, or beyond it.
RecvEcho(r, m) ==
  /\ m.type = ECHO /\ Receives(r, m) /\ echo[r][m.round] + 1 # Majority(r)
  /\ net' = Taken(r, m)
  /\ echo' = Bump(echo, r, m.round)
  /\ UNCHANGED <<got, pending_recs, reconfig_count, reconfig_sent, ready, leave_set, applied, told>>

\* The echo that makes the majority: READY to all, once more to the node that
\* is reconfigured, and the own READY is counted without comparing.
SendReady(r, m) ==
  /\ m.type = ECHO /\ Receives(r, m) /\ echo[r][m.round] + 1 = Majority(r) /\ m.rec.node # r
  /\ LET go == Msg(READY, m.rec, m.round)
     IN net' = Send(Multicast(Taken(r, m), r, {go}), m.rec.node, go)
  /\ echo' = Bump(echo, r, m.round) /\ ready' = Bump(ready, r, m.round)
  /\ UNCHANGED <<got, pending_recs, reconfig_count, reconfig_sent, leave_set, applied, told>>

\* The same at the node itself: send_msg to itself throws (it is no peer of its
\* own), so the own READY is not counted, and the connection the echo came by is
\* closed, with what was under way on it from and to that peer.
SendReadyToSelf(r, m) ==
  /\ m.type = ECHO /\ Receives(r, m) /\ echo[r][m.round] + 1 = Majority(r) /\ m.rec.node = r
  /\ \E q \in Nodes \ {r}, lost \in SubBag(Taken(r, m)[r]), lostBack \in BOOLEAN :
       LET go == Msg(READY, m.rec, m.round)
           sent == Multicast([Taken(r, m) EXCEPT ![r] = @ (-) lost], r, {go})
       IN /\ BagCardinality(lost) <= MaxCut
          /\ net' = IF lostBack THEN [sent EXCEPT ![q] = @ (-) SetToBag({go})] ELSE sent
  /\ echo' = Bump(echo, r, m.round)
  /\ UNCHANGED <<got, pending_recs, reconfig_count, reconfig_sent, ready, leave_set, applied, told>>

\* READY: exactly at the majority the change is carried out.
RecvReady(r, m) ==
  /\ m.type = READY /\ Receives(r, m)
  /\ ready' = Bump(ready, r, m.round)
  /\ IF ready[r][m.round] + 1 = Majority(r)
     THEN /\ leave_set' = [leave_set EXCEPT ![r] = IF m.rec.mode = 1 THEN @ \cup {m.rec.node}
                                                                    ELSE @ \ {m.rec.node}]
          /\ applied' = [applied EXCEPT ![r] = @ \cup {<<m.round, m.rec>>}]
     ELSE UNCHANGED <<leave_set, applied>>
  /\ net' = Taken(r, m)
  /\ UNCHANGED <<got, pending_recs, reconfig_count, reconfig_sent, echo, told>>

\* get_leave_set, when the proposer sends a decided block to other clusters.
GetLeaveSet ==
  /\ Len(told) < MaxTold /\ reconfig_count > reconfig_sent
  /\ reconfig_sent' = reconfig_count
  /\ told' = Append(told, <<reconfig_count, leave_set[Leader]>>)
  /\ UNCHANGED <<got, pending_recs, reconfig_count, echo, ready, leave_set, net, applied>>

Next ==
  \/ \E r \in Nodes, rec \in Recs : ClientCommand(r, rec)
  \/ \E m \in BagToSet(net[Leader]) : RecvRecs(m)
  \/ \E r \in Nodes : \E m \in BagToSet(net[r]) :
       \/ RecvAgg(r, m) \/ RecvEcho(r, m) \/ SendReady(r, m)
       \/ SendReadyToSelf(r, m) \/ RecvReady(r, m)
  \/ GetLeaveSet

Spec == Init /\ [][Next]_vars
-----------------------------------------------------------------------------
peerVars == <<other_peers, filled, known, left>>

PeersInit ==
  /\ other_peers = <<>> /\ filled = FALSE
  /\ known = [c \in Clusters |-> 0] /\ left = [c \in Clusters |-> {{}}]

Take(n, seq) == SubSeq(seq, 1, IF n < Len(seq) THEN n ELSE Len(seq))
Stay(c, leave) == SelectSeq(Peers[c], LAMBDA p : p \notin leave)
\* (size - leaving - 1) / 3 on size_t, which is not used below zero here.
FPlusOne(c, leave) == (Len(Peers[c]) - Cardinality(leave) - 1) \div 3 + 1

\* Clusters are visited in the order of the map.
AddPeers(picked) == other_peers \o FlattenSeq([i \in 1..Cardinality(Clusters) |-> picked[SetToSeq(Clusters)[i]]])

\* do_broadcast_proposal_other_clusters.
Broadcast ==
  /\ ~filled /\ filled' = TRUE
  /\ other_peers' = AddPeers([c \in Clusters |-> Take(Len(Peers[c]) \div 3 + 1, Peers[c])])
  /\ UNCHANGED <<known, left>>

UpdateOtherFPlusOne(leave, cls) ==
  AddPeers([c \in Clusters |-> IF c = cls THEN Take(FPlusOne(c, leave), Stay(c, leave))
                                          ELSE Take(FPlusOne(c, {}), Peers[c])])

\* receive_mc_local, first part: a block of cluster c with a leave set.
ReceiveMcLocal(c, leave, count) ==
  /\ Len(other_peers) < MaxOther
  /\ IF known[c] # count
     THEN /\ known' = [known EXCEPT ![c] = count]
          /\ left' = [left EXCEPT ![c] = @ \cup {leave}]
          /\ other_peers' = UpdateOtherFPlusOne(leave, c)
     ELSE UNCHANGED <<known, left, other_peers>>
  /\ UNCHANGED filled

\* Blocks of a cluster come in any order, the older ones of a count after the
\* newer ones too, and only the first that was sent with a count has a leave set.
\* That set leaves the cluster at least one peer.
PeersNext ==
  \/ Broadcast
  \/ \E c \in Clusters, count \in 0..MaxCount : \E leave \in SUBSET Range(Peers[c]) :
       leave # Range(Peers[c]) /\ ReceiveMcLocal(c, leave, count)

Addressed(c) == Range(other_peers) \cap Range(Peers[c])
-----------------------------------------------------------------------------
Faults == (Cardinality(Nodes) - 1) \div 3

\* A replica that carries out a change does so after as many replicas as its
\* majority got it from the client, whichever way the rounds of MsgRecs, ECHO and
\* READY went (382-412, 442-470).
ChangeWasAsked ==
  \A r \in Nodes : \A a \in applied[r] :
    Cardinality({q \in Nodes : a[2] \in got[q]}) >= NMajority(Leader, {})

\* Replicas that carry out a round carry out the same change in it, although
\* their counters are kept by the number of the round alone.
SameChangePerRound ==
  \A r, q \in Nodes : \A a \in applied[r], b \in applied[q] : a[1] = b[1] => a[2] = b[2]

\* While some replicas have carried out a change and others have not, two
\* majorities, each as large as its replica demands, still have a replica in
\* common that is not faulty (consensus.cpp:316-321), even if the one that leaves
\* goes on voting.  Between two replicas that both have carried out the leave this
\* holds of the votes of the others: nothing refuses a vote of the one that left.
MajoritiesIntersect ==
  \A r, q \in Nodes :
    Majority(r) + Majority(q) > Cardinality(Nodes \ (leave_set[r] \cap leave_set[q])) + Faults

\* Once a block can be sent, every other cluster has a correct replica among the
\* peers it goes to, by every leave set that was taken over from it: more of those
\* that have not left than can be faulty (hotstuff.cpp:884-925, 949-966), in
\* whatever order first block and reconfigurations come, and whatever older count
\* comes after them.
ReachesCorrect ==
  filled => \A c \in Clusters : \A leave \in left[c] :
    LET n == Len(Peers[c]) - Cardinality(leave)
    IN Cardinality(Addressed(c) \ leave) >= (n - 1) \div 3 + 1
=============================================================================
