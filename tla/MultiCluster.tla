---------------------------- MODULE MultiCluster ----------------------------
(***************************************************************************)
(* Execution across clusters (hotstuff.cpp, and the commit loop of         *)
(* HotStuffCore::update).  Every cluster runs its own consensus; a replica *)
(* executes its block of height h once its own cluster has committed it    *)
(* and a message about height h has come from every other cluster (the     *)
(* "MC" messages, msg_type 1 between clusters and 2 inside one).  When the *)
(* message of another cluster does not come in time, the replicas complain *)
(* (LComplain among themselves, RComplain to the other clusters), which    *)
(* makes the other clusters send it again and rotate their proposer        *)
(* (PaceMakerDummyFixed::rotate).                                          *)
(*                                                                         *)
(* Consensus appears through what HotStuffCore guarantees: the replicas of *)
(* a cluster commit the same blocks in the order of their height.  At each *)
(* height there is the block that will be committed, "main", and in the    *)
(* clusters of Forked another proposal of the same height, "fork".         *)
(* Messages may be delayed, reordered, repeated or lost.                   *)
(*                                                                         *)
(* A definition named Mut... is a faulty variant of the definition that    *)
(* follows it; nothing uses it but the mutation runs.                      *)
(***************************************************************************)
EXTENDS Integers, FiniteSets, Sequences

CONSTANTS
    Cluster,    \* cluster ids
    Size,       \* cluster -> number of replicas
    Forked,     \* clusters with two proposals of a height
    MaxHeight,  \* bound: height of the last block
    RvcGap,     \* 100 in the code: heights between two complaints
    RvcStart,   \* -5 in the code: initial last_rvc
    Lossy,      \* clusters whose own msg_type 1 messages may be lost
    StartX      \* values the uninitialized loop counter of receive_mc_local has

ASSUME ClusterAssumption == IsFiniteSet(Cluster) /\ Size \in [Cluster -> Nat \ {0}]
ASSUME ForkedAssumption == Forked \subseteq Cluster /\ Lossy \subseteq Cluster
ASSUME BoundAssumption == MaxHeight \in Nat /\ RvcGap \in Nat /\ RvcStart \in Int
ASSUME StartXAssumption == StartX \subseteq Int /\ StartX # {}

Height == 1 .. MaxHeight
Replica == UNION {{c} \X (0 .. Size[c] - 1) : c \in Cluster}
ClusterOf(r) == r[1]
Id(r) == r[2]
Peers(r) == {s \in Replica : ClusterOf(s) = ClusterOf(r) /\ s # r}

\* The proposer option of the application: replica 1, if there is one.
InitialProposer(c) == IF Size[c] > 1 THEN 1 ELSE 0

nmajority(c) == Size[c] - ((Size[c] - 1) \div 3)

\* The replicas of a cluster that the other clusters send to (f + 1 of them).
First(c) == {r \in Replica : ClusterOf(r) = c /\ Id(r) <= Size[c] \div 3}

\* The sizes of the instances that TLC checks.
AllTwo == [c \in Cluster |-> 2]
ForkedIsTwo == [c \in Cluster |-> IF c \in Forked THEN 2 ELSE 1]

\* What a cluster may have delivered at a height.
BlockOf(c) == IF c \in Forked THEN {"main", "fork"} ELSE {"main"}

VARIABLES
    cid_blkhash,  \* replica -> height -> the first block delivered, or "none"
    committed,    \* replica -> height of b_exec; finished_update_cids is 1 .. that
    finished,     \* replica -> finished_mc_cids
    tracker,      \* replica -> height -> clusters heard of (cid_to_cluster_tracker_array)
    timers,       \* replica -> heights whose remote view change timer runs
    executed,     \* replica -> height -> the blocks given to do_decide, in order
    lcomplains,   \* replica -> height -> blk->lcomplains of the block committed there
    rcomplains,   \* replica -> heights with a non-empty blk->rcomplains
    dropped,      \* replica -> heights of the complaints that ended in an exception
    last_rvc,     \* replica -> last_rvc
    proposer,     \* replica -> the pacemaker's proposer
    others_known, \* replica -> other_peers_f_plus_one is not empty
    status,       \* replica -> "up", or what ended it
    mc1,          \* <<source cluster, height, answer>>: msg_type 1, to the other clusters
    mc2,          \* <<cluster, source cluster, height, answer>>: msg_type 2, inside cluster
    lc,           \* <<replica, height>>: LComplain, to the replica's cluster
    rc            \* <<cluster, height, scope>>: RComplain of a replica of cluster, to the
                  \* "other" clusters or to the "local" peers

vars == <<cid_blkhash, committed, finished, tracker, timers, executed, lcomplains,
          rcomplains, dropped, last_rvc, proposer, others_known, status, mc1, mc2, lc, rc>>

Init ==
    /\ cid_blkhash = [r \in Replica |-> [h \in Height |-> "none"]]
    /\ committed = [r \in Replica |-> 0]
    /\ finished = [r \in Replica |-> {}]
    /\ tracker = [r \in Replica |-> [h \in Height |-> {}]]
    /\ timers = [r \in Replica |-> {}]
    /\ executed = [r \in Replica |-> [h \in Height |-> << >>]]
    /\ lcomplains = [r \in Replica |-> [h \in Height |-> {}]]
    /\ rcomplains = [r \in Replica |-> {}]
    /\ dropped = [r \in Replica |-> {}]
    /\ last_rvc = [r \in Replica |-> RvcStart]
    /\ proposer = [r \in Replica |-> InitialProposer(ClusterOf(r))]
    /\ others_known = [r \in Replica |-> FALSE]
    /\ status = [r \in Replica |-> "up"]
    /\ mc1 = {} /\ mc2 = {} /\ lc = {} /\ rc = {}

---------------------------------------------------------------------------
\* HotStuffBase::on_deliver_blk: the first block delivered at a height is the one
\* store_in_map_for_mc keeps (insert leaves an existing entry alone).
OnDeliverBlk(r, h, b) ==
    /\ status[r] = "up"
    /\ cid_blkhash[r][h] = "none"
    /\ h > 1 => cid_blkhash[r][h - 1] # "none"
    /\ cid_blkhash' = [cid_blkhash EXCEPT ![r][h] = b]
    /\ UNCHANGED <<committed, finished, tracker, timers, executed, lcomplains,
                   rcomplains, dropped, last_rvc, proposer, others_known, status,
                   mc1, mc2, lc, rc>>

\* The blocks a commit executes at once: those whose MC messages have all come.
MutReady(r, new) == new
Ready(r, new) == new \cap finished[r]

\* The blocks a commit leaves with a running timer.
MutWaiting(r, new) == new
Waiting(r, new) == new \ finished[r]

\* The commit loop of update, for the blocks above b_exec up to height h: the
\* leader tells the other clusters, a timer starts, and a block whose MC messages
\* have come is executed and its timer removed again.
Commit(r, h) ==
    LET new == committed[r] + 1 .. h
        ready == Ready(r, new)
        leader == proposer[r] = Id(r)
    IN  /\ status[r] = "up"
        /\ h > committed[r]
        /\ cid_blkhash[r][h] # "none"
        /\ committed' = [committed EXCEPT ![r] = h]
        /\ executed' = [executed EXCEPT ![r] = [k \in Height |->
                          IF k \in ready THEN Append(@[k], "main") ELSE @[k]]]
        /\ timers' = [timers EXCEPT ![r] = @ \cup Waiting(r, new)]
        /\ mc1' = mc1 \cup IF leader THEN {ClusterOf(r)} \X new \X {FALSE} ELSE {}
        /\ others_known' = [others_known EXCEPT ![r] = @ \/ leader]
        /\ UNCHANGED <<cid_blkhash, finished, tracker, lcomplains, rcomplains, dropped,
                       last_rvc, proposer, status, mc2, lc, rc>>

\* receive_mc_local: every other cluster has been heard of, counting cluster c.
Complete(r, c, h) == tracker[r][h] \cup {c, ClusterOf(r)} = Cluster

\* decide_after_mc acts only on a height that has been committed (did_update).
MutDecides(r, h) == cid_blkhash[r][h] # "none"
Decides(r, h) == cid_blkhash[r][h] # "none" /\ h <= committed[r]

\* receive_mc_local and, for the last cluster, decide_after_mc, which executes the
\* block of cid_blkhash and removes the timer.  An answer to a complaint has an
\* uninitialized reconfig_count, which may count as a change and fill
\* other_peers_f_plus_one.  The tracker of a height is built by a loop from an
\* uninitialized x; one that is too short is accessed out of bounds.
ReceiveMcLocal(r, c, h, answer) ==
    LET fresh == h \notin finished[r]
        complete == fresh /\ Complete(r, c, h)
        decides == complete /\ Decides(r, h)
    IN  /\ \E x \in IF fresh /\ tracker[r][h] = {} THEN StartX ELSE {0} :
              IF x > 0
              THEN /\ status' = [status EXCEPT ![r] = "out of bounds"]
                   /\ UNCHANGED <<tracker, finished, executed, timers>>
              ELSE /\ tracker' = [tracker EXCEPT ![r][h] = IF fresh THEN @ \cup {c} ELSE @]
                   /\ finished' = [finished EXCEPT ![r] =
                                     IF complete THEN @ \cup {h} ELSE @]
                   /\ executed' = [executed EXCEPT ![r][h] =
                                     IF decides THEN Append(@, cid_blkhash[r][h]) ELSE @]
                   /\ timers' = [timers EXCEPT ![r] = IF decides THEN @ \ {h} ELSE @]
                   /\ UNCHANGED status
        /\ \E k \in IF answer THEN {others_known[r], TRUE} ELSE {others_known[r]} :
              others_known' = [others_known EXCEPT ![r] = k]
        /\ UNCHANGED <<cid_blkhash, committed, lcomplains, rcomplains, dropped, last_rvc,
                       proposer, mc1, lc, rc>>

\* propose_handler, msg_type 1: tell the own cluster (msg_type 2), then oneself.
ReceiveMc1(r, c, h, answer) ==
    /\ status[r] = "up"
    /\ h \notin finished[r]
    /\ mc2' = mc2 \cup {<<ClusterOf(r), c, h, answer>>}
    /\ ReceiveMcLocal(r, c, h, answer)

\* propose_handler, msg_type 2.
ReceiveMc2(r, c, h, answer) ==
    /\ status[r] = "up"
    /\ ReceiveMcLocal(r, c, h, answer)
    /\ UNCHANGED mc2

\* on_receive_LComplain: blk->lcomplains after a complaint of v.
AddComplaint(r, v, h) ==
    IF Cardinality(lcomplains[r][h]) > nmajority(ClusterOf(r)) THEN lcomplains[r][h]
    ELSE lcomplains[r][h] \cup {v}

\* on_receive_LComplain: this complaint is the one that makes a majority.
MutCompletesComplaint(r, v, h) ==
    /\ v \notin lcomplains[r][h]
    /\ Cardinality(lcomplains[r][h]) + 1 = Size[ClusterOf(r)] - nmajority(ClusterOf(r)) + 1
CompletesComplaint(r, v, h) ==
    /\ v \notin lcomplains[r][h]
    /\ Cardinality(lcomplains[r][h]) + 1 = nmajority(ClusterOf(r))

\* on_receive_LComplain and send_RComplain, which sends only if the other clusters
\* are known and the replica is one of the first.
TakeLComplain(r, v, h) ==
    /\ lcomplains' = [lcomplains EXCEPT ![r][h] = AddComplaint(r, v, h)]
    /\ rc' = rc \cup IF /\ CompletesComplaint(r, v, h)
                        /\ others_known[r]
                        /\ Id(r) <= (Size[ClusterOf(r)] \div 3) + 1
                     THEN {<<ClusterOf(r), h, "other">>} ELSE {}

\* LComplain_handler, once the block is delivered.
ReceiveLComplain(r, v, h) ==
    /\ status[r] = "up"
    /\ cid_blkhash[r][h] # "none"
    /\ TakeLComplain(r, v, h)
    /\ UNCHANGED <<cid_blkhash, committed, finished, tracker, timers, executed,
                   rcomplains, dropped, last_rvc, proposer, others_known, status, mc1,
                   mc2, lc>>

\* The timer of start_remote_view_change_timer: complain (start_local_complain)
\* unless the messages have come or a complaint was recent.
RemoteViewChangeTimer(r, h) ==
    LET complain == h \notin finished[r] /\ h - last_rvc[r] > RvcGap
    IN  /\ status[r] = "up"
        /\ h \in timers[r]
        /\ timers' = [timers EXCEPT ![r] = @ \ {h}]
        /\ IF complain
           THEN /\ lc' = lc \cup {<<r, h>>}
                /\ last_rvc' = [last_rvc EXCEPT ![r] = h]
                /\ TakeLComplain(r, r, h)
           ELSE UNCHANGED <<lc, last_rvc, lcomplains, rc>>
        /\ UNCHANGED <<cid_blkhash, committed, finished, tracker, executed,
                       rcomplains, dropped, proposer, others_known, status, mc1, mc2>>

\* The RComplain that send_RComplain_local passes on inside the cluster.
Relay(c, h) == {<<c, h, "local">>}

\* The MC message that send_RComplain_local sends to the other clusters.
MutAnswer(c, h) == {}
Answer(c, h) == {<<c, h, TRUE>>}

\* PaceMakerDummyFixed::rotate.
Rotate(c, i) == (i + 1) % Size[c]

\* RComplain_handler, on_receive_RComplain and send_RComplain_local: the first
\* complaint of a height is passed on to the cluster, answered with the MC message
\* of the block of cid_blkhash, and rotates the proposer.  At a replica that has
\* no block of that height get_delivered_blk throws; the network layer catches it
\* and the complaint is lost.
ReceiveRComplain(r, h) ==
    LET c == ClusterOf(r)
    IN  /\ status[r] = "up"
        /\ h \notin rcomplains[r]
        /\ IF cid_blkhash[r][h] = "none"
           THEN /\ dropped' = [dropped EXCEPT ![r] = @ \cup {h}]
                /\ UNCHANGED <<rcomplains, rc, mc1, others_known, last_rvc, proposer>>
           ELSE /\ rcomplains' = [rcomplains EXCEPT ![r] = @ \cup {h}]
                /\ rc' = rc \cup Relay(c, h)
                /\ mc1' = mc1 \cup Answer(c, h)
                /\ others_known' = [others_known EXCEPT ![r] = TRUE]
                /\ last_rvc' = [last_rvc EXCEPT ![r] = h]
                /\ proposer' = [proposer EXCEPT ![r] = Rotate(c, @)]
                /\ UNCHANGED dropped
        /\ UNCHANGED <<cid_blkhash, committed, finished, tracker, timers, executed,
                       lcomplains, status, mc2, lc>>

---------------------------------------------------------------------------
\* Who receives what: msg_type 1 and RComplain go to the first replicas of the
\* other clusters, everything else to the sender's cluster.
Hears(r, c) == ClusterOf(r) # c /\ r \in First(ClusterOf(r))

HearsComplaint(r, m) ==
    IF m[3] = "other" THEN Hears(r, m[1]) ELSE ClusterOf(r) = m[1]

Next ==
    \/ \E r \in Replica, h \in Height :
          \/ \E b \in BlockOf(ClusterOf(r)) : OnDeliverBlk(r, h, b)
          \/ Commit(r, h)
          \/ RemoteViewChangeTimer(r, h)
    \/ \E r \in Replica, m \in mc1 : Hears(r, m[1]) /\ ReceiveMc1(r, m[1], m[2], m[3])
    \/ \E r \in Replica, m \in mc2 : ClusterOf(r) = m[1] /\ ReceiveMc2(r, m[2], m[3], m[4])
    \/ \E r \in Replica, m \in lc : m[1] \in Peers(r) /\ ReceiveLComplain(r, m[1], m[2])
    \/ \E r \in Replica, m \in rc : HearsComplaint(r, m) /\ ReceiveRComplain(r, m[2])

Spec == Init /\ [][Next]_vars

---------------------------------------------------------------------------
\* The type of the state.
TypeOK ==
    /\ cid_blkhash \in [Replica -> [Height -> {"none", "main", "fork"}]]
    /\ committed \in [Replica -> 0 .. MaxHeight]
    /\ finished \in [Replica -> SUBSET Height]
    /\ tracker \in [Replica -> [Height -> SUBSET Cluster]]
    /\ timers \in [Replica -> SUBSET Height]
    /\ executed \in [Replica -> [Height -> Seq({"main", "fork"})]]
    /\ lcomplains \in [Replica -> [Height -> SUBSET Replica]]
    /\ rcomplains \in [Replica -> SUBSET Height]
    /\ dropped \in [Replica -> SUBSET Height]
    /\ last_rvc \in [Replica -> Int]
    /\ proposer \in [Replica -> Nat]
    /\ \A r \in Replica : proposer[r] \in 0 .. Size[ClusterOf(r)] - 1
    /\ others_known \in [Replica -> BOOLEAN]
    /\ status \in [Replica -> {"up", "out of bounds"}]
    /\ mc1 \subseteq Cluster \X Height \X BOOLEAN
    /\ mc2 \subseteq Cluster \X Cluster \X Height \X BOOLEAN
    /\ lc \subseteq Replica \X Height
    /\ rc \subseteq Cluster \X Height \X {"other", "local"}

\* A height is executed exactly when it is both committed and heard of from every
\* cluster, whichever comes last, and once: update() and decide_after_mc each see
\* what the other one has recorded.
ExecutedOnceReady ==
    \A r \in Replica, h \in Height :
        Len(executed[r][h]) = IF h <= committed[r] /\ h \in finished[r] THEN 1 ELSE 0

\* No replica executes a height before every cluster has committed it, unless a
\* replica of that cluster answered a remote complaint with a block it had only
\* delivered (send_RComplain_local).
ExecutedAfterAllClusters ==
    \A r \in Replica, h \in Height : executed[r][h] # << >> =>
        \A c \in Cluster : \E s \in Replica :
            ClusterOf(s) = c /\ (h <= committed[s] \/ h \in rcomplains[s])

\* A timer only runs for a committed height that still waits for other clusters:
\* both ways of executing a height stop its timer.
TimerOnlyWhileWaiting ==
    \A r \in Replica : timers[r] \subseteq (1 .. committed[r]) \ finished[r]

\* A cluster is made to rotate its proposer only by a majority of another cluster
\* that has committed the height and complained of it.
RotatedForMajority ==
    \A r \in Replica : \A h \in rcomplains[r] : \E c \in Cluster \ {ClusterOf(r)} :
        Cardinality({s \in Replica : /\ ClusterOf(s) = c /\ h <= committed[s]
                                     /\ <<s, h>> \in lc}) >= nmajority(c)

\* What do_decide executes has been decided: "Called by HotStuffCore upon the
\* decision being made for cmd." (consensus.h).
ExecutesDecided ==
    \A r \in Replica, h \in Height :
        executed[r][h] # << >> => executed[r][h][1] = "main"

\* Replica s will not complain about h, another complaint being too recent.
Muted(s, h) == <<s, h>> \notin lc /\ h - last_rvc[s] <= RvcGap

\* What Progress shows of lost announcements: r has executed a height, or a
\* replica of its cluster could not complain, or a complaint was dropped.
Settled(r, h) ==
    \/ executed[r][h] # << >>
    \/ \E s \in Replica : h \in dropped[s]
    \/ \E s \in Replica : ClusterOf(s) = ClusterOf(r) /\ Muted(s, h)

\* A complaint of a height has reached s, or never will.
Reached(s, h) == h \in rcomplains[s] \cup dropped[s] \/ status[s] # "up"
=============================================================================
