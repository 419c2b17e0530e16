---------------------------- MODULE HotStuffCore ----------------------------
(***************************************************************************)
(* The consensus core of one cluster: class HotStuffCore (consensus.cpp),  *)
(* with the parent selection PMHighTail (liveness.h) that every pacemaker  *)
(* of the code shares.  Every replica runs this code; messages may be      *)
(* delayed, reordered, repeated or lost (a message in a set may never be   *)
(* received).  An exception ends the operation where it is thrown; it ends *)
(* the replica too, unless the network layer, which catches what a message *)
(* handler throws, is below on the call stack.                             *)
(*                                                                         *)
(* The rest of the pacemaker is left open, as it is to HotStuffCore: any   *)
(* replica of Proposers may propose at any time (beat), and a vote goes to *)
(* any one of them (beat_resp), so that replicas may disagree on who       *)
(* proposes, as they do while a rotation spreads.                          *)
(*                                                                         *)
(* A block is a number, given in the order of creation; 0 is genesis (b0). *)
(* The loops that walk parents[0] down to a given height and compare the   *)
(* block they reach with x ask whether x is an ancestor: anc[b] is the set *)
(* of the ancestors of b, b included.                                      *)
(*                                                                         *)
(* A definition named Mut... is a faulty variant of the definition that    *)
(* follows it; nothing uses it but the mutation runs.                      *)
(***************************************************************************)
EXTENDS Integers, FiniteSets

CONSTANTS
    Replica,    \* the replicas of the cluster
    Proposers,  \* the replicas that some replica may take for the proposer
    MaxBlocks   \* bound: blocks ever created, genesis excluded

ASSUME ReplicaAssumption == IsFiniteSet(Replica) /\ Cardinality(Replica) > 1
ASSUME ProposersAssumption == Proposers \subseteq Replica
ASSUME MaxBlocksAssumption == MaxBlocks \in Nat

VARIABLES
    nblk,       \* blocks created so far
    parent,     \* block -> blk->parents[0]
    qc_ref,     \* block -> blk->qc_ref
    height,     \* block -> blk->height
    anc,        \* block -> the block, its parent, the parent of that, ...
    proposals,  \* <<proposer, block>> of every do_broadcast_proposal
    votes,      \* <<voter, block, destination>> of every vote cast by do_vote
    delivered,  \* replica -> blocks with blk->delivered
    voted,      \* replica -> block -> blk->voted
    hqc,        \* replica -> hqc.first
    hqc_tail,   \* replica -> PMHighTail::hqc_tail
    b_lock,     \* replica -> b_lock
    b_exec,     \* replica -> b_exec
    vheight,    \* replica -> vheight
    status      \* replica -> "up", or the exception that ended it

tree == <<parent, qc_ref, height, anc>>
vars == <<nblk, tree, proposals, votes, delivered, voted, hqc, hqc_tail,
          b_lock, b_exec, vheight, status>>

Block == 0 .. MaxBlocks
Genesis == 0

\* The number of votes of a quorum certificate (on_init).  start() passes
\* nfaulty = peers.size() / 3, peers being the other replicas.
nreplicas == Cardinality(Replica)
nmajority == nreplicas - ((nreplicas - 1) \div 3)

\* The blocks r has set decision on.  A commit marks the blocks between b_exec
\* and the new b_exec, or throws when they are not on one branch.
Decided(r) == anc[b_exec[r]]

\* HotStuffCore::tails: on_deliver_blk inserts the block, erases its parents.
Tails(D) == {b \in D : \A c \in D : c = Genesis \/ parent[c] # b}

\* PMHighTail::reg_hqc_update: the results of scanning the (unordered) tails
\* for the highest one that follows the new hqc block h.
HighTails(h, D) ==
    LET follow == {h} \cup {t \in Tails(D) : h \in anc[t]}
    IN  {t \in follow : \A u \in follow : height[u] <= height[t]}

---------------------------------------------------------------------------
(***************************************************************************)
(* HotStuffCore::update(nblk), as what it makes of the fields of r, where  *)
(* q = nblk->qc_ref (blk2 in the code), qc_ref[q] is blk1 and              *)
(* qc_ref[qc_ref[q]] is blk.  A decided block ends the function early.     *)
(***************************************************************************)
MutHqcLast(r, q) == IF q \notin Decided(r) THEN q ELSE hqc[r]
NewHqc(r, q) ==
    IF q \notin Decided(r) /\ height[q] > height[hqc[r]] THEN q ELSE hqc[r]

MutLockLower(r, q) ==
    IF height[qc_ref[q]] < height[b_lock[r]] THEN qc_ref[q] ELSE b_lock[r]
NewLock(r, q) ==
    IF /\ {q, qc_ref[q]} \cap Decided(r) = {}
       /\ height[qc_ref[q]] > height[b_lock[r]]
    THEN qc_ref[q]
    ELSE b_lock[r]

\* The three certified blocks end in an undecided one and are direct parents.
Commits(r, q) ==
    LET b1 == qc_ref[q]
        b0 == qc_ref[b1]
    IN  /\ {q, b1, b0} \cap Decided(r) = {}
        /\ parent[q] = b1
        /\ parent[b1] = b0

\* "safety breached :(": walking down from blk does not lead to b_exec.
Breach(r, q) == Commits(r, q) /\ b_exec[r] \notin anc[qc_ref[qc_ref[q]]]

MutExecAtOnce(r, q) == IF q \notin Decided(r) THEN q ELSE b_exec[r]
NewExec(r, q) ==
    IF Commits(r, q) /\ ~Breach(r, q) THEN qc_ref[qc_ref[q]] ELSE b_exec[r]

\* The vote condition of on_receive_proposal, for lock l: the justification is
\* higher than the lock ("liveness condition"), or the block extends it.
MutSafeToVote(l, q, ancestors) == height[q] > height[l] \/ Genesis \in ancestors
SafeToVote(l, q, ancestors) == height[q] > height[l] \/ l \in ancestors

\* on_receive_proposal: opinion, after update.
Votes(r, b) ==
    /\ ~Breach(r, qc_ref[b])
    /\ height[b] > vheight[r]
    /\ SafeToVote(NewLock(r, qc_ref[b]), qc_ref[b], anc[b])

\* on_receive_vote: this vote is new and the one that completes the quorum.
Completes(v, V) == v \notin V /\ Cardinality(V) + 1 = nmajority

\* on_receive_vote: blk->voted after a vote; a full set ignores further votes.
MutAddVote(v, V) == V \cup {Cardinality(V)}
AddVote(v, V) == IF Cardinality(V) >= nmajority THEN V ELSE V \cup {v}

---------------------------------------------------------------------------
Init ==
    /\ nblk = 0
    /\ parent = [b \in Block |-> Genesis]
    /\ qc_ref = [b \in Block |-> Genesis]
    /\ height = [b \in Block |-> 0]
    /\ anc = [b \in Block |-> {Genesis}]
    /\ proposals = {}
    /\ votes = {}
    /\ delivered = [r \in Replica |-> {Genesis}]
    /\ voted = [r \in Replica |-> [b \in Block |-> IF b = Genesis THEN Replica ELSE {}]]
    /\ hqc = [r \in Replica |-> Genesis]
    /\ hqc_tail = [r \in Replica |-> Genesis]
    /\ b_lock = [r \in Replica |-> Genesis]
    /\ b_exec = [r \in Replica |-> Genesis]
    /\ vheight = [r \in Replica |-> 0]
    /\ status = [r \in Replica |-> "up"]

\* on_propose, from the command queue handler when the pacemaker's beat names
\* this replica: create a block on hqc_tail justified by hqc, deliver it, update,
\* vote for it (the vote goes to the proposer, r itself) and broadcast it.
\* The block is not sent when update throws or its height is not above vheight;
\* called from a message handler, the latter need not end the replica.
OnPropose(r) ==
    LET b == nblk + 1
        p == hqc_tail[r]
        q == hqc[r]
        h == height[p] + 1
        breach == Breach(r, q)
        sent == ~breach /\ h > vheight[r]
        vote == sent /\ SafeToVote(NewLock(r, q), q, anc[p] \cup {b})
    IN  /\ status[r] = "up"
        /\ nblk < MaxBlocks
        /\ nblk' = b
        /\ parent' = [parent EXCEPT ![b] = p]
        /\ qc_ref' = [qc_ref EXCEPT ![b] = q]
        /\ height' = [height EXCEPT ![b] = h]
        /\ anc' = [anc EXCEPT ![b] = anc[p] \cup {b}]
        /\ delivered' = [delivered EXCEPT ![r] = @ \cup {b}]
        /\ b_lock' = [b_lock EXCEPT ![r] = NewLock(r, q)]
        /\ b_exec' = [b_exec EXCEPT ![r] = NewExec(r, q)]
        /\ vheight' = [vheight EXCEPT ![r] = IF vote THEN h ELSE @]
        /\ votes' = votes \cup IF vote THEN {<<r, b, r>>} ELSE {}
        /\ voted' = [voted EXCEPT ![r][b] = IF vote THEN {r} ELSE @]
        /\ proposals' = proposals \cup IF sent THEN {<<r, b>>} ELSE {}
        /\ hqc_tail' = [hqc_tail EXCEPT ![r] = IF sent THEN b ELSE @]
        /\ \E x \in IF breach THEN {"safety breached"}
                    ELSE IF sent THEN {"up"} ELSE {"up", "not above vheight"} :
              status' = [status EXCEPT ![r] = x]
        /\ UNCHANGED hqc

\* on_deliver_blk: the block has been fetched and verified, and its parent is
\* delivered (async_deliver_blk waits for both).  The blocks below a proposal are
\* fetched as well, one that was never proposed (OnPropose threw) included.
OnDeliverBlk(r, b) ==
    /\ status[r] = "up"
    /\ b \notin delivered[r]
    /\ parent[b] \in delivered[r]
    /\ delivered' = [delivered EXCEPT ![r] = @ \cup {b}]
    /\ UNCHANGED <<nblk, tree, proposals, votes, voted, hqc, hqc_tail, b_lock,
                   b_exec, vheight, status>>

\* on_receive_proposal of another replica's block: update, decide on the vote,
\* let PMHighTail adopt the block (on_receive_proposal_), and send the vote to
\* the replica d that beat_resp names; a vote for r itself is counted at once.
\* When the certificate in the block is the one a beat of r waits for (nested),
\* on_qc_finish runs on_propose before the last two: that is the next step of r,
\* the vote is counted after it, and if it throws they are skipped.
OnReceiveProposal(r, b, d, nested) ==
    LET q == qc_ref[b]
        breach == Breach(r, q)
        vote == Votes(r, b)
        own == vote /\ d = r /\ ~nested
        h1 == NewHqc(r, q)
        h2 == IF own /\ Completes(r, voted[r][b]) /\ height[b] > height[h1]
              THEN b ELSE h1
        follow == IF h1 # hqc[r] THEN HighTails(h1, delivered[r]) ELSE {hqc_tail[r]}
        adopt(t) == IF ~breach /\ h1 \in anc[b] /\ height[b] > height[t] THEN b ELSE t
    IN  /\ status[r] = "up"
        /\ b \in delivered[r]
        /\ hqc' = [hqc EXCEPT ![r] = h2]
        /\ b_lock' = [b_lock EXCEPT ![r] = NewLock(r, q)]
        /\ b_exec' = [b_exec EXCEPT ![r] = NewExec(r, q)]
        /\ vheight' = [vheight EXCEPT ![r] = IF vote THEN height[b] ELSE @]
        /\ votes' = votes \cup IF vote THEN {<<r, b, d>>} ELSE {}
        /\ voted' = [voted EXCEPT ![r][b] = IF own THEN AddVote(r, @) ELSE @]
        /\ \E t \in IF h2 # h1 THEN HighTails(h2, delivered[r])
                    ELSE {adopt(u) : u \in follow} \cup IF nested THEN follow ELSE {} :
              hqc_tail' = [hqc_tail EXCEPT ![r] = t]
        /\ status' = [status EXCEPT ![r] = IF breach THEN "safety breached" ELSE @]
        /\ UNCHANGED <<nblk, tree, proposals, delivered>>

\* on_receive_vote, once the block of the vote is delivered: the vote that
\* completes the quorum makes the certificate and offers it to update_hqc.  A
\* vote that is ignored (duplicate, or after the quorum) changes nothing.
OnReceiveVote(r, v, b) ==
    LET h == IF Completes(v, voted[r][b]) /\ height[b] > height[hqc[r]]
             THEN b ELSE hqc[r]
    IN  /\ status[r] = "up"
        /\ b \in delivered[r]
        /\ AddVote(v, voted[r][b]) # voted[r][b]
        /\ voted' = [voted EXCEPT ![r][b] = AddVote(v, @)]
        /\ hqc' = [hqc EXCEPT ![r] = h]
        /\ \E t \in IF h # hqc[r] THEN HighTails(h, delivered[r]) ELSE {hqc_tail[r]} :
              hqc_tail' = [hqc_tail EXCEPT ![r] = t]
        /\ UNCHANGED <<nblk, tree, proposals, votes, delivered, b_lock, b_exec,
                       vheight, status>>

Next ==
    \/ \E r \in Proposers : OnPropose(r)
    \/ \E r \in Replica, m \in proposals : \E b \in anc[m[2]] : OnDeliverBlk(r, b)
    \/ \E r \in Replica, m \in proposals :
          /\ m[1] # r
          /\ \E d \in IF Votes(r, m[2]) THEN Proposers ELSE {r} :
             \E nested \in IF d = r /\ r \in Proposers THEN BOOLEAN ELSE {FALSE} :
                OnReceiveProposal(r, m[2], d, nested)
    \/ \E m \in votes : OnReceiveVote(m[3], m[1], m[2])

Spec == Init /\ [][Next]_vars

---------------------------------------------------------------------------
(***************************************************************************)
(* Properties                                                              *)
(***************************************************************************)
\* The type of the state.
TypeOK ==
    /\ nblk \in Block
    /\ parent \in [Block -> Block]
    /\ qc_ref \in [Block -> Block]
    /\ height \in [Block -> Nat]
    /\ anc \in [Block -> SUBSET Block]
    /\ proposals \subseteq Replica \X Block
    /\ votes \subseteq Replica \X Block \X Replica
    /\ delivered \in [Replica -> SUBSET Block]
    /\ voted \in [Replica -> [Block -> SUBSET Replica]]
    /\ hqc \in [Replica -> Block]
    /\ hqc_tail \in [Replica -> Block]
    /\ b_lock \in [Replica -> Block]
    /\ b_exec \in [Replica -> Block]
    /\ vheight \in [Replica -> Nat]
    /\ status \in [Replica -> {"up", "safety breached", "not above vheight"}]

Voters(b) == {v \in Replica : \E d \in Replica : <<v, b, d>> \in votes}
Quorum(Q) == Q \subseteq Replica /\ Cardinality(Q) >= nmajority
Certified(b) == b = Genesis \/ Quorum(Voters(b))

\* Blocks q, qc_ref[q], qc_ref[qc_ref[q]] follow each other as direct parents: the
\* chain on which update() commits once q has its certificate.
DirectChain(q) == parent[q] = qc_ref[q] /\ parent[qc_ref[q]] = qc_ref[qc_ref[q]]

\* The blocks two replicas have executed are always on one branch, however the
\* proposals of several proposers and the votes interleave (update, b_exec).
Agreement ==
    \A r, s \in Replica : \/ b_exec[r] \in anc[b_exec[s]]
                          \/ b_exec[s] \in anc[b_exec[r]]

\* update() never reaches its throw "safety breached :(".
NoSafetyBreach == \A r \in Replica : status[r] # "safety breached"

\* No two blocks of one height are certified (vheight in on_receive_proposal).
UniqueCertificate ==
    \A b, c \in 0 .. nblk :
        Certified(b) /\ Certified(c) /\ height[b] = height[c] => b = c

\* Every block extends the block its certificate is for.  No receiver checks it
\* (Block::verify checks signatures only); it rests on PMHighTail keeping
\* hqc_tail on the branch of hqc whatever arrives between two proposals.
JustifiedByAncestor ==
    /\ \A b \in 0 .. nblk : qc_ref[b] \in anc[b] /\ Certified(qc_ref[b])
    /\ \A r \in Replica : hqc[r] \in anc[hqc_tail[r]] /\ Certified(hqc[r])

\* Once the third block of a direct chain is certified, every certified block
\* not lower than the first extends it, even before any replica commits: a block
\* off the branch and the chain are never both certified.
ChainIsFinal ==
    \A q, c \in 0 .. nblk :
        /\ DirectChain(q)
        /\ height[c] >= height[qc_ref[qc_ref[q]]]
        /\ qc_ref[qc_ref[q]] \notin anc[c]
        => ~(Certified(q) /\ Certified(c))

\* What a replica has executed is below its lock and its highest certificate,
\* although update() moves the three apart and returns early on decided blocks.
ExecBelowLock ==
    \A r \in Replica : b_exec[r] \in anc[b_lock[r]] \cap anc[hqc[r]]

\* The executed branch only grows, and lock, highest certificate and last voted
\* height of a replica never go down.
NeverBack ==
    [][\A r \in Replica : /\ b_exec[r] \in anc[b_exec[r]]'
                          /\ height[b_lock[r]] <= height[b_lock[r]]'
                          /\ height[hqc[r]] <= height[hqc[r]]'
                          /\ vheight[r] <= vheight'[r]]_vars

---------------------------------------------------------------------------
(***************************************************************************)
(* The inductive invariant behind Agreement.                               *)
(***************************************************************************)
\* Shape of the block tree and of the ancestor sets.
TreeInv ==
    /\ parent[Genesis] = Genesis /\ qc_ref[Genesis] = Genesis
    /\ height[Genesis] = 0 /\ anc[Genesis] = {Genesis}
    /\ \A b \in 1 .. nblk : /\ parent[b] < b
                            /\ height[b] = height[parent[b]] + 1
                            /\ anc[b] = anc[parent[b]] \cup {b}
                            /\ qc_ref[b] \in anc[parent[b]]
    /\ \A b \in 0 .. nblk : /\ {Genesis, b} \subseteq anc[b]
                            /\ anc[b] \subseteq 0 .. b
                            /\ height[b] <= b
                            /\ \A a \in anc[b] : /\ anc[a] \subseteq anc[b]
                                                 /\ a # b => height[a] < height[b]
    /\ \A b \in 0 .. nblk : \A a, c \in anc[b] :
          height[a] <= height[c] => a \in anc[c]

\* Messages and replica states name created blocks only.
RefInv ==
    /\ \A m \in proposals : m[2] \in 1 .. nblk
    /\ \A m \in votes : m[2] \in 1 .. nblk
    /\ \A r \in Replica :
          /\ delivered[r] \subseteq 0 .. nblk
          /\ {hqc[r], hqc_tail[r], b_lock[r], b_exec[r]} \subseteq 0 .. nblk
          /\ hqc[r] \in anc[hqc_tail[r]]

\* Votes counted were cast, and every justification is certified.
CertInv ==
    /\ \A r \in Replica, b \in Block \ {Genesis} : voted[r][b] \subseteq Voters(b)
    /\ \A b \in 0 .. nblk : Certified(qc_ref[b])

\* hqc, lock and executed block are certified, in this order of height, and the
\* block executed heads a direct chain whose last block is certified.
LockInv ==
    \A r \in Replica :
        /\ Certified(hqc[r]) /\ Certified(b_lock[r]) /\ Certified(b_exec[r])
        /\ height[b_exec[r]] <= height[b_lock[r]]
        /\ height[b_lock[r]] <= height[hqc[r]]
        /\ \E q \in 0 .. nblk : /\ Certified(q) /\ DirectChain(q)
                                /\ b_exec[r] = qc_ref[qc_ref[q]]

\* L was the lock of a replica that voted for c after a block justified, two
\* certificates back, at height h.
LockWitness(L, h, c) ==
    /\ Certified(L)
    /\ height[L] >= h
    /\ height[qc_ref[c]] > height[L] \/ L \in anc[c]

\* A replica votes upwards, once a height, with a lock that remembers.
VoteInv ==
    \A v \in Replica, b \in 1 .. nblk : v \in Voters(b) =>
        /\ height[b] <= vheight[v]
        /\ height[qc_ref[qc_ref[b]]] <= height[b_lock[v]]
        /\ \A c \in 1 .. nblk : v \in Voters(c) =>
              /\ height[b] = height[c] => b = c
              /\ height[b] < height[c] =>
                    \E L \in 0 .. nblk : LockWitness(L, height[qc_ref[qc_ref[b]]], c)

\* A quorum will never vote for b.
Dead(b) ==
    \E Q \in SUBSET Replica :
        Quorum(Q) /\ \A r \in Q : vheight[r] >= height[b] /\ r \notin Voters(b)

\* ChainIsFinal without waiting for the certificate of q: a certified block off
\* the branch means that q can never be certified.
ChainInv ==
    \A q, c \in 0 .. nblk :
        DirectChain(q) /\ Certified(c) /\ height[c] >= height[qc_ref[qc_ref[q]]]
        => qc_ref[qc_ref[q]] \in anc[c] \/ Dead(q)

IndInv ==
    /\ TreeInv /\ RefInv /\ CertInv /\ LockInv
    /\ VoteInv /\ ChainInv /\ NoSafetyBreach
=============================================================================
