------------------------- MODULE HotStuffCoreProofs -------------------------
(***************************************************************************)
(* Proofs about HotStuffCore, for every set of replicas, of proposers and  *)
(* every number of blocks.                                                 *)
(***************************************************************************)
EXTENDS HotStuffCore, FiniteSetTheorems, TLAPS

---------------------------------------------------------------------------
(* Quorums *)

\* nmajority = nreplicas - (nreplicas - 1) / 3 is more than half of the replicas,
\* and more than one.
LEMMA MajorityBounds ==
    /\ nreplicas \in Nat
    /\ nmajority \in Nat
    /\ nmajority > 1
    /\ 2 * nmajority > nreplicas
<1>1. nreplicas \in Nat /\ nreplicas > 1
  BY ReplicaAssumption, FS_CardinalityType DEF nreplicas
<1>2. QED
  BY <1>1 DEF nmajority

\* Two sets of voters large enough for a certificate share a replica.
LEMMA QuorumsIntersect ==
    ASSUME NEW Q1, NEW Q2, Quorum(Q1), Quorum(Q2)
    PROVE  \E r \in Replica : r \in Q1 /\ r \in Q2
<1>1. /\ IsFiniteSet(Q1) /\ IsFiniteSet(Q2) /\ IsFiniteSet(Q1 \cup Q2)
      /\ Cardinality(Q1 \cup Q2) <= nreplicas
  <2>1. Q1 \subseteq Replica /\ Q2 \subseteq Replica /\ Q1 \cup Q2 \subseteq Replica
    BY DEF Quorum
  <2>2. IsFiniteSet(Q1) /\ IsFiniteSet(Q2) /\ IsFiniteSet(Q1 \cup Q2)
    BY <2>1, ReplicaAssumption, FS_Subset
  <2>3. Cardinality(Q1 \cup Q2) <= nreplicas
    BY <2>1, ReplicaAssumption, FS_Subset DEF nreplicas
  <2>4. QED
    BY <2>2, <2>3
<1>2. Cardinality(Q1 \cup Q2) = Cardinality(Q1) + Cardinality(Q2) - Cardinality(Q1 \cap Q2)
  BY <1>1, FS_Union
<1>3. Cardinality(Q1) \in Nat /\ Cardinality(Q2) \in Nat
  BY <1>1, FS_CardinalityType
<1>4. Q1 \cap Q2 # {}
  <2>1. SUFFICES ASSUME Q1 \cap Q2 = {} PROVE FALSE
    OBVIOUS
  <2>2. Cardinality(Q1 \cap Q2) = 0
    BY <2>1, FS_EmptySet
  <2>3. QED
    BY <1>1, <1>2, <1>3, <2>2, MajorityBounds DEF Quorum
<1>5. QED
  BY <1>4 DEF Quorum

\* More voters do not undo a certificate.
LEMMA QuorumGrows ==
    ASSUME NEW Q1, NEW Q2, Quorum(Q1), Q1 \subseteq Q2, Q2 \subseteq Replica
    PROVE  Quorum(Q2)
<1>1. IsFiniteSet(Q2) /\ IsFiniteSet(Q1)
  BY ReplicaAssumption, FS_Subset
<1>2. Cardinality(Q1) <= Cardinality(Q2)
  BY <1>1, FS_Subset
<1>3. Cardinality(Q1) \in Nat /\ Cardinality(Q2) \in Nat
  BY <1>1, FS_CardinalityType
<1>4. QED
  BY <1>2, <1>3, MajorityBounds DEF Quorum

\* A single replica is not a quorum.
LEMMA QuorumNotSingle ==
    ASSUME NEW r \in Replica
    PROVE  ~Quorum({r})
BY FS_Singleton, MajorityBounds DEF Quorum

---------------------------------------------------------------------------
(* Types *)

\* The types are preserved by every operation of the core.
LEMMA TypeStep == TypeOK /\ [Next]_vars => TypeOK'
<1> SUFFICES ASSUME TypeOK, [Next]_vars PROVE TypeOK'
  OBVIOUS
<1> USE MaxBlocksAssumption, ProposersAssumption
<1>a. /\ nblk \in Block
      /\ parent \in [Block -> Block]
      /\ qc_ref \in [Block -> Block]
      /\ height \in [Block -> Nat]
      /\ anc \in [Block -> SUBSET Block]
  BY DEF TypeOK
<1>b. proposals \subseteq Replica \X Block /\ votes \subseteq Replica \X Block \X Replica
  BY DEF TypeOK
<1>c. delivered \in [Replica -> SUBSET Block]
  BY DEF TypeOK
<1>d. voted \in [Replica -> [Block -> SUBSET Replica]]
  BY DEF TypeOK
<1>e. /\ hqc \in [Replica -> Block]
      /\ hqc_tail \in [Replica -> Block]
      /\ b_lock \in [Replica -> Block]
      /\ b_exec \in [Replica -> Block]
  BY DEF TypeOK
<1>f. vheight \in [Replica -> Nat]
  BY DEF TypeOK
<1>g. status \in [Replica -> {"up", "safety breached", "not above vheight"}]
  BY DEF TypeOK
<1>1. ASSUME NEW h \in Block, NEW D \in SUBSET Block
      PROVE  HighTails(h, D) \subseteq Block
  BY <1>1 DEF HighTails, Tails
<1>2. ASSUME NEW r \in Replica, NEW q \in Block
      PROVE  /\ NewHqc(r, q) \in Block
             /\ NewLock(r, q) \in Block
             /\ NewExec(r, q) \in Block
  BY <1>2 DEF TypeOK, NewHqc, NewLock, NewExec
<1>3. ASSUME NEW r \in Proposers, OnPropose(r)
      PROVE  TypeOK'
  <2> DEFINE b == nblk + 1
             h == height[hqc_tail[r]] + 1
  <2>1. PICK vote \in BOOLEAN, sent \in BOOLEAN :
          /\ nblk < MaxBlocks
          /\ nblk' = b
          /\ parent' = [parent EXCEPT ![b] = hqc_tail[r]]
          /\ qc_ref' = [qc_ref EXCEPT ![b] = hqc[r]]
          /\ height' = [height EXCEPT ![b] = h]
          /\ anc' = [anc EXCEPT ![b] = anc[hqc_tail[r]] \cup {b}]
          /\ delivered' = [delivered EXCEPT ![r] = @ \cup {b}]
          /\ b_lock' = [b_lock EXCEPT ![r] = NewLock(r, hqc[r])]
          /\ b_exec' = [b_exec EXCEPT ![r] = NewExec(r, hqc[r])]
          /\ vheight' = [vheight EXCEPT ![r] = IF vote THEN h ELSE @]
          /\ votes' = votes \cup IF vote THEN {<<r, b, r>>} ELSE {}
          /\ voted' = [voted EXCEPT ![r][b] = IF vote THEN {r} ELSE @]
          /\ proposals' = proposals \cup IF sent THEN {<<r, b>>} ELSE {}
          /\ hqc_tail' = [hqc_tail EXCEPT ![r] = IF sent THEN b ELSE @]
    BY <1>3 DEF OnPropose
  <2>2. \E x \in {"up", "safety breached", "not above vheight"} :
          hqc' = hqc /\ status' = [status EXCEPT ![r] = x]
    BY <1>3 DEF OnPropose
  <2>3. r \in Replica /\ hqc[r] \in Block /\ hqc_tail[r] \in Block
    BY DEF TypeOK
  <2>4. b \in Block
    <3>1. nblk \in Block
      BY DEF TypeOK
    <3>2. QED
      BY <2>1, <3>1 DEF Block
  <2>5. h \in Nat
    BY <1>a, <2>3
  <2> HIDE DEF h, b
  <2>6. /\ nblk' \in Block
        /\ parent' \in [Block -> Block]
        /\ qc_ref' \in [Block -> Block]
        /\ height' \in [Block -> Nat]
        /\ anc' \in [Block -> SUBSET Block]
    BY <1>a, <2>1, <2>3, <2>4, <2>5
  <2>7. /\ proposals' \subseteq Replica \X Block
        /\ votes' \subseteq Replica \X Block \X Replica
    BY <1>b, <2>1, <2>3, <2>4
  <2>8. /\ delivered' \in [Replica -> SUBSET Block]
        /\ hqc_tail' \in [Replica -> Block]
        /\ vheight' \in [Replica -> Nat]
    BY <1>c, <1>e, <1>f, <2>1, <2>3, <2>4, <2>5
  <2>9. voted' \in [Replica -> [Block -> SUBSET Replica]]
    BY <1>d, <2>1, <2>3, <2>4
  <2>10. b_lock' \in [Replica -> Block] /\ b_exec' \in [Replica -> Block]
    BY <1>2, <1>e, <2>1, <2>3
  <2>11. /\ hqc' \in [Replica -> Block]
         /\ status' \in [Replica -> {"up", "safety breached", "not above vheight"}]
    BY <1>e, <1>g, <2>2, <2>3
  <2>12. QED
    BY <2>6, <2>7, <2>8, <2>9, <2>10, <2>11 DEF TypeOK
<1>4. ASSUME NEW r \in Replica, NEW m \in proposals, NEW b \in anc[m[2]], OnDeliverBlk(r, b)
      PROVE  TypeOK'
  <2>1. b \in Block
    <3>1. m[2] \in Block
      BY <1>b
    <3>2. QED
      BY <1>a, <3>1
  <2>2. QED
    BY ZenonT(40), <1>4, <2>1 DEF TypeOK, OnDeliverBlk, tree
<1>5. ASSUME NEW r \in Replica, NEW m \in proposals, NEW d \in Replica,
             NEW nested \in BOOLEAN, OnReceiveProposal(r, m[2], d, nested)
      PROVE  TypeOK'
  <2> DEFINE b == m[2]
             q == qc_ref[b]
  <2>1. b \in Block /\ q \in Block /\ d \in Replica /\ height[b] \in Nat
    BY <1>a, <1>b
  <2>2. NewHqc(r, q) \in Block /\ NewLock(r, q) \in Block /\ NewExec(r, q) \in Block
    BY <1>2, <2>1
  <2>3. /\ HighTails(NewHqc(r, q), delivered[r]) \subseteq Block
        /\ HighTails(b, delivered[r]) \subseteq Block
    BY <1>1, <2>1, <2>2 DEF TypeOK
  <2>4. PICK vote \in BOOLEAN, own \in BOOLEAN :
          /\ b_lock' = [b_lock EXCEPT ![r] = NewLock(r, q)]
          /\ b_exec' = [b_exec EXCEPT ![r] = NewExec(r, q)]
          /\ vheight' = [vheight EXCEPT ![r] = IF vote THEN height[b] ELSE @]
          /\ votes' = votes \cup IF vote THEN {<<r, b, d>>} ELSE {}
          /\ voted' = [voted EXCEPT ![r][b] = IF own THEN AddVote(r, @) ELSE @]
    BY <1>5 DEF OnReceiveProposal, Votes
  <2>5. \E h \in {NewHqc(r, q), b} : hqc' = [hqc EXCEPT ![r] = h]
    BY <1>5 DEF OnReceiveProposal, Votes
  <2>6. \E t \in {hqc_tail[r], b} \cup HighTails(NewHqc(r, q), delivered[r])
                     \cup HighTails(b, delivered[r]) :
          hqc_tail' = [hqc_tail EXCEPT ![r] = t]
    BY ZenonT(40), <1>5 DEF OnReceiveProposal, Votes
  <2>7. \E x \in {status[r], "safety breached"} : status' = [status EXCEPT ![r] = x]
    BY <1>5 DEF OnReceiveProposal, Votes
  <2>8. UNCHANGED <<nblk, tree, proposals, delivered>>
    BY <1>5 DEF OnReceiveProposal, Votes
  <2> HIDE DEF b, q
  <2>9. /\ b_lock' \in [Replica -> Block]
        /\ b_exec' \in [Replica -> Block]
        /\ vheight' \in [Replica -> Nat]
        /\ votes' \subseteq Replica \X Block \X Replica
    BY <1>b, <1>e, <1>f, <2>1, <2>2, <2>4
  <2>10. voted' \in [Replica -> [Block -> SUBSET Replica]]
    <3>1. AddVote(r, voted[r][b]) \subseteq Replica
      BY <1>d, <2>1 DEF AddVote
    <3>2. QED
      BY <1>d, <2>1, <2>4, <3>1
  <2>11. /\ hqc' \in [Replica -> Block]
         /\ hqc_tail' \in [Replica -> Block]
         /\ status' \in [Replica -> {"up", "safety breached", "not above vheight"}]
    <3>1. hqc' \in [Replica -> Block]
      BY <1>e, <2>1, <2>2, <2>5
    <3>2. hqc_tail' \in [Replica -> Block]
      BY <1>e, <2>1, <2>3, <2>6
    <3>3. status' \in [Replica -> {"up", "safety breached", "not above vheight"}]
      BY <1>g, <2>7
    <3>4. QED
      BY <3>1, <3>2, <3>3
  <2>12. QED
    BY <2>8, <2>9, <2>10, <2>11 DEF TypeOK, tree
<1>6. ASSUME NEW m \in votes, OnReceiveVote(m[3], m[1], m[2])
      PROVE  TypeOK'
  <2> DEFINE r == m[3]
             v == m[1]
             b == m[2]
  <2>1. r \in Replica /\ v \in Replica /\ b \in Block
    BY DEF TypeOK
  <2>2. HighTails(b, delivered[r]) \subseteq Block
    BY <1>1, <2>1 DEF TypeOK
  <2>3. /\ \E h \in {hqc[r], b} : hqc' = [hqc EXCEPT ![r] = h]
        /\ \E t \in {hqc_tail[r]} \cup HighTails(b, delivered[r]) :
              hqc_tail' = [hqc_tail EXCEPT ![r] = t]
        /\ voted' = [voted EXCEPT ![r][b] = AddVote(v, @)]
        /\ UNCHANGED <<nblk, tree, proposals, votes, delivered, b_lock, b_exec,
                       vheight, status>>
    BY Zenon, <1>6 DEF OnReceiveVote
  <2> HIDE DEF r, v, b
  <2>4. hqc' \in [Replica -> Block] /\ hqc_tail' \in [Replica -> Block]
    BY <1>e, <2>1, <2>2, <2>3
  <2>5. voted' \in [Replica -> [Block -> SUBSET Replica]]
    <3>1. AddVote(v, voted[r][b]) \subseteq Replica
      BY <1>d, <2>1 DEF AddVote
    <3>2. QED
      BY <1>d, <2>1, <2>3, <3>1
  <2>6. QED
    BY <2>3, <2>4, <2>5 DEF TypeOK, tree
<1>7. CASE UNCHANGED vars
  BY <1>7 DEF vars, tree, TypeOK
<1>8. QED
  BY Zenon, <1>3, <1>4, <1>5, <1>6, <1>7 DEF Next

\* on_init and the constructor give every field a value of its type.
LEMMA TypeInit == Init => TypeOK
BY MaxBlocksAssumption DEF Init, TypeOK, Block, Genesis

\* Type correctness of the consensus core.
THEOREM TypeCorrect == Spec => []TypeOK
<1>1. QED
  BY TypeInit, TypeStep, PTL DEF Spec

---------------------------------------------------------------------------
(* Consequences of the invariant within one state *)

\* What TreeInv says of the fields of a created block.
LEMMA TreeFacts ==
    ASSUME TypeOK, TreeInv
    PROVE  /\ nblk \in Nat
           /\ \A b \in 0 .. nblk :
                /\ b \in Block
                /\ height[b] \in Nat
                /\ parent[b] \in 0 .. nblk
                /\ qc_ref[b] \in 0 .. nblk
                /\ qc_ref[b] \in anc[b]
                /\ anc[b] \subseteq 0 .. nblk
                /\ height[qc_ref[b]] <= height[b]
                /\ b # Genesis => height[qc_ref[b]] < height[b] /\ height[b] > 0
<1>1. nblk \in Nat /\ nblk <= MaxBlocks
  <2>1. nblk \in Block
    BY Zenon DEF TypeOK
  <2>2. QED
    BY <2>1, MaxBlocksAssumption DEF Block
<1>2. ASSUME NEW b \in 0 .. nblk
      PROVE  b \in Block /\ height[b] \in Nat /\ parent[b] \in Block /\ anc[b] \subseteq 0 .. nblk
  <2>1. b \in Block
    BY <1>1, MaxBlocksAssumption DEF Block
  <2>2. height[b] \in Nat /\ parent[b] \in Block
    BY Zenon, <2>1 DEF TypeOK
  <2>3. anc[b] \subseteq 0 .. nblk
    BY <1>1 DEF TreeInv
  <2>4. QED
    BY <2>1, <2>2, <2>3
<1>3. ASSUME NEW b \in 0 .. nblk
      PROVE  /\ parent[b] \in 0 .. nblk
             /\ qc_ref[b] \in 0 .. nblk
             /\ qc_ref[b] \in anc[b]
             /\ height[qc_ref[b]] <= height[b]
             /\ b # Genesis => height[qc_ref[b]] < height[b] /\ height[b] > 0
  <2>1. CASE b = Genesis
    BY <1>1, <2>1 DEF TreeInv, Genesis
  <2>2. CASE b # Genesis
    <3>1. b \in 1 .. nblk
      BY <2>2, <1>1 DEF Genesis
    <3>2. parent[b] \in 0 .. nblk /\ parent[b] # b
      BY <1>1, <1>2, <3>1 DEF TreeInv, Block
    <3>3. qc_ref[b] \in anc[parent[b]] /\ anc[b] = anc[parent[b]] \cup {b}
      BY <3>1 DEF TreeInv
    <3>4. anc[parent[b]] \subseteq 0 .. parent[b] /\ parent[b] < b
      BY <3>1, <3>2 DEF TreeInv
    <3>5. qc_ref[b] \in 0 .. nblk /\ qc_ref[b] # b
      BY <1>1, <3>1, <3>2, <3>3, <3>4
    <3>6. height[qc_ref[b]] < height[b]
      BY <3>3, <3>5 DEF TreeInv
    <3>7. height[qc_ref[b]] \in Nat /\ height[b] \in Nat
      BY <1>2, <3>5
    <3>8. QED
      BY <3>2, <3>3, <3>5, <3>6, <3>7
  <2>3. QED
    BY <2>1, <2>2
<1>4. QED
  BY <1>1, <1>2, <1>3

\* A certificate fixes the only certified block of its height: two quorums share
\* a voter, and a replica votes once a height.
LEMMA CertUnique == TypeOK /\ TreeInv /\ VoteInv => UniqueCertificate
<1> SUFFICES ASSUME TypeOK, TreeInv, VoteInv,
                    NEW b \in 0 .. nblk, NEW c \in 0 .. nblk,
                    Certified(b), Certified(c), height[b] = height[c]
             PROVE  b = c
  BY DEF UniqueCertificate
<1>1. CASE b = Genesis \/ c = Genesis
  BY <1>1, TreeFacts DEF TreeInv, Genesis
<1>2. CASE b # Genesis /\ c # Genesis
  <2>1. b \in 1 .. nblk /\ c \in 1 .. nblk
    BY <1>2, TreeFacts DEF Genesis
  <2>2. PICK v \in Replica : v \in Voters(b) /\ v \in Voters(c)
    BY <1>2, QuorumsIntersect DEF Certified
  <2>3. QED
    BY <2>1, <2>2 DEF VoteInv
<1>3. QED
  BY <1>1, <1>2

\* CertUnique for the state after a step.
LEMMA CertUniqueNext == (TypeOK /\ TreeInv /\ VoteInv => UniqueCertificate)'
BY CertUnique, PTL

\* A certified block is not dead.
LEMMA CertifiedNotDead ==
    ASSUME NEW b, Quorum(Voters(b))
    PROVE  ~Dead(b)
<1> SUFFICES ASSUME Dead(b) PROVE FALSE
  OBVIOUS
<1>1. PICK Q \in SUBSET Replica : Quorum(Q) /\ \A r \in Q : r \notin Voters(b)
  BY DEF Dead
<1>2. QED
  BY <1>1, QuorumsIntersect

\* A direct chain whose last block is certified is on the branch of every
\* certified block that is not lower than its first.
LEMMA ChainFinal == TypeOK /\ TreeInv /\ ChainInv => ChainIsFinal
<1> SUFFICES ASSUME TypeOK, TreeInv, ChainInv,
                    NEW q \in 0 .. nblk, NEW c \in 0 .. nblk,
                    DirectChain(q), Certified(q), Certified(c),
                    height[c] >= height[qc_ref[qc_ref[q]]]
             PROVE  qc_ref[qc_ref[q]] \in anc[c]
  BY DEF ChainIsFinal
<1>1. CASE q = Genesis
  BY <1>1 DEF TreeInv
<1>2. CASE q # Genesis
  <2>1. ~Dead(q)
    BY <1>2, CertifiedNotDead DEF Certified
  <2>2. QED
    BY <2>1 DEF ChainInv
<1>3. QED
  BY <1>1, <1>2

\* Committing the chain of a certified block q never meets a b_exec that is off
\* its branch.
LEMMA NoBreachHere ==
    ASSUME TypeOK, TreeInv, CertInv, LockInv, ChainInv, RefInv,
           NEW r \in Replica, NEW q \in 0 .. nblk, Certified(q)
    PROVE  ~Breach(r, q)
<1> DEFINE b0 == qc_ref[qc_ref[q]]
           e == b_exec[r]
<1> SUFFICES ASSUME Breach(r, q) PROVE FALSE
  OBVIOUS
<1>1. DirectChain(q) /\ b0 \notin anc[e] /\ e \notin anc[b0]
  BY DEF Breach, Commits, DirectChain, Decided
<1>2. /\ e \in 0 .. nblk /\ b0 \in 0 .. nblk
      /\ height[e] \in Nat /\ height[b0] \in Nat
  BY TreeFacts DEF RefInv
<1>3. Certified(e) /\ Certified(b0)
  BY TreeFacts DEF CertInv, LockInv
<1>4. ChainIsFinal
  BY ChainFinal
<1>5. PICK q2 \in 0 .. nblk : Certified(q2) /\ DirectChain(q2) /\ e = qc_ref[qc_ref[q2]]
  BY DEF LockInv
<1>6. height[e] <= height[b0] => e \in anc[b0]
  BY <1>2, <1>3, <1>4, <1>5 DEF ChainIsFinal
<1>7. height[b0] <= height[e] => b0 \in anc[e]
  BY <1>1, <1>2, <1>3, <1>4 DEF ChainIsFinal
<1>8. QED
  BY <1>1, <1>2, <1>6, <1>7
---------------------------------------------------------------------------
(* What update() and the vote count make of one replica *)

\* What update() makes of the lock: a certified block, never lower than before,
\* and not lower than the block two certificates back.
LEMMA LockStep ==
    ASSUME TypeOK, TreeInv, RefInv, CertInv, LockInv, NEW r \in Replica, NEW q \in 0 .. nblk
    PROVE  /\ NewLock(r, q) \in 0 .. nblk
           /\ Certified(NewLock(r, q))
           /\ height[b_lock[r]] <= height[NewLock(r, q)]
           /\ height[qc_ref[q]] <= height[NewLock(r, q)]
<1> DEFINE b1 == qc_ref[q]
           e == b_exec[r]
<1>1. b1 \in 0 .. nblk /\ b_lock[r] \in 0 .. nblk /\ e \in 0 .. nblk
  BY TreeFacts DEF RefInv
<1>2. height[b1] \in Nat /\ height[b_lock[r]] \in Nat /\ height[e] \in Nat
  BY <1>1, TreeFacts
<1>3. Certified(b1) /\ Certified(b_lock[r]) /\ height[e] <= height[b_lock[r]]
  BY DEF CertInv, LockInv
<1>4. ASSUME {q, b1} \cap anc[e] # {} PROVE height[b1] <= height[e]
  <2>1. \A a \in anc[e] : a \in 0 .. nblk /\ height[a] <= height[e] /\ anc[a] \subseteq anc[e]
    <3>1. ASSUME NEW a \in anc[e] PROVE a \in 0 .. nblk
      BY <1>1, TreeFacts
    <3>2. ASSUME NEW a \in anc[e] PROVE height[a] <= height[e]
      <4>1. a # e => height[a] < height[e]
        BY <1>1 DEF TreeInv
      <4>2. height[a] \in Nat
        BY <3>1, TreeFacts
      <4>3. QED
        BY <1>2, <4>1, <4>2
    <3>3. ASSUME NEW a \in anc[e] PROVE anc[a] \subseteq anc[e]
      BY <1>1 DEF TreeInv
    <3>4. QED
      BY <3>1, <3>2, <3>3
  <2>2. b1 \in anc[q]
    BY TreeFacts
  <2>3. b1 \in anc[e]
    BY <1>4, <2>1, <2>2
  <2>4. QED
    BY <2>1, <2>3
<1>5. CASE {q, b1} \cap Decided(r) = {} /\ height[b1] > height[b_lock[r]]
  <2>1. NewLock(r, q) = b1
    BY <1>5 DEF NewLock
  <2>2. QED
    BY <1>1, <1>2, <1>3, <1>5, <2>1
<1>6. CASE ~({q, b1} \cap Decided(r) = {} /\ height[b1] > height[b_lock[r]])
  <2>1. NewLock(r, q) = b_lock[r]
    BY <1>6 DEF NewLock
  <2>2. height[b1] <= height[b_lock[r]]
    BY <1>2, <1>3, <1>4, <1>6 DEF Decided
  <2>3. QED
    BY <1>1, <1>2, <1>3, <2>1, <2>2
<1>7. QED
  BY <1>5, <1>6

\* The branch tips PMHighTail may choose from follow the new hqc.
LEMMA HighTailsFollow ==
    ASSUME TypeOK, TreeInv, RefInv, NEW r \in Replica, NEW h \in 0 .. nblk,
           NEW t \in HighTails(h, delivered[r])
    PROVE  t \in 0 .. nblk /\ h \in anc[t]
<1>1. t = h \/ (t \in delivered[r] /\ h \in anc[t])
  BY DEF HighTails, Tails
<1>2. h \in anc[h] /\ delivered[r] \subseteq 0 .. nblk
  BY Zenon DEF TreeInv, RefInv
<1>3. QED
  BY <1>1, <1>2

\* The vote that completes a certificate makes the set of voters a quorum.
LEMMA CompletesQuorum ==
    ASSUME NEW V \in SUBSET Replica, NEW v \in Replica, Completes(v, V)
    PROVE  Quorum(V \cup {v})
<1>1. IsFiniteSet(V)
  BY ReplicaAssumption, FS_Subset
<1>2. Cardinality(V \cup {v}) = Cardinality(V) + 1
  BY <1>1, FS_AddElement DEF Completes
<1>3. Cardinality(V) + 1 = nmajority
  BY Zenon DEF Completes
<1>4. QED
  BY <1>2, <1>3, MajorityBounds DEF Quorum

\* update() for a certified block q: hqc and b_exec stay certified, b_exec moves up
\* its own branch to the head of a direct chain and stays below the lock.
LEMMA UpdateStep ==
    ASSUME TypeOK, IndInv, NEW r \in Replica, NEW q \in 0 .. nblk, Certified(q)
    PROVE  /\ ~Breach(r, q)
           /\ NewHqc(r, q) \in 0 .. nblk /\ Certified(NewHqc(r, q))
           /\ height[hqc[r]] <= height[NewHqc(r, q)]
           /\ height[NewLock(r, q)] <= height[NewHqc(r, q)]
           /\ NewExec(r, q) \in 0 .. nblk /\ Certified(NewExec(r, q))
           /\ b_exec[r] \in anc[NewExec(r, q)]
           /\ height[NewExec(r, q)] <= height[NewLock(r, q)]
           /\ \E x \in 0 .. nblk : /\ Certified(x) /\ DirectChain(x)
                                   /\ NewExec(r, q) = qc_ref[qc_ref[x]]
<1> DEFINE b1 == qc_ref[q]
           b0 == qc_ref[b1]
<1>a. TreeInv /\ RefInv /\ CertInv /\ LockInv /\ ChainInv
  BY Zenon DEF IndInv
<1>b. /\ b1 \in 0 .. nblk /\ b0 \in 0 .. nblk /\ hqc[r] \in 0 .. nblk
      /\ b_lock[r] \in 0 .. nblk /\ b_exec[r] \in 0 .. nblk
      /\ height[b0] <= height[b1] /\ height[b1] <= height[q]
  <2>1. b1 \in 0 .. nblk /\ b0 \in 0 .. nblk
    BY Zenon, <1>a, TreeFacts
  <2>2. QED
    BY <1>a, <2>1, TreeFacts DEF RefInv
<1>c. /\ height[b1] \in Nat /\ height[b0] \in Nat /\ height[q] \in Nat
      /\ height[hqc[r]] \in Nat /\ height[b_lock[r]] \in Nat /\ height[b_exec[r]] \in Nat
  BY <1>a, <1>b, TreeFacts
<1>d. /\ Certified(b0) /\ Certified(hqc[r]) /\ Certified(b_exec[r])
      /\ height[b_exec[r]] <= height[b_lock[r]]
      /\ height[b_lock[r]] <= height[hqc[r]]
  BY Zenon, <1>a, <1>b DEF CertInv, LockInv
<1>e. /\ NewLock(r, q) \in 0 .. nblk
      /\ height[b_lock[r]] <= height[NewLock(r, q)]
      /\ height[b1] <= height[NewLock(r, q)]
      /\ height[NewLock(r, q)] \in Nat
  BY <1>a, LockStep, TreeFacts
<1>1. ~Breach(r, q)
  BY Zenon, <1>a, NoBreachHere
<1>2. /\ NewHqc(r, q) \in 0 .. nblk /\ Certified(NewHqc(r, q))
      /\ height[hqc[r]] <= height[NewHqc(r, q)]
  BY <1>b, <1>c, <1>d DEF NewHqc
<1>3. height[NewLock(r, q)] <= height[NewHqc(r, q)]
  <2>1. CASE NewLock(r, q) = b_lock[r]
    BY SMTT(40), <1>2, <1>b, <1>c, <1>d, <2>1 DEF NewHqc
  <2>2. CASE NewLock(r, q) # b_lock[r]
    <3>1. q \notin Decided(r) /\ NewLock(r, q) = b1
      BY <2>2 DEF NewLock
    <3>2. height[q] <= height[NewHqc(r, q)]
      BY <3>1, <1>c DEF NewHqc
    <3>3. height[NewHqc(r, q)] \in Nat
      BY Zenon, <1>2, <1>a, TreeFacts
    <3>4. QED
      BY <3>1, <3>2, <3>3, <1>b, <1>c
  <2>3. QED
    BY Zenon, <2>1, <2>2
<1>4. CASE Commits(r, q)
  <2>1. NewExec(r, q) = b0 /\ b_exec[r] \in anc[b0] /\ DirectChain(q)
    BY <1>1, <1>4 DEF NewExec, Breach, Commits, DirectChain
  <2>2. height[b0] <= height[NewLock(r, q)]
    BY SMTT(40), <1>b, <1>c, <1>e
  <2>3. QED
    BY Zenon, <1>1, <1>2, <1>3, <1>b, <1>d, <2>1, <2>2
<1>5. CASE ~Commits(r, q)
  <2>1. NewExec(r, q) = b_exec[r]
    BY Zenon, <1>5 DEF NewExec
  <2>2. b_exec[r] \in anc[b_exec[r]]
    BY <1>a, <1>b DEF TreeInv
  <2>3. \E x \in 0 .. nblk : Certified(x) /\ DirectChain(x) /\ b_exec[r] = qc_ref[qc_ref[x]]
    BY <1>a DEF LockInv
  <2>4. height[b_exec[r]] <= height[NewLock(r, q)]
    BY SMTT(40), <1>c, <1>d, <1>e
  <2>5. QED
    BY <1>1, <1>2, <1>3, <1>b, <1>d, <2>1, <2>2, <2>3, <2>4
<1>6. QED
  BY Zenon, <1>4, <1>5

\* The facts about hqc, lock and executed block survive a step in which replica r
\* runs update() for q and may then raise its hqc to h.
LEMMA LockInvStep ==
    ASSUME TypeOK, IndInv, TreeInv', nblk' \in Nat, 0 .. nblk \subseteq 0 .. nblk',
           \A x \in 0 .. nblk : /\ parent'[x] = parent[x] /\ qc_ref'[x] = qc_ref[x]
                                /\ height'[x] = height[x] /\ anc'[x] = anc[x],
           \A x \in 0 .. nblk : Certified(x) => Certified(x)',
           NEW r \in Replica, NEW q \in 0 .. nblk, Certified(q),
           NEW h \in 0 .. nblk, Certified(h)', height[h] >= height[NewHqc(r, q)],
           hqc' = [hqc EXCEPT ![r] = h],
           b_lock' = [b_lock EXCEPT ![r] = NewLock(r, q)],
           b_exec' = [b_exec EXCEPT ![r] = NewExec(r, q)]
    PROVE  LockInv'
<1>a. TreeInv /\ RefInv /\ CertInv /\ LockInv /\ ChainInv
  BY DEF IndInv
<1>b. PICK l, e : l = NewLock(r, q) /\ e = NewExec(r, q)
  OBVIOUS
<1>c. /\ hqc \in [Replica -> Block] /\ b_lock \in [Replica -> Block]
      /\ b_exec \in [Replica -> Block]
  BY Zenon DEF TypeOK
<1>1. ASSUME NEW x \in 0 .. nblk, DirectChain(x) PROVE DirectChain(x)'
  <2>1. qc_ref[x] \in 0 .. nblk
    BY Zenon, <1>a, TreeFacts
  <2>2. QED
    BY ZenonT(40), <1>1, <2>1 DEF DirectChain
<1>2. ASSUME NEW x \in 0 .. nblk PROVE qc_ref'[qc_ref'[x]] = qc_ref[qc_ref[x]]
  BY Zenon, <1>a, TreeFacts
<1>3. /\ l \in 0 .. nblk /\ Certified(l) /\ e \in 0 .. nblk /\ Certified(e)
      /\ height[e] <= height[l] /\ height[l] <= height[NewHqc(r, q)]
      /\ NewHqc(r, q) \in 0 .. nblk
      /\ \E x \in 0 .. nblk : Certified(x) /\ DirectChain(x) /\ e = qc_ref[qc_ref[x]]
  BY ZenonT(40), <1>a, <1>b, LockStep, UpdateStep
<1>4. /\ Certified(h)' /\ Certified(l)' /\ Certified(e)'
      /\ height'[e] <= height'[l] /\ height'[l] <= height'[h]
      /\ \E x \in 0 .. nblk' : Certified(x)' /\ DirectChain(x)' /\ e = qc_ref'[qc_ref'[x]]
  <2>1. height[l] <= height[h]
    <3>1. height[l] \in Nat /\ height[h] \in Nat /\ height[NewHqc(r, q)] \in Nat
      BY <1>3, <1>a, TreeFacts
    <3>2. QED
      BY SMTT(60), <3>1, <1>3
  <2>2. \E x \in 0 .. nblk' : Certified(x)' /\ DirectChain(x)' /\ e = qc_ref'[qc_ref'[x]]
    BY Zenon, <1>1, <1>2, <1>3
  <2>3. QED
    BY Zenon, <1>3, <2>1, <2>2
<1>5. /\ hqc'[r] = h /\ b_lock'[r] = l /\ b_exec'[r] = e
      /\ \A s \in Replica \ {r} : hqc'[s] = hqc[s] /\ b_lock'[s] = b_lock[s] /\ b_exec'[s] = b_exec[s]
  BY Zenon, <1>b, <1>c
<1>6. SUFFICES ASSUME NEW s \in Replica
               PROVE  /\ Certified(hqc[s])' /\ Certified(b_lock[s])' /\ Certified(b_exec[s])'
                      /\ height'[b_exec'[s]] <= height'[b_lock'[s]]
                      /\ height'[b_lock'[s]] <= height'[hqc'[s]]
                      /\ \E x \in 0 .. nblk' : Certified(x)' /\ DirectChain(x)'
                                                /\ b_exec'[s] = qc_ref'[qc_ref'[x]]
  BY Zenon DEF LockInv
<1>7. CASE s = r
  <2>1. Certified(hqc[s])' /\ Certified(b_lock[s])' /\ Certified(b_exec[s])'
    BY Zenon, <1>4, <1>5, <1>7 DEF Certified
  <2>2. QED
    BY Zenon, <1>4, <1>5, <1>7, <2>1
<1>8. CASE s # r
  <2>1. /\ hqc[s] \in 0 .. nblk /\ b_lock[s] \in 0 .. nblk /\ b_exec[s] \in 0 .. nblk
    BY Zenon, <1>a DEF RefInv
  <2>2. PICK hs \in 0 .. nblk, ls \in 0 .. nblk, es \in 0 .. nblk :
          hs = hqc[s] /\ ls = b_lock[s] /\ es = b_exec[s]
    BY Zenon, <2>1
  <2>3. /\ Certified(hs) /\ Certified(ls) /\ Certified(es)
        /\ height[es] <= height[ls] /\ height[ls] <= height[hs]
        /\ \E x \in 0 .. nblk : Certified(x) /\ DirectChain(x) /\ es = qc_ref[qc_ref[x]]
    BY ZenonT(40), <1>a, <2>2 DEF LockInv
  <2>4. hqc'[s] = hs /\ b_lock'[s] = ls /\ b_exec'[s] = es
    BY Zenon, <1>5, <1>8, <2>2
  <2>5. Certified(hqc[s])' /\ Certified(b_lock[s])' /\ Certified(b_exec[s])'
    BY <2>3, <2>4 DEF Certified
  <2>6. \E x \in 0 .. nblk' : Certified(x)' /\ DirectChain(x)' /\ es = qc_ref'[qc_ref'[x]]
    BY ZenonT(40), <1>1, <1>2, <2>3
  <2>7. QED
    BY Zenon, <2>3, <2>4, <2>5, <2>6
<1>9. QED
  BY Zenon, <1>7, <1>8
=============================================================================
