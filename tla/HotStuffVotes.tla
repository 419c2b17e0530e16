--------------------------- MODULE HotStuffVotes ----------------------------
(***************************************************************************)
(* What a vote and a proposal do to the inductive invariant of             *)
(* HotStuffCore, above all to ChainInv, its heart.                         *)
(*                                                                         *)
(* The argument follows time, not heights: ChainInv says of a direct chain *)
(* ending in q that is not certified yet that a certified block off its    *)
(* branch leaves a quorum that will never vote for q (Dead).  Only the     *)
(* vote that certifies a block can threaten it, and that voter's lock      *)
(* leads to a block that was certified before.                             *)
(***************************************************************************)
EXTENDS HotStuffCoreProofs

\* The voters of a block after a step in which at most replica r votes, for b: no
\* vote is taken back, and a certificate stays one.
LEMMA VotersStep ==
    ASSUME RefInv, nblk \in Nat,
           NEW r \in Replica, NEW b, NEW d \in Replica, NEW vote \in BOOLEAN,
           votes' = votes \cup IF vote THEN {<<r, b, d>>} ELSE {}
    PROVE  /\ \A x : \A v \in Replica :
                v \in Voters(x)' <=> v \in Voters(x) \/ (vote /\ v = r /\ x = b)
           /\ \A x : Voters(x) \subseteq Replica /\ Voters(x)' \subseteq Replica
           /\ \A x : /\ Voters(x) \subseteq Voters(x)'
                     /\ x # b \/ ~vote => Voters(x)' = Voters(x)
           /\ \A x \in Nat \ (0 .. nblk) : Voters(x) = {}
           /\ \A x : Certified(x) => Certified(x)'
<1> DEFINE V(x) == Voters(x)
           W(x) == Voters(x)'
\* The new voters are the old ones, and r for b if it votes.
<1>1. ASSUME NEW x, NEW v \in Replica
      PROVE  v \in W(x) <=> v \in V(x) \/ (vote /\ v = r /\ x = b)
  <2>1. ASSUME NEW y \in Replica
        PROVE  <<v, x, y>> \in votes'
               <=> <<v, x, y>> \in votes \/ (vote /\ v = r /\ x = b /\ y = d)
    OBVIOUS
  <2>2. v \in W(x) <=> \E y \in Replica : <<v, x, y>> \in votes'
    BY Zenon DEF Voters
  <2>3. v \in V(x) <=> \E y \in Replica : <<v, x, y>> \in votes
    BY DEF Voters
  <2>4. QED
    BY <2>1, <2>2, <2>3
<1>2. \A x : V(x) \subseteq Replica /\ W(x) \subseteq Replica
  BY DEF Voters
<1>3. ASSUME NEW x PROVE V(x) \subseteq W(x) /\ (x # b \/ ~vote => W(x) = V(x))
  <2> HIDE DEF V, W
  <2>1. V(x) \subseteq Replica /\ W(x) \subseteq Replica
    BY <1>2
  <2>2. \A v \in Replica : v \in W(x) <=> v \in V(x) \/ (vote /\ v = r /\ x = b)
    BY <1>1
  <2>3. QED
    BY Zenon, <2>1, <2>2
<1>4. \A x \in Nat \ (0 .. nblk) : V(x) = {}
  <2>1. \A m \in votes : m[2] \in 1 .. nblk
    BY DEF RefInv
  <2>2. ASSUME NEW x \in Nat \ (0 .. nblk), NEW v \in V(x) PROVE FALSE
    <3>1. PICK y \in Replica : <<v, x, y>> \in votes
      BY <2>2 DEF Voters
    <3>2. QED
      BY <2>1, <3>1
  <2>3. QED
    BY <2>2
<1>5. ASSUME NEW x, Certified(x) PROVE Certified(x)'
  <2>1. Quorum(V(x)) => Quorum(W(x))
    BY <1>2, <1>3, QuorumGrows
  <2>2. QED
    BY <1>5, <2>1 DEF Certified
<1>6. QED
  BY <1>1, <1>2, <1>3, <1>4, <1>5

\* A replica that voted for x and votes for c above it, now with lock lk or before,
\* does so with a lock that remembers x.
LEMMA VoterLock ==
    ASSUME TypeOK, TreeInv, VoteInv,
           NEW v \in Replica, NEW x \in 1 .. nblk, NEW c \in 1 .. nblk,
           v \in Voters(x), height[x] < height[c],
           NEW lk \in 0 .. nblk, Certified(lk),
           \/ v \in Voters(c)
           \/ /\ b_lock[v] \in 0 .. nblk /\ height[b_lock[v]] <= height[lk]
              /\ height[qc_ref[c]] > height[lk] \/ lk \in anc[c]
    PROVE  \E L \in 0 .. nblk : LockWitness(L, height[qc_ref[qc_ref[x]]], c)
<1>1. CASE v \in Voters(c)
  BY <1>1 DEF VoteInv
<1>2. CASE v \notin Voters(c)
  <2>1. height[qc_ref[qc_ref[x]]] <= height[b_lock[v]]
    BY DEF VoteInv
  <2>2. nblk \in Nat /\ x \in 0 .. nblk
    BY TreeFacts
  <2>3. qc_ref[x] \in 0 .. nblk
    BY <2>2, TreeFacts
  <2>4. qc_ref[qc_ref[x]] \in 0 .. nblk
    BY <2>3, TreeFacts
  <2>5. /\ height[qc_ref[qc_ref[x]]] \in Nat /\ height[b_lock[v]] \in Nat
        /\ height[lk] \in Nat
    BY <1>2, <2>4, TreeFacts
  <2>6. height[lk] >= height[qc_ref[qc_ref[x]]]
    BY <1>2, <2>1, <2>5
  <2>7. LockWitness(lk, height[qc_ref[qc_ref[x]]], c)
    BY <1>2, <2>6 DEF LockWitness
  <2>8. QED
    BY <2>7
<1>3. QED
  BY <1>1, <1>2

\* A block c off the branch of b0 that a voter accepted with lock L, not lower than
\* b0: the lock, or the block that c is justified by, is certified and off the branch.
LEMMA CertifiedOffBranch ==
    ASSUME TypeOK, TreeInv, CertInv,
           NEW c \in 0 .. nblk, NEW b0 \in 0 .. nblk, b0 \notin anc[c],
           NEW L \in 0 .. nblk, Certified(L), height[L] >= height[b0],
           height[qc_ref[c]] > height[L] \/ L \in anc[c]
    PROVE  \E e \in 0 .. nblk : Certified(e) /\ height[e] >= height[b0] /\ b0 \notin anc[e]
<1>1. ASSUME NEW a \in anc[c] PROVE b0 \notin anc[a]
  BY DEF TreeInv
<1>2. CASE L \in anc[c]
  BY <1>1, <1>2
<1>3. CASE height[qc_ref[c]] > height[L]
  <2>1. qc_ref[c] \in anc[c] /\ qc_ref[c] \in 0 .. nblk
    BY TreeFacts
  <2>2. Certified(qc_ref[c])
    BY DEF CertInv
  <2>3. height[qc_ref[c]] \in Nat /\ height[L] \in Nat /\ height[b0] \in Nat
    BY <2>1, TreeFacts
  <2>4. height[qc_ref[c]] >= height[b0]
    BY <1>3, <2>3
  <2>5. QED
    BY <1>1, <2>1, <2>2, <2>4
<1>4. QED
  BY <1>2, <1>3

\* Block c is certified, not lower than the head of the direct chain ending in x,
\* and off its branch.
OffBranch(x, c) ==
    /\ DirectChain(x) /\ Certified(c)
    /\ height[c] >= height[qc_ref[qc_ref[x]]]
    /\ qc_ref[qc_ref[x]] \notin anc[c]

\* The justification of every block is certified.
AllJustified == \A x, y \in 0 .. nblk : y = qc_ref[x] => Certified(y)

\* Such a block c is not lower than x, and its voters are a quorum that will not
\* vote for x, unless one of them has.
LEMMA OffBranchVoters ==
    TypeOK /\ TreeInv /\ VoteInv /\ AllJustified =>
        \A x, c \in 0 .. nblk : OffBranch(x, c) =>
            /\ x \in 1 .. nblk /\ c \in 1 .. nblk /\ x # c
            /\ height[c] >= height[x] /\ height[x] \in Nat
            /\ Quorum(Voters(c))
            /\ (\A v \in Voters(c) : v \notin Voters(x)) => Dead(x)
<1> SUFFICES ASSUME TypeOK, TreeInv, VoteInv, AllJustified,
                    NEW x \in 0 .. nblk, NEW c \in 0 .. nblk, OffBranch(x, c)
             PROVE  /\ x \in 1 .. nblk /\ c \in 1 .. nblk /\ x # c
                    /\ height[c] >= height[x] /\ height[x] \in Nat
                    /\ Quorum(Voters(c))
                    /\ (\A v \in Voters(c) : v \notin Voters(x)) => Dead(x)
  OBVIOUS
<1>1. PICK b1 \in 0 .. nblk, b0 \in 0 .. nblk : b1 = qc_ref[x] /\ b0 = qc_ref[b1]
  <2>1. qc_ref[x] \in 0 .. nblk
    BY TreeFacts
  <2>2. qc_ref[qc_ref[x]] \in 0 .. nblk
    BY <2>1, TreeFacts
  <2>3. QED
    BY <2>1, <2>2
<1>2. /\ DirectChain(x) /\ Certified(c) /\ height[c] >= height[b0] /\ b0 \notin anc[c]
      /\ Certified(b1) /\ Certified(b0)
  BY <1>1 DEF OffBranch, AllJustified
<1>3. nblk \in Nat /\ height[x] \in Nat /\ height[c] \in Nat
      /\ height[b0] \in Nat /\ height[b1] \in Nat
  BY <1>1, TreeFacts
<1>4. b0 # Genesis /\ b1 # Genesis /\ x # Genesis
  BY <1>1, <1>2 DEF TreeInv
<1>5. b0 \in 1 .. nblk /\ b1 \in 1 .. nblk /\ x \in 1 .. nblk
  BY <1>1, <1>3, <1>4 DEF Genesis
<1>6. parent[x] = b1 /\ parent[b1] = b0
  BY <1>1, <1>2 DEF DirectChain
<1>7. height[b1] = height[b0] + 1 /\ height[x] = height[b1] + 1
  BY <1>5, <1>6 DEF TreeInv
<1>8. b0 \in anc[b0] /\ b0 \in anc[b1] /\ b0 \in anc[x]
  BY <1>5, <1>6 DEF TreeInv
<1>9. c \in 1 .. nblk
  <2>1. height[b0] > 0
    BY <1>1, <1>4, TreeFacts
  <2>2. height[Genesis] = 0
    BY DEF TreeInv
  <2>3. QED
    BY <1>2, <1>3, <2>1, <2>2 DEF Genesis
<1>10. x # c /\ height[c] >= height[x] /\ height[x] \in Nat
  <2>1. UniqueCertificate
    BY CertUnique
  <2>2. height[c] # height[b0] /\ height[c] # height[b1]
    BY <1>2, <1>8, <2>1 DEF UniqueCertificate
  <2>3. QED
    BY <1>2, <1>3, <1>7, <1>8, <2>2
<1>11. Quorum(Voters(c))
  BY <1>2, <1>9 DEF Certified, Genesis
<1>12. ASSUME \A v \in Voters(c) : v \notin Voters(x) PROVE Dead(x)
  <2>1. Voters(c) \in SUBSET Replica
    BY DEF Voters
  <2>2. vheight \in [Replica -> Nat]
    BY Zenon DEF TypeOK
  <2>3. ASSUME NEW v \in Voters(c) PROVE vheight[v] >= height[x]
    <3>1. height[c] <= vheight[v] /\ vheight[v] \in Nat
      BY <1>9, <2>1, <2>2, <2>3 DEF VoteInv
    <3>2. QED
      BY <1>3, <1>10, <3>1
  <2>4. QED
    BY <1>11, <1>12, <2>1, <2>3 DEF Dead
<1>13. QED
  BY <1>3, <1>5, <1>9, <1>10, <1>11, <1>12

\* The same in the next state.
LEMMA OffBranchVotersNext ==
    (TypeOK /\ TreeInv /\ VoteInv /\ AllJustified =>
        \A x, c \in 0 .. nblk : OffBranch(x, c) =>
            /\ x \in 1 .. nblk /\ c \in 1 .. nblk /\ x # c
            /\ height[c] >= height[x] /\ height[x] \in Nat
            /\ Quorum(Voters(c))
            /\ (\A v \in Voters(c) : v \notin Voters(x)) => Dead(x))'
BY OffBranchVoters, PTL

\* The chains after such a step, given what it does to votes, locks and dead blocks.
LEMMA ChainStep ==
    ASSUME TypeOK, TypeOK', TreeInv, TreeInv', RefInv, CertInv, VoteInv, ChainInv, VoteInv',
           nblk \in Nat, nblk' \in Nat, 0 .. nblk \subseteq 0 .. nblk',
           NEW r \in Replica, NEW b \in 1 .. nblk', NEW d \in Replica, NEW vote \in BOOLEAN,
           nblk' = nblk \/ (nblk' = nblk + 1 /\ b = nblk + 1),
           \A x \in 0 .. nblk : /\ parent'[x] = parent[x] /\ qc_ref'[x] = qc_ref[x]
                                /\ height'[x] = height[x] /\ anc'[x] = anc[x],
           votes' = votes \cup IF vote THEN {<<r, b, d>>} ELSE {},
           NEW q \in 0 .. nblk, q = qc_ref'[b],
           NEW lk \in 0 .. nblk, Certified(lk), height[b_lock[r]] <= height[lk],
           b_lock[r] \in 0 .. nblk,
           vote => /\ height'[b] > vheight[r]
                   /\ \/ height[q] > height[lk]
                      \/ lk \in anc'[b],
           \A x \in 0 .. nblk' : qc_ref'[x] \in 0 .. nblk /\ Certified(qc_ref'[x]),
           \A x \in 0 .. nblk : Dead(x) => Dead(x)'
    PROVE  ChainInv'
<1> DEFINE V(x) == Voters(x)
           W(x) == Voters(x)'
<1>1. /\ \A x : \A v \in Replica : v \in W(x) <=> v \in V(x) \/ (vote /\ v = r /\ x = b)
      /\ \A x : V(x) \subseteq Replica /\ W(x) \subseteq Replica
      /\ \A x : V(x) \subseteq W(x) /\ (x # b \/ ~vote => W(x) = V(x))
      /\ \A x \in Nat \ (0 .. nblk) : V(x) = {}
      /\ \A x : Certified(x) => Certified(x)'
  BY ZenonT(40), VotersStep
<1>2. AllJustified'
  <2>1. ASSUME NEW x \in 0 .. nblk', NEW y \in 0 .. nblk', y = qc_ref'[x]
        PROVE  Certified(y)'
    <3>1. Certified(y)
      BY <2>1
    <3>2. QED
      BY Zenon, <1>1, <3>1
  <2>2. QED
    BY <2>1 DEF AllJustified
<1>3. SUFFICES ASSUME NEW x \in 0 .. nblk', NEW c \in 0 .. nblk', OffBranch(x, c)'
               PROVE  Dead(x)'
  BY DEF ChainInv, OffBranch
<1>4. /\ x \in 1 .. nblk' /\ c \in 1 .. nblk' /\ x # c
      /\ height'[c] >= height'[x] /\ height'[x] \in Nat
      /\ Quorum(W(c))
      /\ (\A v \in W(c) : v \notin W(x)) => Dead(x)'
  BY Zenon, <1>2, <1>3, OffBranchVotersNext
<1>5. PICK b0 \in 0 .. nblk : b0 = qc_ref'[qc_ref'[x]]
  BY SMT
<1>6. height'[c] >= height'[b0] /\ b0 \notin anc'[c] /\ DirectChain(x)'
  BY <1>3, <1>5 DEF OffBranch
\* A block that was certified before the step and is off the branch.
<1>7. ASSUME x \in 0 .. nblk, NEW e \in 0 .. nblk, Certified(e),
             height[e] >= height[b0], b0 \notin anc[e]
      PROVE  Dead(x)'
  <2>1. qc_ref'[x] \in 0 .. nblk /\ qc_ref'[x] = qc_ref[x] /\ b0 = qc_ref[qc_ref[x]]
    BY <1>5, <1>7
  <2>2. DirectChain(x)
    BY <1>6, <1>7, <2>1 DEF DirectChain
  <2>3. Dead(x)
    BY <1>7, <2>1, <2>2 DEF ChainInv
  <2>4. QED
    BY <1>7, <2>3
<1>8. CASE c \notin 0 .. nblk
  <2>1. c = b /\ V(c) = {}
    BY <1>1, <1>8
  <2>2. W(c) \subseteq {r}
    BY <1>1, <2>1
  <2>3. Quorum({r})
    BY <1>4, <2>2, QuorumGrows
  <2>4. QED
    BY <2>3, QuorumNotSingle
<1>9. CASE c \in 0 .. nblk /\ x \notin 0 .. nblk
  <2>1. x = b /\ V(x) = {} /\ c \in 1 .. nblk
    BY SMTT(30), <1>1, <1>4, <1>9
  <2>2. ASSUME NEW v \in W(c), v \in W(x) PROVE FALSE
    <3>1. v = r /\ vote /\ v \in V(c)
      BY SMTT(30), <1>1, <1>4, <2>1, <2>2
    <3>2. height[c] <= vheight[r]
      BY Zenon, <2>1, <3>1 DEF VoteInv
    <3>3. height'[c] = height[c] /\ vheight[r] \in Nat
      <4>1. vheight \in [Replica -> Nat]
        BY Zenon DEF TypeOK
      <4>2. QED
        BY <1>9, <4>1
    <3>4. height[c] \in Nat
      BY <1>9, TreeFacts
    <3>5. QED
      BY SMTT(30), <1>4, <2>1, <3>1, <3>2, <3>3, <3>4
  <2>3. QED
    BY Zenon, <1>4, <2>2
<1>10. CASE x \in 0 .. nblk /\ c \in 0 .. nblk /\ Certified(c)
  <2>1. anc'[c] = anc[c] /\ height'[c] = height[c] /\ height'[b0] = height[b0]
    BY <1>10
  <2>2. QED
    BY <1>6, <1>7, <1>10, <2>1
<1>11. CASE x \in 0 .. nblk /\ c \in 0 .. nblk /\ ~Certified(c)
  <2>1. c = b /\ vote
    BY SMTT(30), <1>1, <1>4, <1>11 DEF Certified
  <2>2. CASE \A v \in W(c) : v \notin W(x)
    BY <1>4, <2>2
  <2>3. CASE \E v \in W(c) : v \in W(x)
    <3>1. PICK v \in W(c) : v \in W(x)
      BY SMTT(30), <2>3
    <3>2. v \in Replica /\ v \in V(x) /\ x \in 1 .. nblk /\ c \in 1 .. nblk
      BY SMTT(30), <1>1, <1>4, <1>11, <2>1, <3>1
    <3>3. /\ height'[x] = height[x] /\ height'[c] = height[c] /\ height'[b0] = height[b0]
          /\ anc'[c] = anc[c] /\ qc_ref'[c] = qc_ref[c] /\ qc_ref[qc_ref[x]] = b0
      BY <1>5, <1>11
    <3>4. height[x] < height[c]
      <4>1. height'[x] # height'[c]
        BY SMTT(30), <1>4, <3>1, <3>2 DEF VoteInv
      <4>2. height[x] \in Nat /\ height[c] \in Nat
        BY ZenonT(40), <1>11, TreeFacts
      <4>3. QED
        BY SMTT(30), <1>4, <3>3, <4>1, <4>2
    <3>5. \/ v \in V(c)
          \/ /\ b_lock[v] \in 0 .. nblk /\ height[b_lock[v]] <= height[lk]
             /\ height[qc_ref[c]] > height[lk] \/ lk \in anc[c]
      BY <1>1, <2>1, <3>1, <3>2, <3>3
    <3>6. PICK L \in 0 .. nblk : LockWitness(L, height[b0], c)
      <4>1. \E L \in 0 .. nblk : LockWitness(L, height[qc_ref[qc_ref[x]]], c)
        BY Zenon, <3>2, <3>4, <3>5, VoterLock
      <4>2. QED
        BY Zenon, <3>3, <4>1
    <3>7. PICK e \in 0 .. nblk : Certified(e) /\ height[e] >= height[b0] /\ b0 \notin anc[e]
      <4>1. b0 \notin anc[c]
        BY <1>6, <3>3
      <4>2. /\ Certified(L) /\ height[L] >= height[b0]
            /\ height[qc_ref[c]] > height[L] \/ L \in anc[c]
        BY Zenon, <3>6 DEF LockWitness
      <4>3. QED
        BY Zenon, <1>11, <4>1, <4>2, CertifiedOffBranch
    <3>8. QED
      BY ZenonT(40), <1>7, <1>11, <3>7
  <2>4. QED
    BY Zenon, <2>2, <2>3
<1>12. QED
  BY <1>8, <1>9, <1>10, <1>11

---------------------------------------------------------------------------
\* The part of a step that on_propose and on_receive_proposal share: replica r
\* updates its lock for block b, created by this step or before, and may vote for
\* it.  The step keeps the facts about votes and about chains.
LEMMA VoteStep ==
    ASSUME TypeOK, TypeOK', IndInv, TreeInv',
           NEW r \in Replica, NEW b \in 1 .. nblk', NEW d \in Replica, NEW vote \in BOOLEAN,
           nblk' = nblk \/ (nblk' = nblk + 1 /\ b = nblk + 1),
           \A x \in 0 .. nblk : /\ parent'[x] = parent[x] /\ qc_ref'[x] = qc_ref[x]
                                /\ height'[x] = height[x] /\ anc'[x] = anc[x],
           NEW q \in 0 .. nblk, q = qc_ref'[b], Certified(q),
           NEW lk, lk = NewLock(r, q),
           votes' = votes \cup IF vote THEN {<<r, b, d>>} ELSE {},
           vheight' = [vheight EXCEPT ![r] = IF vote THEN height'[b] ELSE @],
           b_lock' = [b_lock EXCEPT ![r] = lk],
           vote => /\ height'[b] > vheight[r]
                   /\ \/ height[q] > height[lk]
                      \/ lk \in anc'[b]
    PROVE  /\ VoteInv' /\ ChainInv'
           /\ \A x \in 0 .. nblk : Certified(x) => Certified(x)'
           /\ \A x \in 0 .. nblk : Voters(x) \subseteq Voters(x)'
           /\ \A x \in 1 .. nblk' : qc_ref'[x] \in 0 .. nblk /\ Certified(qc_ref'[x])
<1> DEFINE V(x) == Voters(x)
           W(x) == Voters(x)'
<1>a. nblk \in Nat /\ nblk' \in Nat /\ 0 .. nblk \subseteq 0 .. nblk'
  <2>1. nblk \in Nat
    BY TreeFacts DEF IndInv
  <2>2. QED
    BY <2>1
<1>b. TreeInv /\ RefInv /\ CertInv /\ LockInv /\ VoteInv /\ ChainInv
  BY DEF IndInv
<1>c. \A x \in 0 .. nblk' : height'[x] \in Nat /\ x \in Block
  <2>1. height' \in [Block -> Nat] /\ nblk' \in Block
    BY Zenon DEF TypeOK
  <2>2. 0 .. nblk' \subseteq Block
    BY <2>1, <1>a, MaxBlocksAssumption DEF Block
  <2>3. QED
    BY <2>1, <2>2
<1>d. \A v \in Replica : vheight[v] \in Nat /\ vheight'[v] \in Nat
  BY Zenon DEF TypeOK
<1>e. vheight \in [Replica -> Nat] /\ b_lock \in [Replica -> Block]
  BY Zenon DEF TypeOK
<1>0. /\ \A x : \A v \in Replica : v \in W(x) <=> v \in V(x) \/ (vote /\ v = r /\ x = b)
      /\ \A x : V(x) \subseteq Replica /\ W(x) \subseteq Replica
      /\ \A x : V(x) \subseteq W(x) /\ (x # b \/ ~vote => W(x) = V(x))
      /\ \A x \in Nat \ (0 .. nblk) : V(x) = {}
      /\ \A x : Certified(x) => Certified(x)'
  BY ZenonT(40), <1>a, <1>b, VotersStep
<1>1. ASSUME NEW x, NEW v \in Replica
      PROVE  v \in W(x) <=> v \in V(x) \/ (vote /\ v = r /\ x = b)
  BY <1>0
<1>4. \A x \in Nat \ (0 .. nblk) : V(x) = {}
  BY <1>0
<1>5. ASSUME NEW x, Certified(x) PROVE Certified(x)'
  BY <1>0, <1>5
<1>6. /\ lk \in 0 .. nblk /\ Certified(lk)
      /\ height[b_lock[r]] <= height[lk]
      /\ height[qc_ref[q]] <= height[lk]
  BY <1>b, LockStep
<1>7. b_lock'[r] = lk /\ \A v \in Replica \ {r} : b_lock'[v] = b_lock[v]
  BY <1>e
<1>8. /\ vheight'[r] = IF vote THEN height'[b] ELSE vheight[r]
      /\ \A v \in Replica \ {r} : vheight'[v] = vheight[v]
  BY <1>e
<1>9. \A v \in Replica : vheight[v] <= vheight'[v]
  BY SMTT(30), <1>c, <1>d, <1>8, <1>a
\* Locks do not go down.
<1>10. \A v \in Replica : /\ b_lock[v] \in 0 .. nblk /\ b_lock'[v] \in 0 .. nblk
                          /\ height[b_lock[v]] <= height[b_lock'[v]]
  <2>1. \A v \in Replica : b_lock[v] \in 0 .. nblk
    BY <1>b DEF RefInv
  <2>2. \A v \in Replica : height[b_lock[v]] \in Nat
    BY Zenon, <2>1, <1>b, TreeFacts
  <2>3. QED
    BY <1>6, <1>7, <2>1, <2>2
<1>11. \A v \in Replica : Certified(b_lock[v]) /\ Certified(b_lock'[v])
  BY <1>6, <1>7, <1>b DEF LockInv
\* Every justification names an old block, certified before the step.
<1>12. \A x \in 0 .. nblk' : /\ qc_ref'[x] \in 0 .. nblk
                              /\ Certified(qc_ref'[x])
  <2>1. ASSUME NEW x \in 0 .. nblk PROVE qc_ref'[x] \in 0 .. nblk /\ Certified(qc_ref'[x])
    <3>1. qc_ref'[x] = qc_ref[x]
      OBVIOUS
    <3>2. qc_ref[x] \in 0 .. nblk
      BY <1>b, TreeFacts
    <3>3. Certified(qc_ref[x])
      BY <1>b DEF CertInv
    <3>4. QED
      BY Zenon, <3>1, <3>2, <3>3
  <2>2. \A x \in 0 .. nblk' : x \in 0 .. nblk \/ x = b
    BY SMTT(40), <1>a
  <2>3. QED
    BY <2>1, <2>2
\* Votes: those of one replica go up, and its lock remembers the older ones.
<1>13. VoteInv'
  <2> DEFINE h0(x) == height[qc_ref[qc_ref[x]]]
  <2>1. ASSUME NEW v \in Replica, NEW x \in 1 .. nblk', v \in W(x)
        PROVE  \/ x \in 1 .. nblk /\ v \in V(x)
               \/ x = b /\ v = r /\ vote
    BY SMTT(30), <2>1, <1>1, <1>4, <1>a
  <2>2. ASSUME NEW x \in 0 .. nblk'
        PROVE  h0(x)' = height[qc_ref[qc_ref'[x]]] /\ h0(x)' \in Nat
    BY Zenon, <1>12, <1>a, <1>c
  <2>3. ASSUME NEW v \in Replica, NEW x \in 1 .. nblk, v \in V(x)
        PROVE  /\ height'[x] <= vheight[v]
               /\ h0(x)' = height[qc_ref[qc_ref[x]]]
               /\ h0(x)' <= height[b_lock[v]]
    <3>1. height[x] <= vheight[v] /\ height[qc_ref[qc_ref[x]]] <= height[b_lock[v]]
      BY <2>3, <1>b DEF VoteInv
    <3>2. x \in 0 .. nblk /\ x \in 0 .. nblk'
      BY SMTT(30), <1>a
    <3>3. QED
      BY SMTT(30), <3>1, <3>2, <2>2
  <2>4. ASSUME NEW v \in Replica, NEW x \in 1 .. nblk', v \in W(x)
        PROVE  height'[x] <= vheight'[v] /\ h0(x)' <= height'[b_lock'[v]]
    <3>1. CASE x \in 1 .. nblk /\ v \in V(x)
      <4>1. height'[x] \in Nat /\ h0(x)' \in Nat /\ height'[b_lock'[v]] \in Nat
        BY SMTT(30), <1>a, <1>c, <1>10, <2>2
      <4>2. height'[b_lock'[v]] = height[b_lock'[v]] /\ height[b_lock[v]] \in Nat
        BY ZenonT(40), <1>10, <1>a, <1>c
      <4>3. QED
        BY SMTT(30), <3>1, <2>3, <4>1, <4>2, <1>9, <1>10, <1>d
    <3>2. CASE x = b /\ v = r /\ vote
      <4>1. height'[x] <= vheight'[v]
        BY SMTT(40), <3>2, <1>8, <1>c, <1>a
      <4>2. h0(x)' = height[qc_ref[q]] /\ height'[b_lock'[v]] = height[lk]
        BY SMTT(40), <3>2, <2>2, <1>6, <1>7, <1>a
      <4>3. QED
        BY <4>1, <4>2, <1>6
    <3>3. QED
      BY ZenonT(40), <3>1, <3>2, <2>1, <2>4
  <2>5. ASSUME NEW v \in Replica, NEW x \in 1 .. nblk', NEW c \in 1 .. nblk',
               v \in W(x), v \in W(c)
        PROVE  /\ height'[x] = height'[c] => x = c
               /\ height'[x] < height'[c] =>
                    \E L \in 0 .. nblk' : LockWitness(L, h0(x), c)'
    <3>1. height'[x] \in Nat /\ height'[c] \in Nat /\ vheight[v] \in Nat
      BY SMTT(30), <1>a, <1>c, <1>d
    <3>2. CASE x \in 1 .. nblk /\ v \in V(x) /\ c \in 1 .. nblk /\ v \in V(c)
      <4>1. x \in 0 .. nblk /\ c \in 0 .. nblk
        BY SMTT(30), <3>2, <1>a
      <4>2. height'[x] = height[x] /\ height'[c] = height[c]
        BY Zenon, <4>1
      <4>3. height[x] = height[c] => x = c
        BY Zenon, <3>2, <1>b DEF VoteInv
      <4>4. ASSUME height[x] < height[c]
            PROVE  \E L \in 0 .. nblk' : LockWitness(L, h0(x), c)'
        <5>1. PICK L \in 0 .. nblk : LockWitness(L, height[qc_ref[qc_ref[x]]], c)
          BY Zenon, <3>2, <4>4, <1>b DEF VoteInv
        <5>2. Certified(L) /\ height[L] >= h0(x)'
          BY ZenonT(40), <3>2, <5>1, <2>3 DEF LockWitness
        <5>3. height[qc_ref[c]] > height[L] \/ L \in anc[c]
          BY <5>1 DEF LockWitness
        <5>4. qc_ref'[c] = qc_ref[c] /\ qc_ref[c] \in 0 .. nblk
          BY Zenon, <4>1, <1>12, <1>a
        <5>5. height'[qc_ref'[c]] > height'[L] \/ L \in anc'[c]
          BY SMTT(30), <5>3, <5>4, <4>1
        <5>6. height'[L] >= h0(x)' /\ Certified(L)' /\ L \in 0 .. nblk'
          BY Zenon, <5>2, <1>5, <1>a
        <5>7. QED
          BY Zenon, <5>5, <5>6 DEF LockWitness
      <4>5. QED
        BY Zenon, <4>2, <4>3, <4>4
    <3>3. CASE x \in 1 .. nblk /\ v \in V(x) /\ c = b /\ v = r /\ vote
      <4>1. height'[x] < height'[c]
        BY SMTT(40), <3>1, <3>3, <2>3
      <4>2. Certified(lk)' /\ lk \in 0 .. nblk'
        BY Zenon, <1>5, <1>6, <1>a
      <4>3. h0(x)' <= height'[lk]
        BY Zenon, <3>3, <2>4, <2>5, <1>7
      <4>4. height'[q] = height[q] /\ height'[lk] = height[lk]
        BY Zenon, <1>6
      <4>5. height'[qc_ref'[c]] > height'[lk] \/ lk \in anc'[c]
        BY Zenon, <3>3, <4>4
      <4>6. h0(x)' \in Nat /\ height'[lk] \in Nat
        BY SMTT(30), <2>2, <1>6, <1>a, <1>c
      <4>7. \E L \in 0 .. nblk' : LockWitness(L, h0(x), c)'
        <5>1. height'[lk] >= h0(x)'
          BY <4>3, <4>6
        <5>2. LockWitness(lk, h0(x), c)'
          BY ZenonT(40), <5>1, <4>2, <4>5 DEF LockWitness
        <5>3. QED
          BY ZenonT(40), <4>2, <5>2
      <4>8. QED
        BY SMTT(30), <4>1, <4>7, <3>1
    <3>4. CASE x = b /\ v = r /\ vote /\ c \in 1 .. nblk /\ v \in V(c)
      BY SMTT(40), <3>1, <3>4, <2>3
    <3>5. CASE x = b /\ c = b
      BY SMTT(40), <3>1, <3>5
    <3>6. QED
      BY ZenonT(40), <3>2, <3>3, <3>4, <3>5, <2>1, <2>5
  <2>6. QED
    BY <2>4, <2>5 DEF VoteInv
\* The members of a dead quorum have voted higher and will not vote for x.
<1>14. ASSUME NEW x \in 0 .. nblk, Dead(x) PROVE Dead(x)'
  <2>1. PICK Q \in SUBSET Replica :
          Quorum(Q) /\ \A v \in Q : vheight[v] >= height[x] /\ v \notin V(x)
    BY Zenon, <1>14 DEF Dead
  <2>2. ASSUME NEW v \in Q PROVE vheight'[v] >= height'[x] /\ v \notin W(x)
    <3>1. /\ vheight[v] \in Nat /\ vheight'[v] \in Nat /\ height'[x] \in Nat
          /\ height'[x] = height[x] /\ vheight[v] <= vheight'[v]
      BY ZenonT(40), <1>a, <1>c, <1>d, <1>9
    <3>2. vheight'[v] >= height'[x]
      BY SMTT(30), <2>1, <3>1
    <3>3. ~(vote /\ v = r /\ x = b)
      BY <2>1, <3>1
    <3>4. QED
      BY Zenon, <1>1, <2>1, <3>2, <3>3
  <2>3. QED
    BY Zenon, <2>1, <2>2 DEF Dead
<1>15. UniqueCertificate'
  BY <1>13, CertUniqueNext
<1>16. ChainInv'
  <2>1. \A x \in 0 .. nblk : Dead(x) => Dead(x)'
    BY Zenon, <1>14
  <2>2. lk \in 0 .. nblk /\ Certified(lk) /\ height[b_lock[r]] <= height[lk]
    BY <1>6
  <2>3. b_lock[r] \in 0 .. nblk
    BY ZenonT(40), <1>10
  <2>4. QED
    BY ZenonT(40), <2>1, <2>2, <2>3, <1>a, <1>b, <1>12, <1>13, <1>15, ChainStep
<1>17. QED
  BY SMTT(30), <1>0, <1>5, <1>12, <1>13, <1>16, <1>a

\* A proposed block extends the tree.
LEMMA TreeGrows ==
    ASSUME TypeOK, TreeInv,
           NEW b, b = nblk + 1, nblk' = b,
           NEW p \in 0 .. nblk, NEW q \in 0 .. nblk, q \in anc[p],
           \A x \in 0 .. nblk : /\ parent'[x] = parent[x] /\ qc_ref'[x] = qc_ref[x]
                                /\ height'[x] = height[x] /\ anc'[x] = anc[x],
           /\ parent'[b] = p /\ qc_ref'[b] = q
           /\ height'[b] = height[p] + 1 /\ anc'[b] = anc[p] \cup {b}
    PROVE  TreeInv'
<1>b. /\ nblk \in Nat /\ \A x \in 0 .. nblk : x \in Block /\ x # b /\ height[x] \in Nat
      /\ \A x \in 0 .. nblk : anc[x] \subseteq 0 .. nblk
  BY TreeFacts
<1>1. \A x \in 0 .. nblk : /\ parent'[x] = parent[x] /\ qc_ref'[x] = qc_ref[x]
                           /\ height'[x] = height[x] /\ anc'[x] = anc[x]
  OBVIOUS
<1>2. parent'[b] = p /\ qc_ref'[b] = q /\ height'[b] = height[p] + 1 /\ anc'[b] = anc[p] \cup {b}
  OBVIOUS
<1>3. Genesis \in 0 .. nblk /\ \A x \in 1 .. nblk' : x \in 1 .. nblk \/ x = b
  BY <1>b DEF Genesis
<1>4. \A x \in 0 .. nblk' : x \in 0 .. nblk \/ x = b
  BY SMTT(30), <1>b
<1>5. /\ parent'[Genesis] = Genesis /\ qc_ref'[Genesis] = Genesis
      /\ height'[Genesis] = 0 /\ anc'[Genesis] = {Genesis}
  BY Zenon, <1>1, <1>3 DEF TreeInv
<1>6. ASSUME NEW x \in 1 .. nblk'
      PROVE  /\ parent'[x] < x
             /\ height'[x] = height'[parent'[x]] + 1
             /\ anc'[x] = anc'[parent'[x]] \cup {x}
             /\ qc_ref'[x] \in anc'[parent'[x]]
  <2>1. CASE x = b
    BY SMTT(30), <1>1, <1>2, <1>b, <2>1
  <2>2. CASE x \in 1 .. nblk
    <3>1. x \in 0 .. nblk /\ parent[x] \in 0 .. nblk
      BY SMTT(30), <2>2, <1>b, TreeFacts
    <3>2. QED
      BY SMTT(30), <1>1, <2>2, <3>1 DEF TreeInv
  <2>3. QED
    BY SMTT(30), <1>3, <2>1, <2>2
<1>7. ASSUME NEW x \in 0 .. nblk
      PROVE  /\ {Genesis, x} \subseteq anc[x]
             /\ anc[x] \subseteq 0 .. x
             /\ height[x] <= x
             /\ \A a \in anc[x] : /\ anc[a] \subseteq anc[x]
                                  /\ a # x => height[a] < height[x]
             /\ \A a, c \in anc[x] : height[a] <= height[c] => a \in anc[c]
  BY DEF TreeInv
<1>8. ASSUME NEW x \in 0 .. nblk'
      PROVE  /\ {Genesis, x} \subseteq anc'[x]
             /\ anc'[x] \subseteq 0 .. x
             /\ height'[x] <= x
             /\ \A a \in anc'[x] : /\ anc'[a] \subseteq anc'[x]
                                   /\ a # x => height'[a] < height'[x]
             /\ \A a, c \in anc'[x] : height'[a] <= height'[c] => a \in anc'[c]
  <2>1. CASE x \in 0 .. nblk
    <3>1. \A a \in anc[x] : a \in 0 .. nblk
      BY <1>b, <2>1
    <3>2. QED
      BY <1>1, <1>7, <2>1, <3>1
  <2>2. CASE x = b
    <3>1. \A a \in anc[p] : /\ a \in 0 .. nblk /\ height'[a] = height[a] /\ anc'[a] = anc[a]
                            /\ height[a] \in Nat
      BY <1>1, <1>b
    <3>2. {Genesis, x} \subseteq anc'[x] /\ anc'[x] \subseteq 0 .. x
      BY SMTT(30), <1>2, <1>7, <1>b, <2>2
    <3>3. height'[x] <= x
      BY SMTT(30), <1>2, <1>7, <1>b, <2>2
    <3>4. \A a \in anc[p] : height'[a] < height'[b]
      BY SMTT(30), <1>2, <1>7, <1>b, <3>1
    <3>5. ASSUME NEW a \in anc'[x]
          PROVE  anc'[a] \subseteq anc'[x] /\ (a # x => height'[a] < height'[x])
      BY SMTT(30), <1>2, <1>7, <2>2, <3>1, <3>4
    <3>6. ASSUME NEW a \in anc'[x], NEW c \in anc'[x], height'[a] <= height'[c]
          PROVE  a \in anc'[c]
      <4>1. CASE c = b
        BY SMTT(30), <2>2, <4>1, <3>6
      <4>2. CASE c # b
        <5>1. c \in anc[p]
          BY <1>2, <2>2, <4>2
        <5>2. a # b
          <6>1. height'[c] < height'[b] /\ height'[c] \in Nat /\ height'[b] \in Nat
            BY SMTT(30), <1>2, <1>b, <3>1, <3>4, <5>1
          <6>2. QED
            BY <6>1, <3>6
        <5>3. a \in anc[p]
          BY <1>2, <2>2, <5>2
        <5>4. QED
          BY SMTT(30), <1>7, <3>1, <3>6, <5>1, <5>3
      <4>3. QED
        BY <4>1, <4>2
    <3>7. QED
      BY Zenon, <3>2, <3>3, <3>5, <3>6
  <2>3. QED
    BY Zenon, <1>4, <2>1, <2>2
<1>9. QED
  BY SMTT(30), <1>5, <1>6, <1>8 DEF TreeInv

\* on_propose keeps the invariant.
LEMMA ProposeStep ==
    ASSUME TypeOK, TypeOK', IndInv, NEW r \in Proposers, OnPropose(r)
    PROVE  IndInv'
<1>a. TreeInv /\ RefInv /\ CertInv /\ LockInv /\ NoSafetyBreach
  BY DEF IndInv
<1>b. r \in Replica
  BY ProposersAssumption
<1>c. /\ hqc[r] \in 0 .. nblk /\ hqc_tail[r] \in 0 .. nblk /\ hqc[r] \in anc[hqc_tail[r]]
      /\ Certified(hqc[r])
  BY Zenon, <1>a, <1>b DEF RefInv, LockInv
<1>d. PICK b \in {nblk + 1}, p \in 0 .. nblk, q \in 0 .. nblk, lk \in {NewLock(r, hqc[r])} :
        b = nblk + 1 /\ p = hqc_tail[r] /\ q = hqc[r] /\ lk = NewLock(r, q)
  BY ZenonT(40), <1>c
<1>e. q \in anc[p] /\ Certified(q) /\ ~Breach(r, q)
  BY <1>a, <1>b, <1>c, <1>d, UpdateStep
<1>1. PICK vote \in BOOLEAN, sent \in BOOLEAN :
        /\ nblk < MaxBlocks
        /\ nblk' = b
        /\ parent' = [parent EXCEPT ![b] = p]
        /\ qc_ref' = [qc_ref EXCEPT ![b] = q]
        /\ height' = [height EXCEPT ![b] = height[p] + 1]
        /\ anc' = [anc EXCEPT ![b] = anc[p] \cup {b}]
        /\ delivered' = [delivered EXCEPT ![r] = @ \cup {b}]
        /\ b_lock' = [b_lock EXCEPT ![r] = NewLock(r, q)]
        /\ b_exec' = [b_exec EXCEPT ![r] = NewExec(r, q)]
        /\ vheight' = [vheight EXCEPT ![r] = IF vote THEN height[p] + 1 ELSE @]
        /\ votes' = votes \cup IF vote THEN {<<r, b, r>>} ELSE {}
        /\ voted' = [voted EXCEPT ![r][b] = IF vote THEN {r} ELSE @]
        /\ proposals' = proposals \cup IF sent THEN {<<r, b>>} ELSE {}
        /\ hqc_tail' = [hqc_tail EXCEPT ![r] = IF sent THEN b ELSE @]
        /\ vote => /\ height[p] + 1 > vheight[r]
                   /\ SafeToVote(lk, q, anc[p] \cup {b})
  BY Zenon, <1>d DEF OnPropose
<1>2. hqc' = hqc /\ \E x \in {status[r], "not above vheight"} : status' = [status EXCEPT ![r] = x]
  BY ZenonT(40), <1>d, <1>e DEF OnPropose
<1>3. nblk \in Nat /\ b \in Block /\ b \in 1 .. nblk' /\ 0 .. nblk \subseteq 0 .. nblk' /\ nblk' \in Nat
  <2>1. nblk \in Nat
    BY <1>a, TreeFacts
  <2>2. QED
    BY SMTT(30), <2>1, <1>1, <1>d, MaxBlocksAssumption DEF Block
<1>4. /\ TreeInv'
      /\ \A x \in 0 .. nblk : /\ parent'[x] = parent[x] /\ qc_ref'[x] = qc_ref[x]
                              /\ height'[x] = height[x] /\ anc'[x] = anc[x]
      /\ qc_ref'[b] = q /\ height'[b] = height[p] + 1 /\ anc'[b] = anc[p] \cup {b}
  <2>1. /\ parent \in [Block -> Block] /\ qc_ref \in [Block -> Block]
        /\ height \in [Block -> Nat] /\ anc \in [Block -> SUBSET Block]
    BY Zenon DEF TypeOK
  <2>2. \A x \in 0 .. nblk : x \in Block /\ x # b
    BY SMTT(60), <1>3, <1>a, <1>d, TreeFacts
  <2>3. \A x \in 0 .. nblk : /\ parent'[x] = parent[x] /\ qc_ref'[x] = qc_ref[x]
                             /\ height'[x] = height[x] /\ anc'[x] = anc[x]
    BY ZenonT(40), <1>1, <2>1, <2>2
  <2>4. /\ parent'[b] = p /\ qc_ref'[b] = q
        /\ height'[b] = height[p] + 1 /\ anc'[b] = anc[p] \cup {b}
    BY <1>1, <1>3, <2>1
  <2>5. b = nblk + 1 /\ nblk' = b /\ q \in anc[p] /\ TreeInv
    BY ZenonT(40), <1>1, <1>a, <1>d, <1>e
  <2>6. TreeInv'
    BY <2>3, <2>4, <2>5, TreeGrows
  <2>7. QED
    BY <2>3, <2>4, <2>6
<1>5. /\ VoteInv' /\ ChainInv'
      /\ \A x \in 0 .. nblk : Certified(x) => Certified(x)'
      /\ \A x \in 0 .. nblk : Voters(x) \subseteq Voters(x)'
      /\ \A x \in 1 .. nblk' : qc_ref'[x] \in 0 .. nblk /\ Certified(qc_ref'[x])
  <2>1. vote => height'[b] > vheight[r] /\ (height[q] > height[lk] \/ lk \in anc'[b])
    BY Zenon, <1>1, <1>4 DEF SafeToVote
  <2>2. /\ b \in 1 .. nblk' /\ r \in Replica /\ TreeInv'
        /\ nblk' = nblk + 1 /\ b = nblk + 1
        /\ q = qc_ref'[b] /\ Certified(q) /\ lk = NewLock(r, q)
        /\ \A x \in 0 .. nblk : /\ parent'[x] = parent[x] /\ qc_ref'[x] = qc_ref[x]
                                /\ height'[x] = height[x] /\ anc'[x] = anc[x]
    BY Zenon, <1>1, <1>3, <1>4, <1>b, <1>d, <1>e
  <2>3. /\ votes' = votes \cup IF vote THEN {<<r, b, r>>} ELSE {}
        /\ vheight' = [vheight EXCEPT ![r] = IF vote THEN height'[b] ELSE @]
        /\ b_lock' = [b_lock EXCEPT ![r] = lk]
    BY ZenonT(40), <1>1, <1>4, <1>d
  <2>4. QED
    BY ZenonT(40), <2>1, <2>2, <2>3, VoteStep
<1>6. RefInv'
  <2>1. /\ \A m \in proposals : m[2] \in 1 .. nblk
        /\ \A m \in votes : m[2] \in 1 .. nblk
    BY <1>a DEF RefInv
  <2>2. (\A m \in proposals : m[2] \in 1 .. nblk)'
    BY SMTT(30), <1>1, <1>3, <2>1
  <2>3. (\A m \in votes : m[2] \in 1 .. nblk)'
    BY <1>1, <1>3, <2>1
  <2>4. /\ delivered \in [Replica -> SUBSET Block] /\ hqc_tail \in [Replica -> Block]
        /\ b_lock \in [Replica -> Block] /\ b_exec \in [Replica -> Block]
    BY Zenon DEF TypeOK
  <2>5. NewLock(r, q) \in 0 .. nblk /\ NewExec(r, q) \in 0 .. nblk
    BY ZenonT(40), <1>a, <1>b, <1>e, LockStep, UpdateStep
  <2>6. ASSUME NEW s \in Replica
        PROVE  /\ delivered[s] \subseteq 0 .. nblk
               /\ hqc[s] \in 0 .. nblk /\ hqc_tail[s] \in 0 .. nblk
               /\ b_lock[s] \in 0 .. nblk /\ b_exec[s] \in 0 .. nblk
               /\ hqc[s] \in anc[hqc_tail[s]]
    BY SMTT(30), <1>a DEF RefInv
  <2>7. ASSUME NEW s \in Replica
        PROVE  /\ delivered'[s] \subseteq 0 .. nblk'
               /\ b_lock'[s] \in 0 .. nblk' /\ b_exec'[s] \in 0 .. nblk'
    BY SMTT(40), <1>1, <1>3, <2>4, <2>5, <2>6
  <2>8. ASSUME NEW s \in Replica
        PROVE  hqc'[s] \in 0 .. nblk' /\ hqc_tail'[s] \in 0 .. nblk' /\ hqc'[s] \in anc'[hqc_tail'[s]]
    <3>1. CASE hqc_tail'[s] = hqc_tail[s]
      BY ZenonT(40), <1>2, <1>3, <1>4, <2>6, <3>1
    <3>2. CASE s = r /\ hqc_tail'[s] = b
      <4>1. hqc'[s] = q /\ anc'[b] = anc[p] \cup {b} /\ q \in anc[p]
        BY ZenonT(40), <1>2, <1>4, <1>d, <1>e, <3>2
      <4>2. q \in 0 .. nblk' /\ b \in 0 .. nblk'
        BY SMTT(30), <1>3
      <4>3. QED
        BY <3>2, <4>1, <4>2
    <3>3. QED
      BY SMTT(30), <1>1, <1>b, <2>4, <3>1, <3>2
  <2>9. QED
    BY ZenonT(40), <2>2, <2>3, <2>7, <2>8 DEF RefInv
<1>7. CertInv'
  <2>1. ASSUME NEW s \in Replica, NEW x \in Block \ {Genesis}
        PROVE  voted'[s][x] \subseteq Voters(x)'
    <3>1. voted \in [Replica -> [Block -> SUBSET Replica]] /\ voted[s][x] \subseteq Voters(x)
      BY ZenonT(40), <1>a DEF TypeOK, CertInv
    <3>2. Voters(x) \subseteq Voters(x)'
      BY <1>1 DEF Voters
    <3>3. CASE s = r /\ x = b /\ vote
      <4>1. voted'[s][x] = {r}
        BY ZenonT(40), <1>1, <1>3, <1>b, <3>1, <3>3
      <4>2. r \in Voters(x)'
        BY <1>1, <1>b, <3>3 DEF Voters
      <4>3. QED
        BY ZenonT(40), <4>1, <4>2
    <3>4. CASE ~(s = r /\ x = b /\ vote)
      <4>1. voted'[s][x] = voted[s][x]
        BY Zenon, <1>1, <1>3, <1>b, <3>1, <3>4
      <4>2. QED
        BY ZenonT(40), <3>1, <3>2, <4>1
    <3>5. QED
      BY <3>3, <3>4
  <2>2. ASSUME NEW x \in 0 .. nblk' PROVE Certified(qc_ref[x])'
    <3>1. CASE x = Genesis
      BY SMTT(30), <1>4, <3>1 DEF TreeInv, Certified
    <3>2. CASE x # Genesis
      <4>1. PICK y \in 0 .. nblk : y = qc_ref'[x] /\ Certified(y)
        BY <1>3, <1>5, <3>2 DEF Genesis
      <4>2. Certified(y)'
        BY Zenon, <1>5, <4>1
      <4>3. QED
        BY <4>1, <4>2 DEF Certified
    <3>3. QED
      BY ZenonT(40), <3>1, <3>2
  <2>3. QED
    BY ZenonT(40), <2>1, <2>2 DEF CertInv
<1>8. LockInv'
  <2>1. NewHqc(r, q) = q
    BY <1>d DEF NewHqc
  <2>2. hqc' = [hqc EXCEPT ![r] = q]
    <3>1. hqc \in [Replica -> Block]
      BY Zenon DEF TypeOK
    <3>2. QED
      BY Zenon, <3>1, <1>2, <1>d
  <2>3. Certified(q)' /\ height[q] >= height[NewHqc(r, q)]
    <3>1. height[q] \in Nat
      BY Zenon, <1>a, TreeFacts
    <3>2. QED
      BY SMTT(60), <1>5, <1>e, <2>1, <3>1
  <2>4. QED
    BY ZenonT(40), <1>1, <1>3, <1>4, <1>5, <1>b, <1>e, <2>2, <2>3, LockInvStep
<1>9. NoSafetyBreach'
  <2>1. status \in [Replica -> {"up", "safety breached", "not above vheight"}]
    BY Zenon DEF TypeOK
  <2>2. QED
    BY Zenon, <1>2, <1>a, <1>b, <2>1 DEF NoSafetyBreach
<1>10. QED
  BY <1>4, <1>5, <1>6, <1>7, <1>8, <1>9 DEF IndInv

=============================================================================
