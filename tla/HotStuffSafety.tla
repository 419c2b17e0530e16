--------------------------- MODULE HotStuffSafety ---------------------------
(***************************************************************************)
(* Safety of the consensus core: IndInv is an invariant of HotStuffCore,   *)
(* and the properties of HotStuffCore follow from it, for every set of     *)
(* replicas, of proposers and every number of blocks.                      *)
(***************************************************************************)
EXTENDS HotStuffVotes

---------------------------------------------------------------------------
(* The invariant is inductive *)

\* The facts that only read the tree, the votes and what voters remember survive a
\* step that leaves those alone.
LEMMA SameVotes ==
    ASSUME UNCHANGED <<nblk, parent, qc_ref, height, anc, votes, b_lock, vheight>>
    PROVE  /\ \A x : Voters(x)' = Voters(x)
           /\ \A x : Certified(x)' <=> Certified(x)
           /\ \A x : DirectChain(x)' <=> DirectChain(x)
           /\ TreeInv => TreeInv'
           /\ VoteInv => VoteInv'
           /\ ChainInv => ChainInv'
<1>1. ASSUME NEW x PROVE Voters(x)' = Voters(x)
  BY DEF Voters
<1>2. ASSUME NEW x PROVE Certified(x)' <=> Certified(x)
  BY <1>1 DEF Certified
<1>3. ASSUME NEW x PROVE DirectChain(x)' <=> DirectChain(x)
  BY DEF DirectChain
<1>4. TreeInv => TreeInv'
  <2> SUFFICES ASSUME TreeInv PROVE TreeInv'
    OBVIOUS
  <2>1. (/\ parent[Genesis] = Genesis /\ qc_ref[Genesis] = Genesis
         /\ height[Genesis] = 0 /\ anc[Genesis] = {Genesis})'
    BY ZenonT(40) DEF TreeInv, Genesis
  <2>2. \A b \in 1 .. nblk' : /\ parent'[b] < b
                             /\ height'[b] = height'[parent'[b]] + 1
                             /\ anc'[b] = anc'[parent'[b]] \cup {b}
                             /\ qc_ref'[b] \in anc'[parent'[b]]
    BY Zenon DEF TreeInv
  <2>3. \A b \in 0 .. nblk' : /\ {Genesis, b} \subseteq anc'[b]
                             /\ anc'[b] \subseteq 0 .. b
                             /\ height'[b] <= b
                             /\ \A a \in anc'[b] : /\ anc'[a] \subseteq anc'[b]
                                                  /\ a # b => height'[a] < height'[b]
    BY Zenon DEF TreeInv
  <2>4. \A b \in 0 .. nblk' : \A a, c \in anc'[b] : height'[a] <= height'[c] => a \in anc'[c]
    BY SMTT(40) DEF TreeInv
  <2>5. QED
    BY Zenon, <2>1, <2>2, <2>3, <2>4 DEF TreeInv
<1>5. ASSUME VoteInv PROVE VoteInv'
  <2>1. ASSUME NEW L, NEW h, NEW c PROVE LockWitness(L, h, c)' <=> LockWitness(L, h, c)
    BY Zenon, <1>2 DEF LockWitness
  <2>2. SUFFICES ASSUME NEW v \in Replica, NEW b \in 1 .. nblk, v \in Voters(b)
                 PROVE  /\ height[b] <= vheight[v]
                        /\ height[qc_ref[qc_ref[b]]] <= height[b_lock[v]]
                        /\ \A c \in 1 .. nblk : v \in Voters(c) =>
                              /\ height[b] = height[c] => b = c
                              /\ height[b] < height[c] =>
                                   \E L \in 0 .. nblk : LockWitness(L, height[qc_ref[qc_ref[b]]], c)'
    BY <1>1 DEF VoteInv
  <2>3. QED
    BY <1>5, <2>1, <2>2 DEF VoteInv
<1>6. ASSUME ChainInv PROVE ChainInv'
  <2>1. ASSUME NEW x PROVE Dead(x)' <=> Dead(x)
    BY <1>1 DEF Dead
  <2>2. QED
    BY Zenon, <1>2, <1>3, <1>6, <2>1 DEF ChainInv
<1>7. QED
  BY <1>1, <1>2, <1>3, <1>4, <1>5, <1>6

\* on_deliver_blk keeps the invariant.
LEMMA DeliverStep ==
    ASSUME TypeOK, IndInv, NEW r \in Replica, NEW m \in proposals, NEW b \in anc[m[2]],
           OnDeliverBlk(r, b)
    PROVE  IndInv'
<1>1. /\ delivered' = [delivered EXCEPT ![r] = @ \cup {b}]
      /\ UNCHANGED <<nblk, tree, proposals, votes, voted, hqc, hqc_tail, b_lock,
                     b_exec, vheight, status>>
  BY DEF OnDeliverBlk
<1>2. UNCHANGED <<nblk, parent, qc_ref, height, anc, proposals, votes, voted, hqc, hqc_tail,
                  b_lock, b_exec, vheight, status>>
  BY <1>1 DEF tree
<1>3. TreeInv' /\ VoteInv' /\ ChainInv'
  BY <1>2, SameVotes DEF IndInv
<1>4. LockInv'
  BY ZenonT(40), <1>2 DEF IndInv, LockInv, Certified, Voters, DirectChain
<1>5. CertInv'
  BY Zenon, <1>2 DEF IndInv, CertInv, Certified, Voters
<1>6. NoSafetyBreach'
  BY ZenonT(40), <1>2 DEF IndInv, NoSafetyBreach
<1>7. RefInv'
  <2>1. RefInv /\ b \in 0 .. nblk
    <3>1. TreeInv /\ RefInv /\ m[2] \in 1 .. nblk
      BY Zenon DEF IndInv, RefInv
    <3>2. m[2] \in 0 .. nblk
      BY <3>1
    <3>3. anc[m[2]] \subseteq 0 .. nblk
      BY Zenon, <3>1, <3>2, TreeFacts
    <3>4. QED
      BY <3>1, <3>3
  <2>2. delivered \in [Replica -> SUBSET Block]
    BY Zenon DEF TypeOK
  <2>3. \A s \in Replica : delivered'[s] \subseteq 0 .. nblk
    BY Zenon, <1>1, <2>1, <2>2 DEF RefInv
  <2>4. QED
    BY <1>2, <2>1, <2>3 DEF RefInv
<1>8. QED
  BY <1>3, <1>4, <1>5, <1>6, <1>7 DEF IndInv

\* A step that changes nothing the invariant reads keeps it.
LEMMA StutterStep == IndInv /\ UNCHANGED vars => IndInv'
<1> SUFFICES ASSUME IndInv, UNCHANGED vars PROVE IndInv'
  OBVIOUS
<1>1. UNCHANGED <<nblk, parent, qc_ref, height, anc, proposals, votes, delivered, voted, hqc,
                  hqc_tail, b_lock, b_exec, vheight, status>>
  BY DEF vars, tree
<1>2. TreeInv' /\ VoteInv' /\ ChainInv'
  BY Zenon, <1>1, SameVotes DEF IndInv
<1>3. LockInv'
  BY ZenonT(40), <1>1 DEF IndInv, LockInv, Certified, Voters, DirectChain
<1>4. CertInv'
  BY Zenon, <1>1 DEF IndInv, CertInv, Certified, Voters
<1>5. RefInv' /\ NoSafetyBreach'
  BY Zenon, <1>1 DEF IndInv, RefInv, NoSafetyBreach
<1>6. QED
  BY <1>2, <1>3, <1>4, <1>5 DEF IndInv

\* on_receive_vote keeps the invariant.
LEMMA ReceiveVoteStep ==
    ASSUME TypeOK, IndInv, NEW r \in Replica, NEW v \in Replica, NEW b \in 1 .. nblk,
           v \in Voters(b), OnReceiveVote(r, v, b)
    PROVE  IndInv'
<1>a. TreeInv /\ RefInv /\ CertInv /\ LockInv
  BY DEF IndInv
<1>b. PICK h \in {hqc[r], b} :
        /\ h = IF Completes(v, voted[r][b]) /\ height[b] > height[hqc[r]] THEN b ELSE hqc[r]
        /\ hqc' = [hqc EXCEPT ![r] = h]
        /\ \E t \in IF h # hqc[r] THEN HighTails(h, delivered[r]) ELSE {hqc_tail[r]} :
              hqc_tail' = [hqc_tail EXCEPT ![r] = t]
  BY Zenon DEF OnReceiveVote
<1>c. /\ voted' = [voted EXCEPT ![r][b] = AddVote(v, @)]
      /\ UNCHANGED <<nblk, tree, proposals, votes, delivered, b_lock, b_exec, vheight, status>>
  BY DEF OnReceiveVote
<1>d. UNCHANGED <<nblk, parent, qc_ref, height, anc, proposals, votes, delivered, b_lock, b_exec,
                  vheight, status>>
  BY <1>c DEF tree
<1>e. /\ voted \in [Replica -> [Block -> SUBSET Replica]]
      /\ hqc \in [Replica -> Block] /\ hqc_tail \in [Replica -> Block]
  BY Zenon DEF TypeOK
<1>f. nblk \in Nat /\ b \in 0 .. nblk /\ b \in Block \ {Genesis} /\ hqc[r] \in 0 .. nblk
      /\ hqc_tail[r] \in 0 .. nblk /\ hqc[r] \in anc[hqc_tail[r]] /\ height[b] \in Nat
      /\ height[hqc[r]] \in Nat
  <2>1. nblk \in Nat
    BY Zenon, <1>a, TreeFacts
  <2>2. b \in 0 .. nblk /\ b # Genesis
    BY <2>1 DEF Genesis
  <2>3. hqc[r] \in 0 .. nblk /\ hqc_tail[r] \in 0 .. nblk /\ hqc[r] \in anc[hqc_tail[r]]
    BY <1>a DEF RefInv
  <2>4. QED
    BY Zenon, <1>a, <2>1, <2>2, <2>3, TreeFacts
<1>1. TreeInv' /\ VoteInv' /\ ChainInv'
  BY <1>d, SameVotes DEF IndInv
<1>2. NoSafetyBreach'
  BY Zenon, <1>d DEF IndInv, NoSafetyBreach
<1>3. /\ \A x : Certified(x)' <=> Certified(x)
      /\ \A x : DirectChain(x)' <=> DirectChain(x)
  BY <1>d, SameVotes
<1>4. \A x : Voters(x)' = Voters(x)
  BY <1>d DEF Voters
<1>5. h \in 0 .. nblk /\ Certified(h) /\ height[hqc[r]] <= height[h]
  <2>1. CASE h = hqc[r]
    BY SMTT(40), <1>a, <1>f, <2>1 DEF LockInv
  <2>2. CASE h # hqc[r]
    <3>1. h = b /\ Completes(v, voted[r][b]) /\ height[b] > height[hqc[r]]
      BY <1>b, <2>2
    <3>2. voted[r][b] \in SUBSET Replica /\ voted[r][b] \subseteq Voters(b)
      BY SMTT(40), <1>a, <1>e, <1>f DEF CertInv
    <3>3. Quorum(voted[r][b] \cup {v})
      BY <3>1, <3>2, CompletesQuorum
    <3>4. Quorum(Voters(b))
      <4>1. Voters(b) \subseteq Replica
        BY Zenon DEF Voters
      <4>2. QED
        BY <3>2, <3>3, <4>1, QuorumGrows
    <3>5. QED
      BY SMTT(60), <3>1, <3>4, <1>f DEF Certified
  <2>3. QED
    BY Zenon, <2>1, <2>2
<1>6. CertInv'
  <2>1. ASSUME NEW s \in Replica, NEW x \in Block \ {Genesis}
        PROVE  voted'[s][x] \subseteq Voters(x)'
    <3>1. voted[s][x] \subseteq Voters(x)
      BY <1>a DEF CertInv
    <3>2. voted'[s][x] \subseteq voted[s][x] \cup (IF x = b THEN {v} ELSE {})
      BY Zenon, <1>c, <1>e, <1>f DEF AddVote
    <3>3. QED
      BY <1>4, <3>1, <3>2
  <2>2. \A x \in 0 .. nblk' : Certified(qc_ref[x])'
    BY Zenon, <1>a, <1>d DEF CertInv, Certified, Voters
  <2>3. QED
    BY <2>1, <2>2 DEF CertInv
<1>7. RefInv'
  <2>1. PICK t \in 0 .. nblk : h \in anc[t] /\ hqc_tail' = [hqc_tail EXCEPT ![r] = t]
    <3>1. CASE h = hqc[r]
      BY Zenon, <1>b, <1>f, <3>1
    <3>2. CASE h # hqc[r]
      <4>1. PICK t \in HighTails(h, delivered[r]) : hqc_tail' = [hqc_tail EXCEPT ![r] = t]
        BY Zenon, <1>b, <3>2
      <4>2. t \in 0 .. nblk /\ h \in anc[t]
        BY Zenon, <1>a, <1>5, HighTailsFollow
      <4>3. QED
        BY Zenon, <4>1, <4>2
    <3>3. QED
      BY <3>1, <3>2
  <2>2. ASSUME NEW s \in Replica
        PROVE  /\ hqc[s] \in 0 .. nblk /\ hqc_tail[s] \in 0 .. nblk
               /\ hqc[s] \in anc[hqc_tail[s]]
    BY Zenon, <1>a DEF RefInv
  <2>3. \A s \in Replica : /\ hqc'[s] \in 0 .. nblk /\ hqc_tail'[s] \in 0 .. nblk
                           /\ hqc'[s] \in anc[hqc_tail'[s]]
    BY Zenon, <1>b, <1>e, <1>5, <2>1, <2>2
  <2>4. QED
    BY Zenon, <1>a, <1>d, <2>3 DEF RefInv
<1>8. LockInv'
  <2>1. ASSUME NEW s \in Replica
        PROVE  Certified(hqc'[s]) /\ height[b_lock[s]] <= height[hqc'[s]]
    <3>1. Certified(hqc[s]) /\ height[b_lock[s]] <= height[hqc[s]]
      BY Zenon, <1>a DEF LockInv
    <3>2. CASE s # r
      <4>1. hqc'[s] = hqc[s]
        BY Zenon, <1>b, <1>e, <3>2
      <4>2. QED
        BY <3>1, <4>1
    <3>3. CASE s = r
      <4>1. hqc'[s] = h
        BY <1>b, <1>e, <3>3
      <4>2. height[h] \in Nat /\ height[b_lock[r]] \in Nat
        BY Zenon, <1>a, <1>5, TreeFacts DEF RefInv
      <4>3. height[hqc[r]] \in Nat /\ height[b_lock[r]] <= height[hqc[r]]
        BY Zenon, <1>f, <3>1, <3>3
      <4>4. QED
        BY SMTT(40), <1>5, <3>3, <4>1, <4>2, <4>3
    <3>4. QED
      BY Zenon, <3>2, <3>3
  <2>2. ASSUME NEW s \in Replica
        PROVE  /\ Certified(b_lock[s]) /\ Certified(b_exec[s])
               /\ height[b_exec[s]] <= height[b_lock[s]]
               /\ \E q \in 0 .. nblk : /\ Certified(q) /\ DirectChain(q)
                                       /\ b_exec[s] = qc_ref[qc_ref[q]]
    BY Zenon, <1>a DEF LockInv
  <2>3. ASSUME NEW s \in Replica
        PROVE  Certified(hqc[s])' /\ Certified(b_lock[s])' /\ Certified(b_exec[s])'
    BY ZenonT(40), <1>d, <2>1, <2>2 DEF Certified, Voters
  <2>4. QED
    BY ZenonT(40), <1>3, <1>d, <2>1, <2>2, <2>3 DEF LockInv
<1>9. QED
  BY <1>1, <1>2, <1>6, <1>7, <1>8 DEF IndInv

\* on_receive_proposal keeps the invariant.
LEMMA ReceiveProposalStep ==
    ASSUME TypeOK, TypeOK', IndInv, NEW r \in Replica, NEW b \in 1 .. nblk, NEW d \in Replica,
           NEW nested \in BOOLEAN, OnReceiveProposal(r, b, d, nested)
    PROVE  IndInv'
<1>a. TreeInv /\ RefInv /\ CertInv /\ LockInv /\ NoSafetyBreach
  BY DEF IndInv
<1>b. nblk \in Nat /\ b \in 0 .. nblk /\ b \in Block \ {Genesis} /\ qc_ref[b] \in 0 .. nblk
  <2>1. nblk \in Nat
    BY <1>a, TreeFacts
  <2>2. b \in 0 .. nblk /\ b # Genesis
    BY <2>1 DEF Genesis
  <2>3. QED
    BY Zenon, <1>a, <2>1, <2>2, TreeFacts
<1>c. PICK q \in 0 .. nblk, lk \in {NewLock(r, qc_ref[b])}, h1 \in {NewHqc(r, qc_ref[b])} :
        q = qc_ref[b] /\ lk = NewLock(r, q) /\ h1 = NewHqc(r, q)
  BY Zenon, <1>b
<1>d. Certified(q)
  BY <1>a, <1>b, <1>c DEF CertInv
<1>e. ~Breach(r, q) /\ h1 \in 0 .. nblk /\ Certified(h1) /\ height[h1] \in Nat
  BY ZenonT(40), <1>a, <1>c, <1>d, UpdateStep, TreeFacts
<1>1. PICK vote \in BOOLEAN, own \in BOOLEAN, h \in {h1, b} :
        /\ b_lock' = [b_lock EXCEPT ![r] = NewLock(r, q)]
        /\ b_exec' = [b_exec EXCEPT ![r] = NewExec(r, q)]
        /\ vheight' = [vheight EXCEPT ![r] = IF vote THEN height[b] ELSE @]
        /\ votes' = votes \cup IF vote THEN {<<r, b, d>>} ELSE {}
        /\ voted' = [voted EXCEPT ![r][b] = IF own THEN AddVote(r, @) ELSE @]
        /\ own => vote /\ d = r
        /\ vote => height[b] > vheight[r] /\ SafeToVote(lk, q, anc[b])
        /\ hqc' = [hqc EXCEPT ![r] = h]
        /\ h # h1 => /\ own
                     /\ Completes(r, voted[r][b]) /\ height[b] > height[h1]
        /\ \E t : /\ hqc_tail' = [hqc_tail EXCEPT ![r] = t]
                  /\ \/ t \in HighTails(h, delivered[r])
                     \/ t = b /\ h = h1 /\ h1 \in anc[b]
                     \/ t = hqc_tail[r] /\ h = h1 /\ h1 = hqc[r]
  <2> DEFINE vote == height[b] > vheight[r] /\ SafeToVote(lk, q, anc[b])
             own == vote /\ d = r /\ ~nested
             h == IF own /\ Completes(r, voted[r][b]) /\ height[b] > height[h1] THEN b ELSE h1
             follow == IF h1 # hqc[r] THEN HighTails(h1, delivered[r]) ELSE {hqc_tail[r]}
             adopt(t) == IF h1 \in anc[b] /\ height[b] > height[t] THEN b ELSE t
  <2>1. /\ b_lock' = [b_lock EXCEPT ![r] = NewLock(r, q)]
        /\ b_exec' = [b_exec EXCEPT ![r] = NewExec(r, q)]
        /\ vheight' = [vheight EXCEPT ![r] = IF vote THEN height[b] ELSE @]
        /\ votes' = votes \cup IF vote THEN {<<r, b, d>>} ELSE {}
        /\ voted' = [voted EXCEPT ![r][b] = IF own THEN AddVote(r, @) ELSE @]
    BY Zenon, <1>c, <1>e DEF OnReceiveProposal, Votes
  <2>2. hqc' = [hqc EXCEPT ![r] = h]
    BY Zenon, <1>c, <1>e DEF OnReceiveProposal, Votes
  <2>3. \E t \in IF h # h1 THEN HighTails(h, delivered[r]) ELSE {adopt(u) : u \in follow} \cup follow :
          hqc_tail' = [hqc_tail EXCEPT ![r] = t]
    BY Zenon, <1>c, <1>e DEF OnReceiveProposal, Votes
  <2>4. \E t : /\ hqc_tail' = [hqc_tail EXCEPT ![r] = t]
              /\ \/ t \in HighTails(h, delivered[r])
                 \/ t = b /\ h = h1 /\ h1 \in anc[b]
                 \/ t = hqc_tail[r] /\ h = h1 /\ h1 = hqc[r]
    BY Zenon, <2>3
  <2>5. h \in {h1, b} /\ vote \in BOOLEAN /\ own \in BOOLEAN
    BY Zenon
  <2>6. /\ vote => height[b] > vheight[r] /\ SafeToVote(lk, q, anc[b])
        /\ own => vote /\ d = r
        /\ h # h1 => own /\ Completes(r, voted[r][b]) /\ height[b] > height[h1]
    BY Zenon
  <2> HIDE DEF vote, own, h
  <2>7. QED
    BY Zenon, <2>1, <2>2, <2>4, <2>5, <2>6
<1>2. /\ status' = [status EXCEPT ![r] = status[r]]
      /\ UNCHANGED <<nblk, parent, qc_ref, height, anc, proposals, delivered>>
  BY ZenonT(40), <1>c, <1>e DEF OnReceiveProposal, Votes, tree
<1>3. TreeInv'
  BY <1>2, <1>a DEF TreeInv
<1>4. /\ VoteInv' /\ ChainInv'
      /\ \A x \in 0 .. nblk : Certified(x) => Certified(x)'
      /\ \A x \in 0 .. nblk : Voters(x) \subseteq Voters(x)'
  <2>1. vote => height'[b] > vheight[r] /\ (height[q] > height[lk] \/ lk \in anc'[b])
    BY <1>1, <1>2 DEF SafeToVote
  <2>2. /\ b \in 1 .. nblk' /\ nblk' = nblk
        /\ q = qc_ref'[b] /\ lk = NewLock(r, q)
        /\ \A x \in 0 .. nblk : /\ parent'[x] = parent[x] /\ qc_ref'[x] = qc_ref[x]
                                /\ height'[x] = height[x] /\ anc'[x] = anc[x]
    BY Zenon, <1>2, <1>c
  <2>3. /\ votes' = votes \cup IF vote THEN {<<r, b, d>>} ELSE {}
        /\ vheight' = [vheight EXCEPT ![r] = IF vote THEN height'[b] ELSE @]
        /\ b_lock' = [b_lock EXCEPT ![r] = lk]
    BY <1>1, <1>2, <1>c
  <2>4. QED
    BY ZenonT(40), <1>3, <1>d, <2>1, <2>2, <2>3, VoteStep
<1>5. CertInv'
  <2>1. voted \in [Replica -> [Block -> SUBSET Replica]]
    BY Zenon DEF TypeOK
  <2>2. ASSUME NEW s \in Replica, NEW x \in Block \ {Genesis}
        PROVE  voted'[s][x] \subseteq Voters(x)'
    <3>1. voted[s][x] \subseteq Voters(x) /\ Voters(x) \subseteq Voters(x)'
      BY Zenon, <1>1, <1>a DEF CertInv, Voters
    <3>2. CASE s = r /\ x = b /\ vote
      <4>1. voted'[s][x] \subseteq voted[s][x] \cup {r}
        BY ZenonT(40), <1>1, <1>b, <2>1, <3>2 DEF AddVote
      <4>2. r \in Voters(x)'
        BY <1>1, <3>2 DEF Voters
      <4>3. QED
        BY Zenon, <3>1, <4>1, <4>2
    <3>3. CASE ~(s = r /\ x = b /\ vote)
      <4>1. voted'[s][x] = voted[s][x]
        BY ZenonT(40), <1>1, <1>b, <2>1, <3>3
      <4>2. QED
        BY Zenon, <3>1, <4>1
    <3>4. QED
      BY ZenonT(40), <3>2, <3>3
  <2>3. ASSUME NEW x \in 0 .. nblk' PROVE Certified(qc_ref[x])'
    <3>1. PICK y \in 0 .. nblk : y = qc_ref[x] /\ Certified(y)
      BY <1>2, <1>a, TreeFacts DEF CertInv
    <3>2. Certified(y)' /\ qc_ref'[x] = y
      BY <1>2, <1>4, <3>1
    <3>3. QED
      BY <3>2 DEF Certified
  <2>4. QED
    BY Zenon, <2>2, <2>3 DEF CertInv
\* A vote for the voter itself may complete the certificate of b.
<1>6. h \in 0 .. nblk /\ Certified(h)' /\ height[h] >= height[h1]
  <2>1. CASE h = h1
    BY SMTT(40), <1>4, <1>e, <2>1
  <2>2. CASE h # h1
    <3>1. h = b /\ own /\ vote /\ d = r /\ Completes(r, voted[r][b]) /\ height[b] > height[h1]
      BY <1>1, <2>2
    <3>2. voted[r][b] \in SUBSET Replica /\ voted[r][b] \subseteq Voters(b)
      <4>1. voted \in [Replica -> [Block -> SUBSET Replica]]
        BY Zenon DEF TypeOK
      <4>2. QED
        BY <1>a, <1>b, <4>1 DEF CertInv
    <3>3. voted[r][b] \cup {r} \subseteq Voters(b)' /\ Voters(b)' \subseteq Replica
      BY Zenon, <1>1, <3>1, <3>2 DEF Voters
    <3>4. Quorum(voted[r][b] \cup {r})
      BY Zenon, <3>1, <3>2, CompletesQuorum
    <3>5. Quorum(Voters(b)')
      BY Zenon, <3>3, <3>4, QuorumGrows
    <3>6. height[b] \in Nat
      BY Zenon, <1>a, <1>b, TreeFacts
    <3>7. Certified(b)'
      BY Zenon, <3>5 DEF Certified
    <3>8. QED
      BY SMTT(40), <1>b, <1>e, <3>1, <3>6, <3>7
  <2>3. QED
    BY <2>1, <2>2
<1>7. LockInv'
  <2>1. /\ nblk' \in Nat /\ 0 .. nblk \subseteq 0 .. nblk'
        /\ \A x \in 0 .. nblk : /\ parent'[x] = parent[x] /\ qc_ref'[x] = qc_ref[x]
                                /\ height'[x] = height[x] /\ anc'[x] = anc[x]
    BY Zenon, <1>2, <1>b
  <2>2. QED
    BY ZenonT(40), <1>1, <1>3, <1>4, <1>6, <1>c, <1>d, <2>1, LockInvStep
<1>8. RefInv'
  <2>1. /\ \A m \in proposals : m[2] \in 1 .. nblk
        /\ \A m \in votes : m[2] \in 1 .. nblk
        /\ \A s \in Replica : delivered[s] \subseteq 0 .. nblk
    BY ZenonT(40), <1>a DEF RefInv
  <2>2. /\ \A m \in proposals' : m[2] \in 1 .. nblk'
        /\ \A m \in votes' : m[2] \in 1 .. nblk'
        /\ \A s \in Replica : delivered'[s] \subseteq 0 .. nblk'
    <3>1. \A m \in votes' : m[2] \in 1 .. nblk'
      BY <1>1, <1>2, <2>1
    <3>2. QED
      BY ZenonT(40), <1>2, <2>1, <3>1
  <2>3. /\ hqc \in [Replica -> Block] /\ hqc_tail \in [Replica -> Block]
        /\ b_lock \in [Replica -> Block] /\ b_exec \in [Replica -> Block]
    BY Zenon DEF TypeOK
  <2>4. ASSUME NEW s \in Replica
        PROVE  /\ hqc[s] \in 0 .. nblk /\ hqc_tail[s] \in 0 .. nblk
               /\ b_lock[s] \in 0 .. nblk /\ b_exec[s] \in 0 .. nblk
               /\ hqc[s] \in anc[hqc_tail[s]]
    BY Zenon, <1>a DEF RefInv
  <2>5. PICK t \in 0 .. nblk : hqc_tail' = [hqc_tail EXCEPT ![r] = t] /\ h \in anc[t]
    <3>1. \A t \in HighTails(h, delivered[r]) : t \in 0 .. nblk /\ h \in anc[t]
      BY ZenonT(40), <1>6, <1>a, HighTailsFollow
    <3>2. PICK t : /\ hqc_tail' = [hqc_tail EXCEPT ![r] = t]
                   /\ \/ t \in HighTails(h, delivered[r])
                      \/ t = b /\ h = h1 /\ h1 \in anc[b]
                      \/ t = hqc_tail[r] /\ h = h1 /\ h1 = hqc[r]
      BY Zenon, <1>1
    <3>3. t \in 0 .. nblk /\ h \in anc[t]
      BY Zenon, <1>b, <2>4, <3>1, <3>2
    <3>4. QED
      BY Zenon, <3>2, <3>3
  <2>6. NewLock(r, q) \in 0 .. nblk /\ NewExec(r, q) \in 0 .. nblk
    BY ZenonT(40), <1>a, <1>d, LockStep, UpdateStep
  <2>7. ASSUME NEW s \in Replica
        PROVE  /\ b_lock'[s] \in 0 .. nblk /\ b_exec'[s] \in 0 .. nblk
               /\ hqc'[s] \in 0 .. nblk /\ hqc_tail'[s] \in 0 .. nblk
    BY ZenonT(40), <1>1, <1>6, <2>3, <2>4, <2>5, <2>6
  <2>8. ASSUME NEW s \in Replica PROVE hqc'[s] \in anc[hqc_tail'[s]]
    BY <1>1, <2>3, <2>4, <2>5
  <2>9. QED
    BY <1>2, <2>2, <2>7, <2>8 DEF RefInv
<1>9. NoSafetyBreach'
  <2>1. status \in [Replica -> {"up", "safety breached", "not above vheight"}]
    BY ZenonT(40) DEF TypeOK
  <2>2. QED
    BY Zenon, <1>2, <1>a, <2>1 DEF NoSafetyBreach
<1>10. QED
  BY <1>3, <1>4, <1>5, <1>7, <1>8, <1>9 DEF IndInv

\* Every operation of the core keeps the invariant.
LEMMA IndStep == TypeOK /\ TypeOK' /\ IndInv /\ [Next]_vars => IndInv'
<1> SUFFICES ASSUME TypeOK, TypeOK', IndInv, [Next]_vars PROVE IndInv'
  OBVIOUS
<1>1. ASSUME NEW r \in Proposers, OnPropose(r) PROVE IndInv'
  BY <1>1, ProposeStep
<1>2. ASSUME NEW r \in Replica, NEW m \in proposals, NEW b \in anc[m[2]], OnDeliverBlk(r, b)
      PROVE  IndInv'
  BY <1>2, DeliverStep
<1>3. ASSUME NEW r \in Replica, NEW m \in proposals, NEW d \in Replica,
             NEW nested \in BOOLEAN, OnReceiveProposal(r, m[2], d, nested)
      PROVE  IndInv'
  <2>1. m[2] \in 1 .. nblk
    BY DEF IndInv, RefInv
  <2>2. QED
    BY <1>3, <2>1, ReceiveProposalStep
<1>4. ASSUME NEW m \in votes, OnReceiveVote(m[3], m[1], m[2]) PROVE IndInv'
  <2>1. m[2] \in 1 .. nblk
    BY DEF IndInv, RefInv
  <2>2. m[1] \in Replica /\ m[3] \in Replica /\ m = <<m[1], m[2], m[3]>>
    <3>1. votes \subseteq Replica \X Block \X Replica
      BY Zenon DEF TypeOK
    <3>2. QED
      BY <3>1
  <2>3. m[1] \in Voters(m[2])
    BY <2>2 DEF Voters
  <2>4. QED
    BY <1>4, <2>1, <2>2, <2>3, ReceiveVoteStep
<1>5. CASE UNCHANGED vars
  BY <1>5, StutterStep
<1>6. ASSUME NEW r \in Replica, NEW m \in proposals,
             \E d \in IF Votes(r, m[2]) THEN Proposers ELSE {r} :
             \E nested \in IF d = r /\ r \in Proposers THEN BOOLEAN ELSE {FALSE} :
                OnReceiveProposal(r, m[2], d, nested)
      PROVE  IndInv'
  <2>1. PICK d \in IF Votes(r, m[2]) THEN Proposers ELSE {r} :
        \E nested \in IF d = r /\ r \in Proposers THEN BOOLEAN ELSE {FALSE} :
           OnReceiveProposal(r, m[2], d, nested)
    BY Zenon, <1>6
  <2>2. d \in Replica
    BY ProposersAssumption
  <2>3. \E nested \in BOOLEAN : OnReceiveProposal(r, m[2], d, nested)
    BY Zenon, <2>1
  <2>4. QED
    BY <1>3, <2>2, <2>3
<1>7. QED
  BY ZenonT(40), <1>1, <1>2, <1>4, <1>5, <1>6 DEF Next

\* on_init establishes the invariant: there is only the genesis block.
LEMMA IndInit == Init => IndInv
<1> SUFFICES ASSUME Init PROVE IndInv
  OBVIOUS
<1>1. /\ nblk = 0 /\ votes = {} /\ proposals = {}
      /\ \A b \in Block : /\ parent[b] = Genesis /\ qc_ref[b] = Genesis
                          /\ height[b] = 0 /\ anc[b] = {Genesis}
      /\ Genesis \in Block /\ 0 .. nblk = {Genesis} /\ 1 .. nblk = {}
  BY MaxBlocksAssumption DEF Init, Block, Genesis
<1>2. \A r \in Replica : /\ delivered[r] = {Genesis} /\ hqc[r] = Genesis
                         /\ hqc_tail[r] = Genesis /\ b_lock[r] = Genesis
                         /\ b_exec[r] = Genesis /\ status[r] = "up"
                         /\ \A b \in Block \ {Genesis} : voted[r][b] = {}
  BY Zenon DEF Init
<1>3. TreeInv
  BY <1>1 DEF TreeInv, Genesis
<1>4. RefInv
  BY ZenonT(40), <1>1, <1>2 DEF RefInv
<1>5. CertInv
  BY SMTT(40), <1>1, <1>2 DEF CertInv, Certified
<1>6. LockInv
  BY SMTT(40), <1>1, <1>2 DEF LockInv, Certified, DirectChain, Genesis
<1>7. VoteInv
  BY <1>1 DEF VoteInv
<1>8. ChainInv
  BY <1>1 DEF ChainInv
<1>9. NoSafetyBreach
  BY Zenon, <1>2 DEF NoSafetyBreach
<1>10. QED
  BY <1>3, <1>4, <1>5, <1>6, <1>7, <1>8, <1>9 DEF IndInv

\* The invariant that the safety of the core rests on.
THEOREM Inductive == Spec => [](TypeOK /\ IndInv)
<1>1. Init => TypeOK /\ IndInv
  BY TypeInit, IndInit
<1>2. TypeOK /\ IndInv /\ [Next]_vars => (TypeOK /\ IndInv)'
  BY TypeStep, IndStep
<1>3. QED
  BY <1>1, <1>2, PTL DEF Spec

---------------------------------------------------------------------------
(* What the replicas may rely on *)

\* Two executed blocks head certified direct chains; the higher one is certified,
\* so by ChainIsFinal it extends the lower.
LEMMA AgreementHere == TypeOK /\ IndInv => Agreement
<1> SUFFICES ASSUME TypeOK, IndInv, NEW r \in Replica, NEW s \in Replica
             PROVE  b_exec[r] \in anc[b_exec[s]] \/ b_exec[s] \in anc[b_exec[r]]
  BY DEF Agreement
<1>1. ChainIsFinal
  BY Zenon, ChainFinal DEF IndInv
<1>2. ASSUME NEW x \in Replica, NEW y \in Replica, height[b_exec[x]] <= height[b_exec[y]]
      PROVE  b_exec[x] \in anc[b_exec[y]]
  <2>1. b_exec[y] \in 0 .. nblk /\ Certified(b_exec[y])
    BY Zenon DEF IndInv, RefInv, LockInv
  <2>2. PICK q \in 0 .. nblk : Certified(q) /\ DirectChain(q) /\ b_exec[x] = qc_ref[qc_ref[q]]
    BY Zenon DEF IndInv, LockInv
  <2>3. height[b_exec[x]] \in Nat /\ height[b_exec[y]] \in Nat
    BY Zenon, TreeFacts DEF IndInv, RefInv
  <2>4. height[b_exec[y]] >= height[qc_ref[qc_ref[q]]]
    BY <1>2, <2>2, <2>3
  <2>5. QED
    BY Zenon, <1>1, <2>1, <2>2, <2>4 DEF ChainIsFinal
<1>3. height[b_exec[r]] \in Nat /\ height[b_exec[s]] \in Nat
  BY Zenon, TreeFacts DEF IndInv, RefInv
<1>4. QED
  BY <1>2, <1>3

\* The lock and hqc are certified and not lower than the executed block, so by
\* ChainIsFinal they extend it.
LEMMA ExecBelowLockHere == TypeOK /\ IndInv => ExecBelowLock
<1> SUFFICES ASSUME TypeOK, IndInv, NEW r \in Replica
             PROVE  b_exec[r] \in anc[b_lock[r]] /\ b_exec[r] \in anc[hqc[r]]
  BY DEF ExecBelowLock
<1>1. ChainIsFinal /\ TreeInv
  BY Zenon, ChainFinal DEF IndInv
<1>2. /\ b_exec[r] \in 0 .. nblk /\ b_lock[r] \in 0 .. nblk /\ hqc[r] \in 0 .. nblk
      /\ Certified(b_lock[r]) /\ Certified(hqc[r])
      /\ height[b_exec[r]] <= height[b_lock[r]] /\ height[b_lock[r]] <= height[hqc[r]]
  BY Zenon DEF IndInv, RefInv, LockInv
<1>3. /\ height[b_exec[r]] \in Nat /\ height[b_lock[r]] \in Nat /\ height[hqc[r]] \in Nat
  BY Zenon, <1>1, <1>2, TreeFacts
<1>4. PICK q \in 0 .. nblk : Certified(q) /\ DirectChain(q) /\ b_exec[r] = qc_ref[qc_ref[q]]
  BY Zenon DEF IndInv, LockInv
<1>5. /\ height[b_lock[r]] >= height[qc_ref[qc_ref[q]]]
      /\ height[hqc[r]] >= height[qc_ref[qc_ref[q]]]
  BY <1>2, <1>3, <1>4
<1>6. QED
  BY SMTT(30), <1>1, <1>2, <1>4, <1>5 DEF ChainIsFinal

\* The justification part of the invariant, in the words of the property.
LEMMA JustifiedHere == TypeOK /\ IndInv => JustifiedByAncestor
<1> SUFFICES ASSUME TypeOK, IndInv PROVE JustifiedByAncestor
  BY Zenon
<1>1. \A b \in 0 .. nblk : qc_ref[b] \in anc[b] /\ Certified(qc_ref[b])
  BY Zenon, TreeFacts DEF IndInv, CertInv
<1>2. \A r \in Replica : hqc[r] \in anc[hqc_tail[r]] /\ Certified(hqc[r])
  BY DEF IndInv, RefInv, LockInv
<1>3. QED
  BY <1>1, <1>2 DEF JustifiedByAncestor

\* The blocks any two replicas execute are on one branch: update() moves b_exec of
\* all replicas along a single branch of the block tree.
THEOREM AgreementHolds == Spec => []Agreement
BY Inductive, AgreementHere, PTL

\* The throw "safety breached :(" of update() is unreachable.
THEOREM NeverBreached == Spec => []NoSafetyBreach
<1>1. TypeOK /\ IndInv => NoSafetyBreach
  BY DEF IndInv
<1>2. QED
  BY <1>1, Inductive, PTL

\* The vote rule of on_receive_proposal certifies at most one block of a height.
THEOREM CertificatesUnique == Spec => []UniqueCertificate
<1>1. TypeOK /\ IndInv => UniqueCertificate
  BY CertUnique DEF IndInv
<1>2. QED
  BY <1>1, Inductive, PTL

\* The first block of a certified direct chain is on the branch of every certified
\* block that is not lower, before any replica commits it.
THEOREM ChainsFinal == Spec => []ChainIsFinal
<1>1. TypeOK /\ IndInv => ChainIsFinal
  BY Zenon, ChainFinal DEF IndInv
<1>2. QED
  BY <1>1, Inductive, PTL

\* What update() has executed stays below the lock and the highest certificate.
THEOREM ExecutedBelowLock == Spec => []ExecBelowLock
BY Inductive, ExecBelowLockHere, PTL

\* PMHighTail keeps every proposal on the branch of its certificate.
THEOREM AlwaysJustified == Spec => []JustifiedByAncestor
BY Inductive, JustifiedHere, PTL

---------------------------------------------------------------------------
(* What a step may never undo *)

\* The body of NeverBack, for one replica.
Forward(s) ==
    /\ b_exec[s] \in anc[b_exec[s]]'
    /\ height[b_lock[s]] <= height[b_lock[s]]'
    /\ height[hqc[s]] <= height[hqc[s]]'
    /\ vheight[s] <= vheight'[s]

\* A step in which replica r alone moves, to blocks that exist and are not below.
LEMMA ForwardMove ==
    ASSUME TypeOK, IndInv,
           \A x \in 0 .. nblk : height'[x] = height[x] /\ anc'[x] = anc[x],
           NEW r \in Replica, NEW h \in 0 .. nblk, NEW l \in 0 .. nblk, NEW e \in 0 .. nblk,
           NEW v \in Nat,
           hqc' = [hqc EXCEPT ![r] = h], b_lock' = [b_lock EXCEPT ![r] = l],
           b_exec' = [b_exec EXCEPT ![r] = e], vheight' = [vheight EXCEPT ![r] = v],
           height[hqc[r]] <= height[h], height[b_lock[r]] <= height[l],
           b_exec[r] \in anc[e], vheight[r] <= v
    PROVE  \A s \in Replica : Forward(s)
<1> SUFFICES ASSUME NEW s \in Replica PROVE Forward(s)
  OBVIOUS
<1>1. /\ hqc \in [Replica -> Block] /\ b_lock \in [Replica -> Block]
      /\ b_exec \in [Replica -> Block] /\ vheight \in [Replica -> Nat]
  BY DEF TypeOK
<1>2. hqc[s] \in 0 .. nblk /\ b_lock[s] \in 0 .. nblk /\ b_exec[s] \in 0 .. nblk
  BY Zenon DEF IndInv, RefInv
<1>3. height[hqc[s]] \in Nat /\ height[b_lock[s]] \in Nat /\ b_exec[s] \in anc[b_exec[s]]
  BY ZenonT(40), <1>2, TreeFacts DEF IndInv, TreeInv
<1>4. CASE s = r
  BY <1>1, <1>4 DEF Forward
<1>5. CASE s # r
  BY <1>1, <1>2, <1>3, <1>5 DEF Forward
<1>6. QED
  BY <1>4, <1>5

LEMMA ForwardStep == TypeOK /\ IndInv /\ [Next]_vars => \A s \in Replica : Forward(s)
<1> SUFFICES ASSUME TypeOK, IndInv, [Next]_vars PROVE \A s \in Replica : Forward(s)
  OBVIOUS
<1>1. \A s \in Replica : /\ {hqc[s], b_lock[s], b_exec[s]} \subseteq 0 .. nblk
                         /\ vheight[s] \in Nat /\ Certified(hqc[s])
  BY ZenonT(40) DEF TypeOK, IndInv, RefInv, LockInv
<1>2. \A s \in Replica : /\ height[hqc[s]] \in Nat /\ height[b_lock[s]] \in Nat
                         /\ b_exec[s] \in anc[b_exec[s]]
  BY ZenonT(40), <1>1, TreeFacts DEF IndInv, TreeInv
<1>3. /\ hqc \in [Replica -> Block] /\ b_lock \in [Replica -> Block]
      /\ b_exec \in [Replica -> Block] /\ vheight \in [Replica -> Nat]
  BY DEF TypeOK
<1>4. \A r \in Replica, q \in 0 .. nblk : Certified(q) =>
        /\ {NewHqc(r, q), NewLock(r, q), NewExec(r, q)} \subseteq 0 .. nblk
        /\ height[hqc[r]] <= height[NewHqc(r, q)]
        /\ height[b_lock[r]] <= height[NewLock(r, q)]
        /\ b_exec[r] \in anc[NewExec(r, q)]
  BY UpdateStep, LockStep DEF IndInv
<1>5. ASSUME NEW r \in Replica, OnPropose(r)
      PROVE  \A s \in Replica : Forward(s)
  <2> DEFINE v == vheight'[r]
             q == hqc[r]
  <2>1. /\ \A x \in 0 .. nblk : height'[x] = height[x] /\ anc'[x] = anc[x]
    <3>1. nblk \in Nat /\ \A x \in 0 .. nblk : x \in Block
      BY TreeFacts DEF IndInv
    <3>2. height \in [Block -> Nat] /\ anc \in [Block -> SUBSET Block]
      BY ZenonT(40) DEF TypeOK
    <3>3. PICK k, A : height' = [height EXCEPT ![nblk + 1] = k] /\ anc' = [anc EXCEPT ![nblk + 1] = A]
      BY <1>5 DEF OnPropose
    <3>4. QED
      BY <3>1, <3>2, <3>3
  <2>2. /\ hqc' = [hqc EXCEPT ![r] = q] /\ b_lock' = [b_lock EXCEPT ![r] = NewLock(r, q)]
        /\ b_exec' = [b_exec EXCEPT ![r] = NewExec(r, q)]
    BY <1>3, <1>5 DEF OnPropose
  <2>3. v \in Nat /\ vheight[r] <= v /\ vheight' = [vheight EXCEPT ![r] = v]
    <3> DEFINE h == height[hqc_tail[r]] + 1
    <3>1. PICK n \in {vheight[r], h} : vheight' = [vheight EXCEPT ![r] = n] /\ (n = vheight[r] \/ h > vheight[r])
      BY <1>5 DEF OnPropose
    <3>2. h \in Nat
      BY TreeFacts DEF IndInv, RefInv
    <3> HIDE DEF h
    <3>3. QED
      BY SMTT(30), <1>1, <1>3, <3>1, <3>2
  <2> HIDE DEF v
  <2>4. q \in 0 .. nblk /\ Certified(q) /\ height[q] <= height[q]
    BY <1>1, <1>2
  <2> HIDE DEF q
  <2>5. /\ NewLock(r, q) \in 0 .. nblk /\ NewExec(r, q) \in 0 .. nblk
        /\ height[b_lock[r]] <= height[NewLock(r, q)] /\ b_exec[r] \in anc[NewExec(r, q)]
    BY <1>4, <2>4
  <2>6. height[hqc[r]] <= height[q]
    BY <2>4 DEF q
  <2>7. QED
    BY Zenon, <2>1, <2>2, <2>3, <2>4, <2>5, <2>6, ForwardMove
<1>6. ASSUME NEW r \in Replica, NEW m \in proposals, NEW d, NEW nested, OnReceiveProposal(r, m[2], d, nested)
      PROVE  \A s \in Replica : Forward(s)
  <2> DEFINE b == m[2]
             q == qc_ref[b]
             h == hqc'[r]
             v == vheight'[r]
  <2>1. b \in 0 .. nblk /\ q \in 0 .. nblk /\ Certified(q) /\ height[b] \in Nat
    BY SMTT(30), TreeFacts DEF IndInv, RefInv, CertInv
  <2>2. /\ \A x \in 0 .. nblk : height'[x] = height[x] /\ anc'[x] = anc[x]
        /\ b_lock' = [b_lock EXCEPT ![r] = NewLock(r, q)]
        /\ b_exec' = [b_exec EXCEPT ![r] = NewExec(r, q)]
    BY <1>6 DEF OnReceiveProposal, tree
  <2>3. v \in Nat /\ vheight[r] <= v /\ vheight' = [vheight EXCEPT ![r] = v]
    <3>1. vheight' = [vheight EXCEPT ![r] = IF Votes(r, b) THEN height[b] ELSE @]
      BY <1>6 DEF OnReceiveProposal
    <3>2. Votes(r, b) => height[b] > vheight[r]
      BY DEF Votes
    <3>3. QED
      BY SMTT(30), <1>1, <1>3, <2>1, <3>1, <3>2
  <2>4. h \in 0 .. nblk /\ height[hqc[r]] <= height[h] /\ hqc' = [hqc EXCEPT ![r] = h]
    <3> DEFINE h1 == NewHqc(r, q)
    <3>1. PICK n \in {b, h1} : hqc' = [hqc EXCEPT ![r] = n] /\ (n = h1 \/ height[b] > height[h1])
      BY ZenonT(40), <1>6 DEF OnReceiveProposal
    <3>2. h1 \in 0 .. nblk /\ height[hqc[r]] <= height[h1] /\ height[h1] \in Nat
      BY <1>4, <2>1, TreeFacts DEF IndInv
    <3> HIDE DEF h1, b
    <3>3. h = n
      BY Zenon, <1>3, <3>1
    <3>4. n \in 0 .. nblk /\ height[hqc[r]] <= height[n]
      BY <1>2, <2>1, <3>1, <3>2
    <3> HIDE DEF h
    <3>5. QED
      BY Zenon, <3>1, <3>3, <3>4
  <2> HIDE DEF v, h, q, b
  <2>5. QED
    BY ZenonT(40), <1>4, <2>1, <2>2, <2>3, <2>4, ForwardMove
<1>7. ASSUME NEW m \in votes, OnReceiveVote(m[3], m[1], m[2])
      PROVE  \A s \in Replica : Forward(s)
  <2> DEFINE r == m[3]
             b == m[2]
  <2>1. r \in Replica /\ b \in 0 .. nblk /\ height[b] \in Nat
    <3>1. votes \subseteq Replica \X Block \X Replica
      BY DEF TypeOK
    <3>2. b \in 0 .. nblk
      BY DEF IndInv, RefInv
    <3>3. QED
      BY <3>1, <3>2, TreeFacts DEF IndInv
  <2>2. PICK n \in {b, hqc[r]} : hqc' = [hqc EXCEPT ![r] = n] /\ (n = hqc[r] \/ height[b] > height[hqc[r]])
    BY Zenon, <1>7 DEF OnReceiveVote
  <2>3. /\ \A x \in 0 .. nblk : height'[x] = height[x] /\ anc'[x] = anc[x]
        /\ UNCHANGED <<b_lock, b_exec, vheight>>
    BY <1>7 DEF OnReceiveVote, tree
  <2> HIDE DEF r, b
  <2>4. n \in 0 .. nblk /\ height[hqc[r]] <= height[n]
    BY SMTT(30), <1>1, <1>2, <2>1, <2>2
  <2> DEFINE l == b_lock[r]
             e == b_exec[r]
             v == vheight[r]
  <2>5. /\ b_lock' = [b_lock EXCEPT ![r] = l] /\ b_exec' = [b_exec EXCEPT ![r] = e]
        /\ vheight' = [vheight EXCEPT ![r] = v]
    BY ZenonT(40), <1>3, <2>3
  <2>6. /\ l \in 0 .. nblk /\ e \in 0 .. nblk /\ v \in Nat
        /\ height[b_lock[r]] <= height[l] /\ b_exec[r] \in anc[e] /\ vheight[r] <= v
    BY SMTT(30), <1>1, <1>2, <2>1
  <2> HIDE DEF l, e, v
  <2>7. QED
    BY ZenonT(40), <2>1, <2>2, <2>3, <2>4, <2>5, <2>6, ForwardMove
<1>8. CASE UNCHANGED <<tree, hqc, b_lock, b_exec, vheight>>
  BY <1>1, <1>2, <1>8 DEF Forward, tree
<1>9. QED
  BY Zenon, <1>5, <1>6, <1>7, <1>8, ProposersAssumption DEF Next, OnDeliverBlk, vars

\* update(), update_hqc and on_receive_proposal never take a replica back: the
\* executed branch grows, and lock, certificate and last voted height never sink.
THEOREM NothingUndone == Spec => NeverBack
<1>1. TypeOK /\ IndInv /\ [Next]_vars
        => [\A r \in Replica : /\ b_exec[r] \in anc[b_exec[r]]'
                               /\ height[b_lock[r]] <= height[b_lock[r]]'
                               /\ height[hqc[r]] <= height[hqc[r]]'
                               /\ vheight[r] <= vheight'[r]]_vars
  BY ForwardStep DEF Forward
<1>2. QED
  BY <1>1, Inductive, PTL DEF Spec, NeverBack
=============================================================================
