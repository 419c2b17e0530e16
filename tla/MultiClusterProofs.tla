------------------------- MODULE MultiClusterProofs -------------------------
(***************************************************************************)
(* Proofs about MultiCluster, for any number and sizes of clusters and any *)
(* number of heights.  The inductive invariant has three parts beside the  *)
(* types: what is delivered, committed, finished and executed at one       *)
(* replica (Recorded), what the messages between clusters say about their  *)
(* senders (Heard), and what the complaints do (Complained).               *)
(***************************************************************************)
EXTENDS MultiCluster, FiniteSetTheorems, TLAPS

LEMMA ReplicaTyped ==
  ASSUME NEW r \in Replica
  PROVE  ClusterOf(r) \in Cluster /\ Id(r) \in 0 .. Size[ClusterOf(r)] - 1
         /\ Size[ClusterOf(r)] \in Nat \ {0}
BY ClusterAssumption DEF Replica, ClusterOf, Id

LEMMA RotateTyped ==
  ASSUME NEW c \in Cluster, NEW i \in Nat
  PROVE  Rotate(c, i) \in 0 .. Size[c] - 1
BY ClusterAssumption DEF Rotate

LEMMA InitTyped == Init => TypeOK
<1> SUFFICES ASSUME Init PROVE TypeOK
  OBVIOUS
<1>1. \A r \in Replica : InitialProposer(ClusterOf(r)) \in 0 .. Size[ClusterOf(r)] - 1
  BY ReplicaTyped DEF InitialProposer
<1>2. \A S : << >> \in Seq(S)
  OBVIOUS
<1> QED
  BY <1>1, <1>2, BoundAssumption DEF Init, TypeOK

LEMMA CommitTyped ==
  ASSUME TypeOK, NEW r \in Replica, NEW h \in Height, Commit(r, h)
  PROVE  TypeOK'
<1> DEFINE new == committed[r] + 1 .. h
           ready == Ready(r, new)
           e == [k \in Height |-> IF k \in ready THEN Append(executed[r][k], "main") ELSE executed[r][k]]
<1>1. new \subseteq Height /\ h \in 0 .. MaxHeight
  <2>1. committed[r] \in 0 .. MaxHeight
    BY DEF TypeOK
  <2> QED
    BY <2>1, BoundAssumption DEF Height
<1>2. /\ committed' = [committed EXCEPT ![r] = h] /\ executed' = [executed EXCEPT ![r] = e]
      /\ timers' = [timers EXCEPT ![r] = @ \cup Waiting(r, new)]
      /\ mc1' = mc1 \cup IF proposer[r] = Id(r) THEN {ClusterOf(r)} \X new \X {FALSE} ELSE {}
      /\ others_known' = [others_known EXCEPT ![r] = @ \/ proposer[r] = Id(r)]
  BY DEF Commit
<1> HIDE DEF new, ready
<1>3. executed \in [Replica -> [Height -> Seq({"main", "fork"})]]
  BY DEF TypeOK
<1>4. \A k \in Height : Append(executed[r][k], "main") \in Seq({"main", "fork"})
  BY <1>3
<1>5. e \in [Height -> Seq({"main", "fork"})]
  BY <1>3, <1>4
<1> HIDE DEF e
<1>6. executed' \in [Replica -> [Height -> Seq({"main", "fork"})]]
  BY <1>2, <1>3, <1>5
<1>7. committed' \in [Replica -> 0 .. MaxHeight] /\ timers' \in [Replica -> SUBSET Height]
      /\ others_known' \in [Replica -> BOOLEAN]
  <2>1. committed \in [Replica -> 0 .. MaxHeight] /\ timers \in [Replica -> SUBSET Height]
        /\ others_known \in [Replica -> BOOLEAN]
    BY DEF TypeOK
  <2> QED
    BY Zenon, <1>1, <1>2, <2>1 DEF Waiting
<1>8. mc1' \subseteq Cluster \X Height \X BOOLEAN
  <2>1. {ClusterOf(r)} \X new \X {FALSE} \subseteq Cluster \X Height \X BOOLEAN
    BY Zenon, <1>1, ReplicaTyped
  <2>2. mc1 \subseteq Cluster \X Height \X BOOLEAN
    BY DEF TypeOK
  <2> QED
    BY Zenon, <1>2, <2>1, <2>2
<1> QED
  BY <1>6, <1>7, <1>8 DEF Commit, TypeOK

\* What receive_mc_local does, its uninitialized loop counter being at most 0, or
\* the end of the replica.
Counts(r, c, h) ==
  LET fresh == h \notin finished[r]
      complete == fresh /\ Complete(r, c, h)
      decides == complete /\ Decides(r, h)
  IN  /\ tracker' = [tracker EXCEPT ![r][h] = IF fresh THEN @ \cup {c} ELSE @]
      /\ finished' = [finished EXCEPT ![r] = IF complete THEN @ \cup {h} ELSE @]
      /\ executed' = [executed EXCEPT ![r][h] = IF decides THEN Append(@, cid_blkhash[r][h]) ELSE @]
      /\ timers' = [timers EXCEPT ![r] = IF decides THEN @ \ {h} ELSE @]
      /\ UNCHANGED status

LEMMA McEffects ==
  ASSUME NEW r, NEW c, NEW h, NEW answer, ReceiveMcLocal(r, c, h, answer)
  PROVE  \/ Counts(r, c, h)
         \/ status' = [status EXCEPT ![r] = "out of bounds"] /\ UNCHANGED <<tracker, finished, executed, timers>>
BY DEF ReceiveMcLocal, Counts

LEMMA ReceiveMcLocalTyped ==
  ASSUME TypeOK, NEW r \in Replica, NEW c \in Cluster, NEW h \in Height, NEW answer \in BOOLEAN,
         ReceiveMcLocal(r, c, h, answer), mc2' \subseteq Cluster \X Cluster \X Height \X BOOLEAN
  PROVE  TypeOK'
<1>1. others_known' \in [Replica -> BOOLEAN]
  <2>1. others_known \in [Replica -> BOOLEAN]
    BY DEF TypeOK
  <2>2. PICK k \in {others_known[r], TRUE} : others_known' = [others_known EXCEPT ![r] = k]
    BY DEF ReceiveMcLocal
  <2> QED
    BY Zenon, <2>1, <2>2
<1>2. /\ status \in [Replica -> {"up", "out of bounds"}] /\ tracker \in [Replica -> [Height -> SUBSET Cluster]]
      /\ finished \in [Replica -> SUBSET Height] /\ timers \in [Replica -> SUBSET Height]
      /\ executed \in [Replica -> [Height -> Seq({"main", "fork"})]]
      /\ cid_blkhash \in [Replica -> [Height -> {"none", "main", "fork"}]]
  BY DEF TypeOK
<1>3. /\ status' \in [Replica -> {"up", "out of bounds"}] /\ tracker' \in [Replica -> [Height -> SUBSET Cluster]]
      /\ finished' \in [Replica -> SUBSET Height] /\ timers' \in [Replica -> SUBSET Height]
      /\ executed' \in [Replica -> [Height -> Seq({"main", "fork"})]]
  <2>1. CASE Counts(r, c, h)
    <3>1. status' = status /\ tracker' \in [Replica -> [Height -> SUBSET Cluster]]
      BY ZenonT(40), <1>2, <2>1 DEF Counts
    <3>2. finished' \in [Replica -> SUBSET Height] /\ timers' \in [Replica -> SUBSET Height]
      BY <1>2, <2>1 DEF Counts
    <3>3. cid_blkhash[r][h] # "none" => Append(executed[r][h], cid_blkhash[r][h]) \in Seq({"main", "fork"})
      <4>1. executed[r][h] \in Seq({"main", "fork"}) /\ cid_blkhash[r][h] \in {"none", "main", "fork"}
        BY <1>2
      <4> QED
        BY <4>1
    <3>4. executed' \in [Replica -> [Height -> Seq({"main", "fork"})]]
      BY <1>2, <2>1, <3>3 DEF Counts, Decides
    <3> QED
      BY <1>2, <3>1, <3>2, <3>4
  <2>2. CASE status' = [status EXCEPT ![r] = "out of bounds"] /\ UNCHANGED <<tracker, finished, executed, timers>>
    BY <1>2, <2>2
  <2> QED
    BY <2>1, <2>2, McEffects
<1> QED
  BY <1>1, <1>3 DEF ReceiveMcLocal, TypeOK

LEMMA TakeLComplainTyped ==
  ASSUME NEW r \in Replica, NEW v \in Replica, NEW h \in Height, TakeLComplain(r, v, h),
         lcomplains \in [Replica -> [Height -> SUBSET Replica]],
         rc \subseteq Cluster \X Height \X {"other", "local"}
  PROVE  /\ lcomplains' \in [Replica -> [Height -> SUBSET Replica]]
         /\ rc' \subseteq Cluster \X Height \X {"other", "local"}
<1>1. AddComplaint(r, v, h) \in SUBSET Replica
  BY DEF AddComplaint
<1>2. lcomplains' = [lcomplains EXCEPT ![r][h] = AddComplaint(r, v, h)]
  BY DEF TakeLComplain
<1>3. <<ClusterOf(r), h, "other">> \in Cluster \X Height \X {"other", "local"}
  BY ReplicaTyped
<1>4. rc' \subseteq rc \cup {<<ClusterOf(r), h, "other">>}
  BY DEF TakeLComplain
<1> QED
  BY <1>1, <1>2, <1>3, <1>4

LEMMA TimerTyped ==
  ASSUME TypeOK, NEW r \in Replica, NEW h \in Height, RemoteViewChangeTimer(r, h)
  PROVE  TypeOK'
<1>1. /\ timers \in [Replica -> SUBSET Height] /\ lc \subseteq Replica \X Height /\ last_rvc \in [Replica -> Int]
      /\ lcomplains \in [Replica -> [Height -> SUBSET Replica]]
      /\ rc \subseteq Cluster \X Height \X {"other", "local"}
  BY DEF TypeOK
<1>2. timers' \in [Replica -> SUBSET Height]
  BY <1>1 DEF RemoteViewChangeTimer
<1>3. /\ lc' \subseteq Replica \X Height /\ last_rvc' \in [Replica -> Int]
      /\ lcomplains' \in [Replica -> [Height -> SUBSET Replica]]
      /\ rc' \subseteq Cluster \X Height \X {"other", "local"}
  <2>1. h \in Int
    BY BoundAssumption DEF Height
  <2>2. CASE lc' = lc \cup {<<r, h>>} /\ last_rvc' = [last_rvc EXCEPT ![r] = h] /\ TakeLComplain(r, r, h)
    BY <1>1, <2>1, <2>2, TakeLComplainTyped
  <2>3. CASE UNCHANGED <<lc, last_rvc, lcomplains, rc>>
    BY <1>1, <2>3
  <2> QED
    BY <2>2, <2>3 DEF RemoteViewChangeTimer
<1> QED
  BY <1>2, <1>3 DEF RemoteViewChangeTimer, TypeOK

LEMMA RComplainTyped ==
  ASSUME TypeOK, NEW r \in Replica, NEW h \in Height, ReceiveRComplain(r, h)
  PROVE  TypeOK'
<1>0. /\ dropped \in [Replica -> SUBSET Height] /\ rcomplains \in [Replica -> SUBSET Height]
      /\ last_rvc \in [Replica -> Int] /\ others_known \in [Replica -> BOOLEAN]
      /\ rc \subseteq Cluster \X Height \X {"other", "local"} /\ mc1 \subseteq Cluster \X Height \X BOOLEAN
      /\ proposer \in [Replica -> Nat] /\ \A s \in Replica : proposer[s] \in 0 .. Size[ClusterOf(s)] - 1
  BY DEF TypeOK
<1>1. CASE cid_blkhash[r][h] = "none"
  <2>1. dropped' \in [Replica -> SUBSET Height]
    BY SMTT(30), <1>0, <1>1 DEF ReceiveRComplain
  <2> QED
    BY <1>1, <2>1 DEF ReceiveRComplain, TypeOK
<1>2. CASE cid_blkhash[r][h] # "none"
  <2>0. h \in Int
    BY BoundAssumption DEF Height
  <2>1. /\ rcomplains' = [rcomplains EXCEPT ![r] = @ \cup {h}] /\ last_rvc' = [last_rvc EXCEPT ![r] = h]
        /\ others_known' = [others_known EXCEPT ![r] = TRUE]
        /\ rc' = rc \cup {<<ClusterOf(r), h, "local">>} /\ mc1' = mc1 \cup {<<ClusterOf(r), h, TRUE>>}
        /\ proposer' = [proposer EXCEPT ![r] = Rotate(ClusterOf(r), @)]
    BY Zenon, <1>2 DEF ReceiveRComplain, Relay, Answer
  <2>2. rcomplains' \in [Replica -> SUBSET Height] /\ last_rvc' \in [Replica -> Int]
        /\ others_known' \in [Replica -> BOOLEAN]
    BY <1>0, <2>0, <2>1
  <2>3. rc' \subseteq Cluster \X Height \X {"other", "local"} /\ mc1' \subseteq Cluster \X Height \X BOOLEAN
    <3>1. /\ <<ClusterOf(r), h, "local">> \in Cluster \X Height \X {"other", "local"}
          /\ <<ClusterOf(r), h, TRUE>> \in Cluster \X Height \X BOOLEAN
      BY Zenon, ReplicaTyped
    <3> QED
      BY Zenon, <1>0, <2>1, <3>1
  <2>4. Rotate(ClusterOf(r), proposer[r]) \in 0 .. Size[ClusterOf(r)] - 1
    BY <1>0, ReplicaTyped, RotateTyped
  <2>5. proposer' \in [Replica -> Nat] /\ \A s \in Replica : proposer'[s] \in 0 .. Size[ClusterOf(s)] - 1
    BY <1>0, <2>1, <2>4, ReplicaTyped
  <2> QED
    BY <1>2, <2>2, <2>3, <2>5 DEF ReceiveRComplain, TypeOK
<1> QED
  BY <1>1, <1>2

\* The network hands over what it was given: the fields of a message are typed.
LEMMA MessageTyped ==
  ASSUME TypeOK
  PROVE  /\ \A m \in mc1 : m[1] \in Cluster /\ m[2] \in Height /\ m[3] \in BOOLEAN
         /\ \A m \in mc2 : m[1] \in Cluster /\ m[2] \in Cluster /\ m[3] \in Height /\ m[4] \in BOOLEAN
         /\ \A m \in lc : m[1] \in Replica /\ m[2] \in Height /\ m = <<m[1], m[2]>>
         /\ \A m \in rc : m[1] \in Cluster /\ m[2] \in Height /\ m[3] \in {"other", "local"}
<1>1. /\ mc1 \subseteq Cluster \X Height \X BOOLEAN
      /\ mc2 \subseteq Cluster \X Cluster \X Height \X BOOLEAN
      /\ lc \subseteq Replica \X Height
      /\ rc \subseteq Cluster \X Height \X {"other", "local"}
  BY DEF TypeOK
<1>2. \A m \in mc1 : m[1] \in Cluster /\ m[2] \in Height /\ m[3] \in BOOLEAN
  BY <1>1
<1>3. \A m \in mc2 : m[1] \in Cluster /\ m[2] \in Cluster /\ m[3] \in Height /\ m[4] \in BOOLEAN
  BY <1>1
<1>4. \A m \in lc : m[1] \in Replica /\ m[2] \in Height /\ m = <<m[1], m[2]>>
  BY <1>1
<1>5. \A m \in rc : m[1] \in Cluster /\ m[2] \in Height /\ m[3] \in {"other", "local"}
  BY <1>1
<1> QED
  BY <1>2, <1>3, <1>4, <1>5

LEMMA StepTyped == ASSUME TypeOK, [Next]_vars PROVE TypeOK'
<1>1. ASSUME NEW r \in Replica, NEW h \in Height, NEW b \in BlockOf(ClusterOf(r)), OnDeliverBlk(r, h, b)
      PROVE  TypeOK'
  <2>1. cid_blkhash \in [Replica -> [Height -> {"none", "main", "fork"}]]
    BY DEF TypeOK
  <2>2. cid_blkhash' \in [Replica -> [Height -> {"none", "main", "fork"}]]
    BY <1>1, <2>1 DEF OnDeliverBlk, BlockOf
  <2> QED
    BY <1>1, <2>2 DEF OnDeliverBlk, TypeOK
<1>2. ASSUME NEW r \in Replica, NEW m \in mc1, ReceiveMc1(r, m[1], m[2], m[3])
      PROVE  TypeOK'
  <2>1. m[1] \in Cluster /\ m[2] \in Height /\ m[3] \in BOOLEAN
    BY MessageTyped
  <2>2. <<ClusterOf(r), m[1], m[2], m[3]>> \in Cluster \X Cluster \X Height \X BOOLEAN
    BY <2>1, ReplicaTyped
  <2>3. mc2' \subseteq Cluster \X Cluster \X Height \X BOOLEAN
    BY <1>2, <2>2 DEF ReceiveMc1, TypeOK
  <2>4. ReceiveMcLocal(r, m[1], m[2], m[3])
    BY <1>2 DEF ReceiveMc1
  <2> QED
    BY <2>1, <2>3, <2>4, ReceiveMcLocalTyped
<1>3. ASSUME NEW r \in Replica, NEW m \in mc2, ReceiveMc2(r, m[2], m[3], m[4])
      PROVE  TypeOK'
  <2>1. m[2] \in Cluster /\ m[3] \in Height /\ m[4] \in BOOLEAN
    BY MessageTyped
  <2>2. ReceiveMcLocal(r, m[2], m[3], m[4]) /\ mc2' = mc2
    BY <1>3 DEF ReceiveMc2
  <2>3. mc2' \subseteq Cluster \X Cluster \X Height \X BOOLEAN
    BY <2>2 DEF TypeOK
  <2> QED
    BY <2>1, <2>2, <2>3, ReceiveMcLocalTyped
<1>4. ASSUME NEW r \in Replica, NEW m \in lc, ReceiveLComplain(r, m[1], m[2])
      PROVE  TypeOK'
  <2>1. /\ m[1] \in Replica /\ m[2] \in Height /\ TakeLComplain(r, m[1], m[2])
        /\ lcomplains \in [Replica -> [Height -> SUBSET Replica]]
        /\ rc \subseteq Cluster \X Height \X {"other", "local"}
    BY <1>4, MessageTyped DEF ReceiveLComplain, TypeOK
  <2>2. /\ lcomplains' \in [Replica -> [Height -> SUBSET Replica]]
        /\ rc' \subseteq Cluster \X Height \X {"other", "local"}
    BY <2>1, TakeLComplainTyped
  <2> QED
    BY ZenonT(40), <1>4, <2>2 DEF ReceiveLComplain, TypeOK
<1>5. ASSUME NEW r \in Replica, NEW m \in rc, ReceiveRComplain(r, m[2])
      PROVE  TypeOK'
  BY Zenon, <1>5, MessageTyped, RComplainTyped
<1>6. CASE UNCHANGED vars
  BY <1>6 DEF vars, TypeOK
<1> QED
  BY ZenonT(40), <1>1, <1>2, <1>3, <1>4, <1>5, <1>6, CommitTyped, TimerTyped DEF Next

---------------------------------------------------------------------------
\* A block is delivered after its ancestors and before it is committed.
Delivered ==
  /\ \A r \in Replica, h \in Height :
        cid_blkhash[r][h] # "none" => \A k \in 1 .. h : cid_blkhash[r][k] # "none"
  /\ \A r \in Replica, h \in Height : h <= committed[r] => cid_blkhash[r][h] # "none"

\* What a replica records of one height.
Recorded == Delivered /\ ExecutedOnceReady /\ TimerOnlyWhileWaiting

LEMMA InitRecorded == Init => Recorded
<1>1. \A h \in Height : ~(h <= 0)
  BY BoundAssumption DEF Height
<1> QED
  BY <1>1 DEF Init, Recorded, Delivered, ExecutedOnceReady, TimerOnlyWhileWaiting

LEMMA DeliverRecorded ==
  ASSUME TypeOK, Recorded, NEW r \in Replica, NEW h \in Height, NEW b \in BlockOf(ClusterOf(r)),
         OnDeliverBlk(r, h, b)
  PROVE  Recorded'
<1>1. /\ cid_blkhash \in [Replica -> [Height -> {"none", "main", "fork"}]]
      /\ cid_blkhash' = [cid_blkhash EXCEPT ![r][h] = b] /\ b # "none"
      /\ h > 1 => cid_blkhash[r][h - 1] # "none"
      /\ UNCHANGED <<committed, finished, executed, timers>>
  BY DEF TypeOK, OnDeliverBlk, BlockOf
<1>2. \A s \in Replica, k \in Height :
        cid_blkhash'[s][k] = IF s = r /\ k = h THEN b ELSE cid_blkhash[s][k]
  BY <1>1
<1>3. \A k \in Height : k \in Nat /\ k >= 1 /\ 1 .. k \subseteq Height
  BY BoundAssumption DEF Height
<1>4. \A k \in 1 .. h : k = h \/ (h > 1 /\ h - 1 \in Height /\ k \in 1 .. h - 1)
  BY BoundAssumption DEF Height
<1>5. \A k \in 1 .. h : cid_blkhash'[r][k] # "none"
  BY SMTT(30), <1>1, <1>2, <1>3, <1>4 DEF Recorded, Delivered
<1>6. Delivered'
  BY <1>1, <1>2, <1>3, <1>5 DEF Recorded, Delivered
<1> QED
  BY Zenon, <1>1, <1>6 DEF Recorded, ExecutedOnceReady, TimerOnlyWhileWaiting

LEMMA CommitRecorded ==
  ASSUME TypeOK, Recorded, NEW r \in Replica, NEW h \in Height, Commit(r, h)
  PROVE  Recorded'
<1> DEFINE new == committed[r] + 1 .. h
<1>1. /\ committed \in [Replica -> 0 .. MaxHeight] /\ timers \in [Replica -> SUBSET Height]
      /\ executed \in [Replica -> [Height -> Seq({"main", "fork"})]]
  BY DEF TypeOK
<1>2. /\ committed[r] < h /\ cid_blkhash[r][h] # "none"
      /\ committed' = [committed EXCEPT ![r] = h]
      /\ executed' = [executed EXCEPT ![r] = [k \in Height |->
                        IF k \in new /\ k \in finished[r] THEN Append(@[k], "main") ELSE @[k]]]
      /\ timers' = [timers EXCEPT ![r] = @ \cup (new \ finished[r])]
      /\ UNCHANGED <<cid_blkhash, finished>>
  BY DEF Commit, Ready, Waiting
<1>3. h \in Nat /\ committed[r] \in Nat /\ \A k \in Height : k \in Nat /\ k >= 1
  BY <1>1, BoundAssumption DEF Height
<1>4. \A s \in Replica : committed'[s] = IF s = r THEN h ELSE committed[s]
  BY Zenon, <1>1, <1>2
<1>5. Delivered'
  <2>1. \A k \in Height : k <= h => k \in 1 .. h
    BY <1>3
  <2> QED
    BY <1>2, <1>4, <2>1 DEF Recorded, Delivered
<1>6. ExecutedOnceReady'
  <2> SUFFICES ASSUME NEW s \in Replica, NEW k \in Height
               PROVE  Len(executed'[s][k]) = IF k <= committed'[s] /\ k \in finished'[s] THEN 1 ELSE 0
    BY DEF ExecutedOnceReady
  <2>1. Len(executed[s][k]) = IF k <= committed[s] /\ k \in finished[s] THEN 1 ELSE 0
    BY DEF Recorded, ExecutedOnceReady
  <2>2. CASE s # r
    BY Zenon, <1>1, <1>2, <1>4, <2>1, <2>2
  <2>3. CASE s = r
    <3>1. executed'[r][k] = IF k \in new /\ k \in finished[r] THEN Append(executed[r][k], "main") ELSE executed[r][k]
      BY <1>1, <1>2
    <3>2. executed[r][k] \in Seq({"main", "fork"}) /\ Len(Append(executed[r][k], "main")) = Len(executed[r][k]) + 1
      BY <1>1
    <3>3. k \in new <=> k <= h /\ ~(k <= committed[r])
      BY SMTT(30), <1>3
    <3> HIDE DEF new
    <3>4. CASE k \in new /\ k \in finished[r]
      BY SMTT(30), <1>2, <1>4, <2>1, <2>3, <3>1, <3>2, <3>3, <3>4
    <3>5. CASE ~(k \in new /\ k \in finished[r])
      <4>1. Len(executed'[s][k]) = Len(executed[s][k]) /\ finished' = finished
        BY Zenon, <1>2, <2>3, <3>1, <3>5
      <4>2. k <= committed[r] => k <= h
        BY SMTT(30), <1>2, <1>3
      <4> QED
        BY Zenon, <1>4, <2>1, <2>3, <3>3, <3>5, <4>1, <4>2
    <3> QED
      BY <3>4, <3>5
  <2> QED
    BY <2>2, <2>3
<1>7. TimerOnlyWhileWaiting'
  <2>1. timers[r] \subseteq (1 .. committed[r]) \ finished[r]
    BY DEF Recorded, TimerOnlyWhileWaiting
  <2>2. timers'[r] \subseteq (1 .. h) \ finished[r]
    BY <1>1, <1>2, <1>3, <2>1
  <2> QED
    BY Zenon, <1>1, <1>2, <1>4, <2>2 DEF Recorded, TimerOnlyWhileWaiting
<1> QED
  BY Zenon, <1>5, <1>6, <1>7 DEF Recorded

LEMMA CountsRecorded ==
  ASSUME TypeOK, Recorded, NEW r \in Replica, NEW c, NEW h \in Height, Counts(r, c, h),
         UNCHANGED <<cid_blkhash, committed>>
  PROVE  Recorded'
<1> DEFINE complete == h \notin finished[r] /\ Complete(r, c, h)
           decides == complete /\ Decides(r, h)
<1>1. /\ committed \in [Replica -> 0 .. MaxHeight] /\ timers \in [Replica -> SUBSET Height]
      /\ executed \in [Replica -> [Height -> Seq({"main", "fork"})]]
      /\ finished \in [Replica -> SUBSET Height]
      /\ cid_blkhash \in [Replica -> [Height -> {"none", "main", "fork"}]]
  BY DEF TypeOK
<1>2. /\ finished' = [finished EXCEPT ![r] = IF complete THEN @ \cup {h} ELSE @]
      /\ executed' = [executed EXCEPT ![r][h] = IF decides THEN Append(@, cid_blkhash[r][h]) ELSE @]
      /\ timers' = [timers EXCEPT ![r] = IF decides THEN @ \ {h} ELSE @]
  BY DEF Counts
<1>3. decides <=> complete /\ h <= committed[r]
  BY DEF Decides, Recorded, Delivered
<1>4. complete => h \notin finished[r]
  OBVIOUS
<1> HIDE DEF complete, decides
<1>5. Delivered'
  BY DEF Recorded, Delivered
<1>6. ExecutedOnceReady'
  <2> SUFFICES ASSUME NEW s \in Replica, NEW k \in Height
               PROVE  Len(executed'[s][k]) = IF k <= committed[s] /\ k \in finished'[s] THEN 1 ELSE 0
    BY DEF ExecutedOnceReady
  <2>1. Len(executed[s][k]) = IF k <= committed[s] /\ k \in finished[s] THEN 1 ELSE 0
    BY DEF Recorded, ExecutedOnceReady
  <2>2. CASE s # r \/ k # h
    <3>1. executed'[s][k] = executed[s][k]
      BY <1>1, <1>2, <2>2
    <3>2. k \in finished'[s] <=> k \in finished[s]
      BY <1>1, <1>2, <2>2
    <3> QED
      BY <2>1, <3>1, <3>2
  <2>3. CASE s = r /\ k = h
    <3>1. executed'[r][h] = IF decides THEN Append(executed[r][h], cid_blkhash[r][h]) ELSE executed[r][h]
      BY <1>1, <1>2
    <3>2. decides => Len(Append(executed[r][h], cid_blkhash[r][h])) = Len(executed[r][h]) + 1
      <4>1. executed[r][h] \in Seq({"none", "main", "fork"}) /\ cid_blkhash[r][h] \in {"none", "main", "fork"}
        BY <1>1
      <4> QED
        BY <4>1
    <3>3. h \in finished'[r] <=> complete \/ h \in finished[r]
      BY <1>1, <1>2
    <3> QED
      BY SMTT(30), <1>3, <1>4, <2>1, <2>3, <3>1, <3>2, <3>3
  <2> QED
    BY <2>2, <2>3
<1>7. TimerOnlyWhileWaiting'
  <2>1. \A s \in Replica : timers[s] \subseteq (1 .. committed[s]) \ finished[s]
    BY DEF Recorded, TimerOnlyWhileWaiting
  <2>2. h \in 1 .. committed[r] => h <= committed[r]
    BY <1>1
  <2>3. timers'[r] \subseteq (1 .. committed[r]) \ finished'[r]
    BY Zenon, <1>1, <1>2, <1>3, <2>1, <2>2
  <2> QED
    BY <1>1, <1>2, <2>1, <2>3 DEF TimerOnlyWhileWaiting
<1> QED
  BY Zenon, <1>5, <1>6, <1>7 DEF Recorded

\* What remains: a step that leaves the record of the heights alone, except that a
\* timer may end.
LEMMA SameRecorded ==
  ASSUME Recorded, UNCHANGED <<cid_blkhash, committed, finished, executed>>,
         \A s \in Replica : timers'[s] \subseteq timers[s]
  PROVE  Recorded'
BY DEF Recorded, Delivered, ExecutedOnceReady, TimerOnlyWhileWaiting

LEMMA McRecorded ==
  ASSUME TypeOK, Recorded, NEW r \in Replica, NEW c, NEW h \in Height, NEW answer,
         ReceiveMcLocal(r, c, h, answer)
  PROVE  Recorded'
<1>1. UNCHANGED <<cid_blkhash, committed>>
  BY DEF ReceiveMcLocal
<1>2. CASE Counts(r, c, h)
  BY <1>1, <1>2, CountsRecorded
<1>3. CASE UNCHANGED <<tracker, finished, executed, timers>>
  BY Zenon, <1>1, <1>3, SameRecorded
<1> QED
  BY <1>2, <1>3, McEffects

LEMMA StepRecorded == ASSUME TypeOK, Recorded, [Next]_vars PROVE Recorded'
<1>1. ASSUME NEW r \in Replica, NEW h \in Height, RemoteViewChangeTimer(r, h)
      PROVE  Recorded'
  <2>1. timers \in [Replica -> SUBSET Height] /\ timers' = [timers EXCEPT ![r] = @ \ {h}]
        /\ UNCHANGED <<cid_blkhash, committed, finished, executed>>
    BY <1>1 DEF RemoteViewChangeTimer, TypeOK
  <2> QED
    BY Zenon, <2>1, SameRecorded
<1>2. ASSUME NEW r \in Replica, NEW m \in mc1, ReceiveMc1(r, m[1], m[2], m[3])
      PROVE  Recorded'
  BY <1>2, McRecorded, MessageTyped DEF ReceiveMc1
<1>3. ASSUME NEW r \in Replica, NEW m \in mc2, ReceiveMc2(r, m[2], m[3], m[4])
      PROVE  Recorded'
  BY <1>3, McRecorded, MessageTyped DEF ReceiveMc2
<1>4. ASSUME NEW r \in Replica, NEW m \in lc, ReceiveLComplain(r, m[1], m[2])
      PROVE  Recorded'
  BY Zenon, <1>4, SameRecorded DEF ReceiveLComplain
<1>5. ASSUME NEW r \in Replica, NEW m \in rc, ReceiveRComplain(r, m[2])
      PROVE  Recorded'
  BY <1>5, SameRecorded DEF ReceiveRComplain
<1>6. CASE UNCHANGED vars
  BY Zenon, <1>6, SameRecorded DEF vars
<1> QED
  BY Zenon, <1>1, <1>2, <1>3, <1>4, <1>5, <1>6, DeliverRecorded, CommitRecorded DEF Next

---------------------------------------------------------------------------
\* A replica of cluster c has committed height h, or has answered a complaint of it.
Announced(c, h) ==
  \E s \in Replica : ClusterOf(s) = c /\ (h <= committed[s] \/ h \in rcomplains[s])

\* What is said of another cluster, on its way, in the tracker or in finished_mc_cids,
\* comes from a replica of that cluster.
Heard ==
  /\ \A m \in mc1 : Announced(m[1], m[2])
  /\ \A m \in mc2 : Announced(m[2], m[3])
  /\ \A r \in Replica, h \in Height : \A c \in tracker[r][h] : Announced(c, h)
  /\ \A r \in Replica : \A h \in finished[r] : \A c \in Cluster \ {ClusterOf(r)} : Announced(c, h)

LEMMA InitHeard == Init => Heard
BY SMTT(30) DEF Init, Heard

\* Commits and complaints are never taken back.
Grows ==
  /\ \A s \in Replica : committed[s] <= committed'[s] /\ rcomplains[s] \subseteq rcomplains'[s]
  /\ lc \subseteq lc'

LEMMA SameGrows ==
  ASSUME TypeOK, UNCHANGED <<committed, rcomplains, lc>>
  PROVE  Grows
<1>1. committed \in [Replica -> 0 .. MaxHeight]
  BY DEF TypeOK
<1>2. \A s \in Replica : committed[s] <= committed[s]
  BY SMTT(30), <1>1, BoundAssumption
<1> QED
  BY <1>2 DEF Grows

LEMMA StepGrows == ASSUME TypeOK, [Next]_vars PROVE Grows
<1>0. /\ committed \in [Replica -> 0 .. MaxHeight] /\ rcomplains \in [Replica -> SUBSET Height]
      /\ \A s \in Replica : committed[s] <= committed[s]
  <2>1. committed \in [Replica -> 0 .. MaxHeight] /\ rcomplains \in [Replica -> SUBSET Height]
    BY DEF TypeOK
  <2> QED
    BY <2>1, BoundAssumption
<1>1. ASSUME NEW r \in Replica, NEW h \in Height, Commit(r, h)
      PROVE  Grows
  <2>1. committed[r] < h /\ committed' = [committed EXCEPT ![r] = h] /\ UNCHANGED <<rcomplains, lc>>
    BY <1>1 DEF Commit
  <2>2. committed[r] <= h
    BY SMTT(30), <1>0, <2>1, BoundAssumption DEF Height
  <2> QED
    BY SMTT(30), <1>0, <2>1, <2>2 DEF Grows
<1>2. ASSUME NEW r \in Replica, NEW h \in Height, RemoteViewChangeTimer(r, h)
      PROVE  Grows
  BY Zenon, <1>0, <1>2 DEF RemoteViewChangeTimer, Grows
<1>3. ASSUME NEW r \in Replica, NEW m \in rc, ReceiveRComplain(r, m[2])
      PROVE  Grows
  BY <1>0, <1>3 DEF ReceiveRComplain, Grows
<1>4. CASE UNCHANGED <<committed, rcomplains, lc>>
  BY <1>4, SameGrows
<1>5. ASSUME NEW r, NEW c, NEW h, NEW b,
             \/ OnDeliverBlk(r, h, b) \/ ReceiveMc1(r, c, h, b) \/ ReceiveMc2(r, c, h, b)
             \/ ReceiveLComplain(r, c, h) \/ UNCHANGED vars
      PROVE  UNCHANGED <<committed, rcomplains, lc>>
  BY Zenon, <1>5 DEF OnDeliverBlk, ReceiveMc1, ReceiveMc2, ReceiveMcLocal, ReceiveLComplain, TakeLComplain, vars
<1> QED
  BY ZenonT(60), <1>1, <1>2, <1>3, <1>4, <1>5 DEF Next

LEMMA AnnouncedStays ==
  ASSUME TypeOK, TypeOK', Grows
  PROVE  \A c \in Cluster, h \in Height : Announced(c, h) => Announced(c, h)'
<1>1. \A s \in Replica : committed[s] \in 0 .. MaxHeight /\ committed'[s] \in 0 .. MaxHeight
  BY DEF TypeOK
<1>2. \A s \in Replica, h \in Height : h <= committed[s] => h <= committed'[s]
  BY SMTT(30), <1>1, BoundAssumption DEF Grows, Height
<1> QED
  BY Zenon, <1>2 DEF Grows, Announced

LEMMA CountsHeard ==
  ASSUME TypeOK, TypeOK', Heard, Grows, NEW r \in Replica, NEW c \in Cluster, NEW h \in Height,
         Announced(c, h), Counts(r, c, h)
  PROVE  /\ \A s \in Replica, k \in Height : \A d \in tracker'[s][k] : Announced(d, k)'
         /\ \A s \in Replica : \A k \in finished'[s] : \A d \in Cluster \ {ClusterOf(s)} : Announced(d, k)'
<1>1. /\ tracker \in [Replica -> [Height -> SUBSET Cluster]] /\ finished \in [Replica -> SUBSET Height]
  BY DEF TypeOK
<1>2. /\ \A s \in Replica, k \in Height :
            tracker'[s][k] \subseteq tracker[s][k] \cup (IF s = r /\ k = h THEN {c} ELSE {})
      /\ \A s \in Replica :
            finished'[s] \subseteq finished[s] \cup (IF s = r /\ Complete(r, c, h) THEN {h} ELSE {})
  BY Zenon, <1>1 DEF Counts
<1>3. Complete(r, c, h) => \A d \in Cluster \ {ClusterOf(r)} : Announced(d, h)
  BY DEF Complete, Heard
<1>4. \A d \in Cluster, k \in Height : Announced(d, k) => Announced(d, k)'
  BY Zenon, AnnouncedStays
<1>5. \A s \in Replica, k \in Height : \A d \in tracker'[s][k] : d \in Cluster /\ Announced(d, k)
  BY SMTT(30), <1>1, <1>2 DEF Heard
<1>6. \A s \in Replica : \A k \in finished'[s] : k \in Height /\ \A d \in Cluster \ {ClusterOf(s)} : Announced(d, k)
  BY <1>1, <1>2, <1>3 DEF Heard
<1> QED
  BY Zenon, <1>4, <1>5, <1>6

\* A step of which only the messages may matter.
LEMMA SentHeard ==
  ASSUME TypeOK, TypeOK', Heard, Grows, UNCHANGED <<tracker, finished>>,
         \A m \in mc1' : m \in mc1 \/ Announced(m[1], m[2])',
         \A m \in mc2' : m \in mc2 \/ Announced(m[2], m[3])'
  PROVE  Heard'
<1>1. tracker \in [Replica -> [Height -> SUBSET Cluster]] /\ finished \in [Replica -> SUBSET Height]
  BY DEF TypeOK
<1> QED
  BY SMTT(30), <1>1, AnnouncedStays, MessageTyped DEF Heard

LEMMA McHeard ==
  ASSUME TypeOK, TypeOK', Heard, Grows, NEW r \in Replica, NEW c \in Cluster, NEW h \in Height,
         NEW answer, Announced(c, h), ReceiveMcLocal(r, c, h, answer),
         \A m \in mc2' : m \in mc2 \/ (m[2] = c /\ m[3] = h)
  PROVE  Heard'
<1>1. Announced(c, h)'
  BY Zenon, AnnouncedStays
<1>2. mc1' = mc1
  BY DEF ReceiveMcLocal
<1>3. \A m \in mc2' : m \in mc2 \/ Announced(m[2], m[3])'
  <2> SUFFICES ASSUME NEW m \in mc2', m[2] = c, m[3] = h PROVE Announced(m[2], m[3])'
    BY Zenon
  <2> QED
    BY <1>1
<1>4. CASE UNCHANGED <<tracker, finished, executed, timers>>
  BY Zenon, <1>2, <1>3, <1>4, SentHeard
<1>5. CASE Counts(r, c, h)
  <2>1. \A m \in mc1' : Announced(m[1], m[2])'
    BY Zenon, <1>2, AnnouncedStays, MessageTyped DEF Heard
  <2>2. \A m \in mc2' : Announced(m[2], m[3])'
    BY Zenon, <1>3, AnnouncedStays, MessageTyped DEF Heard
  <2> QED
    BY <1>5, <2>1, <2>2, CountsHeard DEF Heard
<1> QED
  BY <1>4, <1>5, McEffects

LEMMA StepHeard == ASSUME TypeOK, Heard, [Next]_vars PROVE Heard'
<1>0. TypeOK' /\ Grows
  BY StepTyped, StepGrows
<1>1. ASSUME NEW r \in Replica, NEW h \in Height, Commit(r, h)
      PROVE  Heard'
  <2> DEFINE new == committed[r] + 1 .. h
  <2>1. /\ mc1' \subseteq mc1 \cup ({ClusterOf(r)} \X new \X {FALSE}) /\ committed' = [committed EXCEPT ![r] = h]
        /\ UNCHANGED <<tracker, finished, mc2>>
    BY ZenonT(40), <1>1 DEF Commit
  <2>2. committed \in [Replica -> 0 .. MaxHeight]
    BY DEF TypeOK
  <2>3. committed'[r] = h /\ \A k \in new : k <= h
    BY SMTT(30), <2>1, <2>2, BoundAssumption DEF Height
  <2>4. \A k \in new : Announced(ClusterOf(r), k)'
    BY <2>3 DEF Announced
  <2>5. \A m \in {ClusterOf(r)} \X new \X {FALSE} : m[1] = ClusterOf(r) /\ m[2] \in new
    OBVIOUS
  <2> HIDE DEF new
  <2>6. \A m \in mc1' : m \in mc1 \/ (m[1] = ClusterOf(r) /\ m[2] \in new)
    BY Zenon, <2>1, <2>5
  <2>7. \A m \in mc1' : m \in mc1 \/ Announced(m[1], m[2])'
    BY <2>4, <2>6
  <2> QED
    BY Zenon, <1>0, <2>1, <2>7, SentHeard
<1>2. ASSUME NEW r \in Replica, NEW m \in mc1, ReceiveMc1(r, m[1], m[2], m[3])
      PROVE  Heard'
  <2>1. /\ m[1] \in Cluster /\ m[2] \in Height /\ Announced(m[1], m[2])
        /\ ReceiveMcLocal(r, m[1], m[2], m[3]) /\ mc2' = mc2 \cup {<<ClusterOf(r), m[1], m[2], m[3]>>}
    BY <1>2, MessageTyped DEF Heard, ReceiveMc1
  <2>2. \A n \in mc2' : n \in mc2 \/ (n[2] = m[1] /\ n[3] = m[2])
    BY <2>1
  <2> QED
    BY SMTT(30), <1>0, <2>1, <2>2, McHeard
<1>3. ASSUME NEW r \in Replica, NEW m \in mc2, ReceiveMc2(r, m[2], m[3], m[4])
      PROVE  Heard'
  <2>1. /\ m[2] \in Cluster /\ m[3] \in Height /\ Announced(m[2], m[3])
        /\ ReceiveMcLocal(r, m[2], m[3], m[4]) /\ mc2' = mc2
    BY <1>3, MessageTyped DEF Heard, ReceiveMc2
  <2> QED
    BY ZenonT(40), <1>0, <2>1, McHeard
<1>4. ASSUME NEW r \in Replica, NEW m \in rc, ReceiveRComplain(r, m[2])
      PROVE  Heard'
  <2> DEFINE h == m[2]
  <2>1. UNCHANGED <<tracker, finished, mc2>>
    BY <1>4 DEF ReceiveRComplain
  <2>2. CASE cid_blkhash[r][h] = "none"
    <3>1. mc1' = mc1
      BY Zenon, <1>4, <2>2 DEF ReceiveRComplain
    <3> QED
      BY Zenon, <1>0, <2>1, <3>1, SentHeard
  <2>3. CASE cid_blkhash[r][h] # "none"
    <3>1. mc1' = mc1 \cup {<<ClusterOf(r), h, TRUE>>} /\ rcomplains' = [rcomplains EXCEPT ![r] = @ \cup {h}]
      BY ZenonT(40), <1>4, <2>3 DEF ReceiveRComplain, Answer
    <3>2. h \in rcomplains'[r]
      BY <3>1 DEF TypeOK
    <3> HIDE DEF h
    <3>3. Announced(ClusterOf(r), h)'
      BY <3>2 DEF Announced
    <3>4. \A n \in mc1' : n \in mc1 \/ (n[1] = ClusterOf(r) /\ n[2] = h)
      <4> DEFINE x == <<ClusterOf(r), h, TRUE>>
      <4>1. x[1] = ClusterOf(r) /\ x[2] = h /\ mc1' = mc1 \cup {x}
        BY <3>1
      <4> HIDE DEF x
      <4> QED
        BY <4>1
    <3>5. \A n \in mc1' : n \in mc1 \/ Announced(n[1], n[2])'
      BY <3>3, <3>4
    <3> QED
      BY Zenon, <1>0, <2>1, <3>5, SentHeard
  <2> QED
    BY Zenon, <2>2, <2>3
<1>5. CASE UNCHANGED <<tracker, finished, mc1, mc2>>
  BY <1>0, <1>5, SentHeard
<1> QED
  BY Zenon, <1>1, <1>2, <1>3, <1>4, <1>5
     DEF Next, OnDeliverBlk, RemoteViewChangeTimer, ReceiveLComplain, vars

\* What is proved of the execution across clusters, in every state.
THEOREM ExecutionInv == Spec => [](TypeOK /\ Recorded /\ Heard)
<1>1. Init => TypeOK /\ Recorded /\ Heard
  BY InitTyped, InitRecorded, InitHeard
<1>2. TypeOK /\ Recorded /\ Heard /\ [Next]_vars => (TypeOK /\ Recorded /\ Heard)'
  BY StepTyped, StepRecorded, StepHeard
<1> QED
  BY <1>1, <1>2, PTL DEF Spec

\* update() and decide_after_mc execute a height once, and exactly when it is both
\* committed and heard of from every cluster, whichever of the two comes last.
THEOREM ExecutesOnce == Spec => []ExecutedOnceReady
<1>1. TypeOK /\ Recorded /\ Heard => ExecutedOnceReady
  BY DEF Recorded
<1> QED
  BY <1>1, ExecutionInv, PTL

\* Both ways of executing a height stop its remote view change timer.
THEOREM TimersStop == Spec => []TimerOnlyWhileWaiting
<1>1. TypeOK /\ Recorded /\ Heard => TimerOnlyWhileWaiting
  BY DEF Recorded
<1> QED
  BY <1>1, ExecutionInv, PTL

\* A height is executed after every cluster has committed it or has answered a
\* complaint of it, however the messages about it are delayed, lost or repeated.
THEOREM ExecutesLast == Spec => []ExecutedAfterAllClusters
<1>1. ASSUME TypeOK, Recorded, Heard PROVE ExecutedAfterAllClusters
  <2> SUFFICES ASSUME NEW r \in Replica, NEW h \in Height, executed[r][h] # << >>, NEW c \in Cluster
               PROVE  Announced(c, h)
    BY DEF ExecutedAfterAllClusters, Announced
  <2>1. executed[r][h] \in Seq({"main", "fork"})
    <3>1. executed \in [Replica -> [Height -> Seq({"main", "fork"})]]
      BY <1>1 DEF TypeOK
    <3> QED
      BY Zenon, <3>1
  <2>2. Len(executed[r][h]) # 0
    BY SMTT(30), <2>1
  <2>3. h <= committed[r] /\ h \in finished[r]
    BY <1>1, <2>2 DEF Recorded, ExecutedOnceReady
  <2>4. CASE c = ClusterOf(r)
    BY Zenon, <2>3, <2>4 DEF Announced
  <2>5. CASE c # ClusterOf(r)
    BY Zenon, <1>1, <2>3, <2>5 DEF Heard
  <2> QED
    BY <2>4, <2>5
<1> QED
  BY <1>1, ExecutionInv, PTL

---------------------------------------------------------------------------
\* The replicas of cluster c that have committed h and complained of it.
Complainers(c, h) == {s \in Replica : ClusterOf(s) = c /\ h <= committed[s] /\ <<s, h>> \in lc}
Majority(c, h) == Cardinality(Complainers(c, h)) >= nmajority(c)

\* A complaint is about a committed height, the complaints a replica has counted
\* have been made, and an RComplain speaks for a majority of the cluster that sent
\* it, or of another cluster once it is passed on.
Complained ==
  /\ \A m \in lc : m[2] <= committed[m[1]]
  /\ \A r \in Replica, h \in Height : lcomplains[r][h] \subseteq Complainers(ClusterOf(r), h)
  /\ \A m \in rc : \/ m[3] = "other" /\ Majority(m[1], m[2])
                   \/ m[3] = "local" /\ \E d \in Cluster \ {m[1]} : Majority(d, m[2])
  /\ \A r \in Replica : \A h \in rcomplains[r] : \E d \in Cluster \ {ClusterOf(r)} : Majority(d, h)

LEMMA InitComplained == Init => Complained
BY DEF Init, Complained

LEMMA ReplicaFinite == IsFiniteSet(Replica)
<1> DEFINE Of(c) == {c} \X (0 .. Size[c] - 1)
           f == [c \in Cluster |-> Of(c)]
           T == {Of(c) : c \in Cluster}
<1>1. \A c \in Cluster : IsFiniteSet(Of(c))
  <2> SUFFICES ASSUME NEW c \in Cluster PROVE IsFiniteSet(Of(c))
    OBVIOUS
  <2>1. Size[c] - 1 \in Int
    BY ClusterAssumption
  <2>2. IsFiniteSet(0 .. Size[c] - 1)
    BY <2>1, FS_Interval
  <2>3. IsFiniteSet({c})
    BY Zenon, FS_Singleton
  <2> QED
    BY Zenon, <2>2, <2>3, FS_Product
<1>2. f \in Surjection(Cluster, T)
  BY DEF Surjection
<1>3. IsFiniteSet(T)
  BY <1>2, FS_Surjection, ClusterAssumption
<1>4. Replica = UNION T
  BY DEF Replica
<1> QED
  BY Zenon, <1>1, <1>3, <1>4, FS_UNION

LEMMA ComplainersFinite ==
  ASSUME NEW c, NEW h
  PROVE  IsFiniteSet(Complainers(c, h)) /\ Cardinality(Complainers(c, h)) \in Nat
<1>1. Complainers(c, h) \subseteq Replica
  BY DEF Complainers
<1> QED
  BY Zenon, <1>1, ReplicaFinite, FS_Subset, FS_CardinalityType

LEMMA ComplainersGrow ==
  ASSUME TypeOK, TypeOK', Grows
  PROVE  \A c \in Cluster, h \in Height : Complainers(c, h) \subseteq Complainers(c, h)'
<1>1. \A s \in Replica : committed[s] \in 0 .. MaxHeight /\ committed'[s] \in 0 .. MaxHeight
  BY DEF TypeOK
<1>2. \A s \in Replica, h \in Height : h <= committed[s] => h <= committed'[s]
  BY <1>1, BoundAssumption DEF Grows, Height
<1> QED
  BY Zenon, <1>2 DEF Grows, Complainers

LEMMA ComplainersFiniteNext ==
  ASSUME NEW c, NEW h
  PROVE  IsFiniteSet(Complainers(c, h)') /\ Cardinality(Complainers(c, h)') \in Nat
<1>1. Complainers(c, h)' \subseteq Replica
  BY DEF Complainers
<1> QED
  BY <1>1, ReplicaFinite, FS_Subset, FS_CardinalityType

LEMMA nmajorityTyped == ASSUME NEW c \in Cluster PROVE nmajority(c) \in Int
<1>1. Size[c] \in Nat \ {0}
  BY ClusterAssumption
<1>2. (Size[c] - 1) \div 3 \in Int
  BY <1>1
<1> QED
  BY <1>1, <1>2 DEF nmajority

LEMMA MajorityStays ==
  ASSUME TypeOK, TypeOK', Grows, NEW c \in Cluster, NEW h \in Height, Majority(c, h)
  PROVE  Majority(c, h)'
<1>1. Complainers(c, h) \subseteq Complainers(c, h)'
  BY ComplainersGrow
<1>2. Cardinality(Complainers(c, h)) <= Cardinality(Complainers(c, h)')
  BY <1>1, ComplainersFiniteNext, FS_Subset
<1>3. Cardinality(Complainers(c, h)) >= nmajority(c)
  BY DEF Majority
<1>4. Cardinality(Complainers(c, h)') >= nmajority(c)
  BY SMTT(30), <1>2, <1>3, ComplainersFinite, ComplainersFiniteNext, nmajorityTyped
<1> QED
  BY <1>4 DEF Majority, nmajority

\* A step in which no complaint is counted, and an RComplain is at most passed on.
LEMMA SameComplained ==
  ASSUME TypeOK, TypeOK', Grows, Complained, UNCHANGED <<lcomplains, lc>>,
         \A m \in rc' : \/ m \in rc
                        \/ m[3] = "local" /\ \E d \in Cluster \ {m[1]} : Majority(d, m[2])',
         \A r \in Replica : \A h \in rcomplains'[r] :
            h \in rcomplains[r] \/ \E d \in Cluster \ {ClusterOf(r)} : Majority(d, h)'
  PROVE  Complained'
<1>0. /\ committed \in [Replica -> 0 .. MaxHeight] /\ committed' \in [Replica -> 0 .. MaxHeight]
      /\ rcomplains \in [Replica -> SUBSET Height]
  BY ZenonT(40) DEF TypeOK
<1>1. \A m \in lc' : m[2] <= committed'[m[1]]
  <2> SUFFICES ASSUME NEW m \in lc PROVE m[2] <= committed'[m[1]]
    BY Zenon
  <2>1. m[1] \in Replica /\ m[2] \in Height /\ m[2] <= committed[m[1]]
    BY Zenon, MessageTyped DEF Complained
  <2> QED
    BY SMTT(30), <1>0, <2>1, BoundAssumption DEF Grows, Height
<1>2. \A r \in Replica, h \in Height : lcomplains'[r][h] \subseteq Complainers(ClusterOf(r), h)'
  BY Zenon, ComplainersGrow, ReplicaTyped DEF Complained
<1>3. \A m \in rc' : \/ m[3] = "other" /\ Majority(m[1], m[2])'
                     \/ m[3] = "local" /\ \E d \in Cluster \ {m[1]} : Majority(d, m[2])'
  BY Zenon, MajorityStays, MessageTyped DEF Complained
<1>4. \A r \in Replica : \A h \in rcomplains'[r] : \E d \in Cluster \ {ClusterOf(r)} : Majority(d, h)'
  BY ZenonT(40), <1>0, MajorityStays DEF Complained
<1> QED
  BY ZenonT(40), <1>1, <1>2, <1>3, <1>4 DEF Complained

\* on_receive_LComplain with a complaint that has been made.
LEMMA TakeComplained ==
  ASSUME TypeOK, TypeOK', Grows, Complained, NEW r \in Replica, NEW v \in Replica, NEW h \in Height,
         TakeLComplain(r, v, h), v \in Complainers(ClusterOf(r), h)', rcomplains' = rcomplains,
         \A m \in lc' : m \in lc \/ m[2] <= committed'[m[1]]
  PROVE  Complained'
<1>0. /\ committed \in [Replica -> 0 .. MaxHeight] /\ committed' \in [Replica -> 0 .. MaxHeight]
      /\ rcomplains \in [Replica -> SUBSET Height] /\ lcomplains \in [Replica -> [Height -> SUBSET Replica]]
  BY DEF TypeOK
<1>1. \A m \in lc' : m[2] <= committed'[m[1]]
  <2> SUFFICES ASSUME NEW m \in lc PROVE m[2] <= committed'[m[1]]
    OBVIOUS
  <2>1. m[1] \in Replica /\ m[2] \in Height /\ m[2] <= committed[m[1]]
    BY Zenon, MessageTyped DEF Complained
  <2> QED
    BY SMTT(30), <1>0, <2>1, BoundAssumption DEF Grows, Height
<1>2. \A s \in Replica, k \in Height : lcomplains[s][k] \subseteq Complainers(ClusterOf(s), k)'
  BY Zenon, ComplainersGrow, ReplicaTyped DEF Complained
<1>3. \A s \in Replica, k \in Height : lcomplains'[s][k] \subseteq Complainers(ClusterOf(s), k)'
  <2>1. /\ lcomplains' = [lcomplains EXCEPT ![r][h] = AddComplaint(r, v, h)]
        /\ AddComplaint(r, v, h) \subseteq lcomplains[r][h] \cup {v}
    BY Zenon DEF TakeLComplain, AddComplaint
  <2>2. \A s \in Replica, k \in Height :
          lcomplains'[s][k] \subseteq lcomplains[s][k] \cup (IF s = r /\ k = h THEN {v} ELSE {})
    BY <1>0, <2>1
  <2> QED
    BY Zenon, <1>2, <2>2
<1>4. CompletesComplaint(r, v, h) => Majority(ClusterOf(r), h)'
  <2> DEFINE C == Complainers(ClusterOf(r), h)'
             L == lcomplains[r][h]
  <2>1. L \cup {v} \subseteq C /\ IsFiniteSet(C) /\ Cardinality(C) \in Nat
    BY Zenon, <1>2, ComplainersFiniteNext
  <2>2. IsFiniteSet(L) /\ IsFiniteSet(L \cup {v}) /\ Cardinality(L \cup {v}) <= Cardinality(C)
    BY Zenon, <2>1, FS_Subset
  <2>3. CompletesComplaint(r, v, h) => Cardinality(L \cup {v}) = nmajority(ClusterOf(r))
    <3>1. v \notin L => Cardinality(L \cup {v}) = Cardinality(L) + 1
      BY Zenon, <2>2, FS_AddElement
    <3> QED
      BY Zenon, <3>1 DEF CompletesComplaint
  <2> HIDE DEF L
  <2>4. CompletesComplaint(r, v, h) => Cardinality(C) >= nmajority(ClusterOf(r))
    BY Zenon, <2>1, <2>2, <2>3, nmajorityTyped, ReplicaTyped
  <2> QED
    BY Zenon, <2>4 DEF Majority, nmajority
<1>5. \A m \in rc' : m \in rc \/ (m[3] = "other" /\ Majority(m[1], m[2])')
  <2> DEFINE x == <<ClusterOf(r), h, "other">>
  <2>1. x[1] = ClusterOf(r) /\ x[2] = h /\ x[3] = "other"
    OBVIOUS
  <2>2. rc' \subseteq rc \cup (IF CompletesComplaint(r, v, h) THEN {x} ELSE {})
    BY DEF TakeLComplain
  <2> HIDE DEF x
  <2>3. \A m \in rc' : m \in rc \/ (m[1] = ClusterOf(r) /\ m[2] = h /\ m[3] = "other" /\ CompletesComplaint(r, v, h))
    BY Zenon, <2>1, <2>2
  <2> QED
    BY <1>4, <2>3
<1>6. \A m \in rc' : \/ m[3] = "other" /\ Majority(m[1], m[2])'
                     \/ m[3] = "local" /\ \E d \in Cluster \ {m[1]} : Majority(d, m[2])'
  BY Zenon, <1>5, MajorityStays, MessageTyped DEF Complained
<1>7. \A s \in Replica : \A k \in rcomplains'[s] : \E d \in Cluster \ {ClusterOf(s)} : Majority(d, k)'
  BY Zenon, <1>0, MajorityStays DEF Complained
<1> QED
  BY ZenonT(40), <1>1, <1>3, <1>6, <1>7 DEF Complained

LEMMA TimerComplained ==
  ASSUME TypeOK, TypeOK', Grows, Recorded, Complained, NEW r \in Replica, NEW h \in Height,
         RemoteViewChangeTimer(r, h)
  PROVE  Complained'
<1>1. h \in timers[r] /\ UNCHANGED <<committed, rcomplains>>
  BY DEF RemoteViewChangeTimer
<1>2. h <= committed[r]
  <2>1. h \in 1 .. committed[r] /\ committed[r] \in 0 .. MaxHeight
    BY ZenonT(40), <1>1 DEF Recorded, TimerOnlyWhileWaiting, TypeOK
  <2> QED
    BY SMTT(30), <2>1
<1>3. CASE lc' = lc \cup {<<r, h>>} /\ TakeLComplain(r, r, h)
  <2>1. r \in Complainers(ClusterOf(r), h)'
    BY Zenon, <1>1, <1>2, <1>3 DEF Complainers
  <2>2. \A m \in lc' : m \in lc \/ m[2] <= committed'[m[1]]
    BY SMTT(30), <1>1, <1>2, <1>3
  <2> QED
    BY ZenonT(40), <1>1, <1>3, <2>1, <2>2, TakeComplained
<1>4. CASE UNCHANGED <<lc, last_rvc, lcomplains, rc>>
  BY Zenon, <1>1, <1>4, SameComplained
<1> QED
  BY ZenonT(40), <1>3, <1>4 DEF RemoteViewChangeTimer

LEMMA LComplainComplained ==
  ASSUME TypeOK, TypeOK', Grows, Complained, NEW r \in Replica, NEW m \in lc, m[1] \in Peers(r),
         ReceiveLComplain(r, m[1], m[2])
  PROVE  Complained'
<1>1. m[1] \in Replica /\ m[2] \in Height /\ <<m[1], m[2]>> \in lc /\ m[2] <= committed[m[1]]
  BY ZenonT(40), MessageTyped DEF Complained
<1>2. UNCHANGED <<committed, rcomplains, lc>> /\ TakeLComplain(r, m[1], m[2])
  BY DEF ReceiveLComplain
<1>3. m[1] \in Complainers(ClusterOf(r), m[2])'
  BY Zenon, <1>1, <1>2 DEF Complainers, Peers
<1> QED
  BY Zenon, <1>1, <1>2, <1>3, TakeComplained

LEMMA RComplainComplained ==
  ASSUME TypeOK, TypeOK', Grows, Complained, NEW r \in Replica, NEW m \in rc, HearsComplaint(r, m),
         ReceiveRComplain(r, m[2])
  PROVE  Complained'
<1> DEFINE h == m[2]
           x == <<ClusterOf(r), h, "local">>
<1>1. UNCHANGED <<lcomplains, lc>> /\ h \in Height
  BY MessageTyped DEF ReceiveRComplain
<1>2. \E d \in Cluster \ {ClusterOf(r)} : Majority(d, h)
  <2>1. m[1] \in Cluster /\ m[3] \in {"other", "local"}
    BY Zenon, MessageTyped
  <2>2. CASE m[3] = "other"
    BY ZenonT(40), <2>1, <2>2 DEF Complained, HearsComplaint, Hears
  <2>3. CASE m[3] = "local"
    BY <2>1, <2>3 DEF Complained, HearsComplaint
  <2> QED
    BY <2>1, <2>2, <2>3
<1>3. \E d \in Cluster \ {ClusterOf(r)} : Majority(d, h)'
  BY ZenonT(40), <1>1, <1>2, MajorityStays
<1>4. rc' \subseteq rc \cup {x} /\ x[1] = ClusterOf(r) /\ x[2] = h /\ x[3] = "local"
  BY DEF ReceiveRComplain, Relay
<1>5. \A s \in Replica : rcomplains'[s] \subseteq rcomplains[s] \cup (IF s = r THEN {h} ELSE {})
  <2>1. rcomplains \in [Replica -> SUBSET Height]
    BY ZenonT(40) DEF TypeOK
  <2>2. rcomplains' \in {rcomplains, [rcomplains EXCEPT ![r] = @ \cup {h}]}
    BY DEF ReceiveRComplain
  <2> QED
    BY Zenon, <2>1, <2>2
<1> HIDE DEF h, x
<1>6. \A n \in rc' : n \in rc \/ (n[1] = ClusterOf(r) /\ n[2] = h /\ n[3] = "local")
  BY <1>4
<1>7. \A n \in rc' : n \in rc \/ (n[3] = "local" /\ \E d \in Cluster \ {n[1]} : Majority(d, n[2])')
  <2> SUFFICES ASSUME NEW n \in rc', n \notin rc
               PROVE  n[3] = "local" /\ \E d \in Cluster \ {n[1]} : Majority(d, n[2])'
    OBVIOUS
  <2>1. n[1] = ClusterOf(r) /\ n[2] = h /\ n[3] = "local"
    BY Zenon, <1>6
  <2> QED
    BY <1>3, <2>1
<1>8. \A s \in Replica : \A k \in rcomplains'[s] :
        k \in rcomplains[s] \/ \E d \in Cluster \ {ClusterOf(s)} : Majority(d, k)'
  BY Zenon, <1>3, <1>5
<1> QED
  BY Zenon, <1>1, <1>7, <1>8, SameComplained

LEMMA StepComplained == ASSUME TypeOK, Recorded, Complained, [Next]_vars PROVE Complained'
<1>0. TypeOK' /\ Grows
  BY StepTyped, StepGrows
<1>1. CASE UNCHANGED <<rcomplains, lcomplains, lc, rc>>
  BY <1>0, <1>1, SameComplained
<1>2. ASSUME NEW r, NEW c, NEW h, NEW b,
             \/ OnDeliverBlk(r, h, b) \/ Commit(r, h)
             \/ ReceiveMc1(r, c, h, b) \/ ReceiveMc2(r, c, h, b) \/ UNCHANGED vars
      PROVE  UNCHANGED <<rcomplains, lcomplains, lc, rc>>
  BY Zenon, <1>2 DEF OnDeliverBlk, Commit, ReceiveMc1, ReceiveMc2, ReceiveMcLocal, vars
<1>3. ASSUME NEW r \in Replica, NEW h \in Height, RemoteViewChangeTimer(r, h)
      PROVE  Complained'
  BY <1>0, <1>3, TimerComplained
<1>4. ASSUME NEW r \in Replica, NEW m \in lc, m[1] \in Peers(r), ReceiveLComplain(r, m[1], m[2])
      PROVE  Complained'
  BY <1>0, <1>4, LComplainComplained
<1>5. ASSUME NEW r \in Replica, NEW m \in rc, HearsComplaint(r, m), ReceiveRComplain(r, m[2])
      PROVE  Complained'
  BY <1>0, <1>5, RComplainComplained
<1> QED
  BY ZenonT(60), <1>1, <1>2, <1>3, <1>4, <1>5 DEF Next

\* No replica answers an RComplain and rotates its proposer unless a majority of
\* another cluster has committed the height and complained of it.
THEOREM RotatesForMajority == Spec => []RotatedForMajority
<1>1. Init => TypeOK /\ Recorded /\ Complained
  BY InitTyped, InitRecorded, InitComplained
<1>2. TypeOK /\ Recorded /\ Complained /\ [Next]_vars => (TypeOK /\ Recorded /\ Complained)'
  BY Zenon, StepTyped, StepRecorded, StepComplained
<1>3. TypeOK /\ Recorded /\ Complained => RotatedForMajority
  BY DEF Complained, Majority, Complainers, RotatedForMajority
<1> QED
  BY <1>1, <1>2, <1>3, PTL DEF Spec
=============================================================================
