--------------------------- MODULE MCHotStuffCore ---------------------------
(***************************************************************************)
(* Small instances of HotStuffCore for TLC: from genesis, from the state   *)
(* in which the cluster has certified the first block of lead, and from a  *)
(* fork.                                                                   *)
(***************************************************************************)
EXTENDS HotStuffCore, TLC

CONSTANTS lead, cut

Others == Replica \ Proposers
Symmetry == Permutations(Others)

\* Every replica has voted for block 1, and lead, which counted the votes, is
\* the only one to know the certificate.
CertifiedInit ==
    /\ nblk = 1
    /\ parent = [b \in Block |-> Genesis]
    /\ qc_ref = [b \in Block |-> Genesis]
    /\ height = [b \in Block |-> IF b = 1 THEN 1 ELSE 0]
    /\ anc = [b \in Block |-> IF b = 1 THEN {Genesis, 1} ELSE {Genesis}]
    /\ proposals = {<<lead, 1>>}
    /\ votes = {<<r, 1, lead>> : r \in Replica}
    /\ delivered = [r \in Replica |-> {Genesis, 1}]
    /\ voted = [r \in Replica |-> [b \in Block |->
                   IF b = Genesis \/ (b = 1 /\ r = lead) THEN Replica ELSE {}]]
    /\ hqc = [r \in Replica |-> IF r = lead THEN 1 ELSE Genesis]
    /\ hqc_tail = [r \in Replica |-> 1]
    /\ b_lock = [r \in Replica |-> Genesis]
    /\ b_exec = [r \in Replica |-> Genesis]
    /\ vheight = [r \in Replica |-> 1]
    /\ status = [r \in Replica |-> "up"]

StartSpec == (Init \/ CertifiedInit) /\ [][Next]_vars

(***************************************************************************)
(* Proposer cut was cut off while proposer lead certified two blocks and   *)
(* proposed a third:                                                       *)
(*                                                                         *)
(*    genesis <- 1 <- 2 <- 3     by lead, each justified by its parent     *)
(*    genesis <- 4 <- 5 <- 6     by cut, all justified by genesis          *)
(*                                                                         *)
(* lead and the others voted for 1 and 2, lead for its own 3, cut for its  *)
(* own blocks, and every replica has fetched all of them.  The state is    *)
(* reachable from Init: lead proposes 1, the others deliver it, vote, and  *)
(* so on; then cut proposes three times.  The core leaves the pace to the  *)
(* pacemaker, and the round-robin one proposes at each turn of its timer   *)
(* (on_exp_timeout) without a certificate of the block before.  From here  *)
(* the next block can certify one branch or the other, which takes more    *)
(* blocks from genesis than TLC can explore.  The proposals of 1, 4 and 5  *)
(* came to everyone before: no replica would do anything on another one.   *)
(***************************************************************************)
\* Block b at its index: genesis, the branch of lead, the branch of cut.
ForkInit ==
    /\ nblk = 6
    /\ parent = [b \in Block |-> <<0, 0, 1, 2, 0, 4, 5, 0>>[b + 1]]
    /\ qc_ref = [b \in Block |-> <<0, 0, 1, 2, 0, 0, 0, 0>>[b + 1]]
    /\ height = [b \in Block |-> <<0, 1, 2, 3, 1, 2, 3, 0>>[b + 1]]
    /\ anc = [b \in Block |-> CASE b \in 0 .. 3 -> 0 .. b
                               [] b \in 4 .. 6 -> {0} \cup 4 .. b
                               [] OTHER -> {0}]
    /\ proposals = {<<lead, 2>>, <<lead, 3>>, <<cut, 6>>}
    /\ votes = {<<v, b, lead>> : v \in Others, b \in 1 .. 2}
                 \cup {<<lead, b, lead>> : b \in 1 .. 3} \cup {<<cut, b, cut>> : b \in 4 .. 6}
    /\ delivered = [r \in Replica |-> 0 .. 6]
    /\ voted = [r \in Replica |-> [b \in Block |->
                   CASE b = 0 -> Replica
                     [] r = lead /\ b \in 1 .. 2 -> Replica \ {cut}
                     [] r = lead /\ b = 3 -> {lead}
                     [] r = cut /\ b \in 4 .. 6 -> {cut}
                     [] OTHER -> {}]]
    /\ hqc = [r \in Replica |-> CASE r = lead -> 2 [] r = cut -> 0 [] OTHER -> 1]
    /\ hqc_tail = [r \in Replica |-> CASE r = lead -> 3 [] r = cut -> 6 [] OTHER -> 2]
    /\ b_lock = [r \in Replica |-> IF r = lead THEN 1 ELSE 0]
    /\ b_exec = [r \in Replica |-> 0]
    /\ vheight = [r \in Replica |-> CASE r = lead -> 3 [] r = cut -> 3 [] OTHER -> 2]
    /\ status = [r \in Replica |-> "up"]

ForkSpec == ForkInit /\ [][Next]_vars
=============================================================================
