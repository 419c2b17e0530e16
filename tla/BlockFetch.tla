----------------------------- MODULE BlockFetch ------------------------------
(***************************************************************************)
(* How a replica gets hold of the blocks it hears of: async_deliver_blk,   *)
(* async_fetch_blk, the fetch contexts with their timers, the requests and *)
(* answers for blocks, and on_fetch_blk / on_deliver_blk, which resolve    *)
(* the promises the others wait on.  The replica is one event loop, so a   *)
(* handler and every callback it triggers are one step; the handler is an  *)
(* operator on the record of the replica's state, which also collects the  *)
(* messages it sends.                                                      *)
(***************************************************************************)
EXTENDS Naturals, FiniteSets, TLAPS

CONSTANTS
  Nodes, Blocks, Genesis,
  Author,          \* [Blocks \ {Genesis} -> Nodes], the proposer of a block
  Parent, QcRef,   \* the parent of a block and the block its qc is for
  Upto,            \* a block with its ancestors down to the first after Genesis
  VoteTo,          \* whom a replica sends its vote to
  MaxLost, MaxRestarts, \* bounds on lost messages and restarts
  Nobody

VARIABLES
  rep,        \* the state of each replica
  net,        \* messages under way
  lost_msgs, restarts
fetchVars == <<rep, net, lost_msgs, restarts>>

Msg(type, from, to, b) == [type |-> type, from |-> from, to |-> to, b |-> b]
Made == Blocks \ {Genesis}
Others(r) == Nodes \ {r}

(***************************************************************************)
(* fetched: blk_cache.  delivered: Block::delivered.  fetching and asked:  *)
(* blk_fetch_waiting and the replicas of a context.  delivering:           *)
(* blk_delivery_waiting, "fetch" while the block itself is awaited, "join" *)
(* while promise::all waits for `need'.  from: the replica the callbacks   *)
(* captured.  serve: requests waiting for a block.  out: messages sent.    *)
(***************************************************************************)
Fresh ==
  [ fetched |-> {Genesis}, delivered |-> {Genesis},
    fetching |-> {}, asked |-> [b \in Blocks |-> {}],
    delivering |-> [b \in Blocks |-> "no"], need |-> [b \in Blocks |-> {}],
    from |-> [b \in Blocks |-> Nobody], serve |-> {}, out |-> {} ]

FetchInit ==
  /\ rep = [r \in Nodes |-> Fresh]
  /\ net = {} /\ lost_msgs = 0 /\ restarts = 0

Missing(s, b) == b \notin s.delivered /\ s.delivering[b] = "no"

\* A chain is joined from b down to the first ancestor that is delivered, is
\* being delivered or has not been fetched.
Down(s, b) ==
  {a \in Upto[b] : \A c \in Upto[b] : a \in Upto[c] => Missing(s, c) /\ c \in s.fetched}
Bottom(s, b) ==
  {a \in Upto[b] : /\ a \notin s.fetched /\ Missing(s, a)
                   /\ \A c \in Upto[b] \ {a} : a \in Upto[c] => c \in Down(s, b)}

\* The first replica named is not asked before the timer fires.
MutFetchBlk(r, s, bs, peer) ==
  LET absent == bs \ s.fetched
  IN [s EXCEPT !.fetching = @ \cup absent,
               !.asked = [b \in Blocks |-> IF b \in absent /\ @[b] # {} THEN @[b] \cup {peer} ELSE @[b]]]

\* async_fetch_blk, for each of bs: a context for a block that is not there; the
\* first replica named is asked at once.
FetchBlk(r, s, bs, peer) ==
  LET absent == bs \ s.fetched
      named == {peer} \ {Nobody}
  IN [s EXCEPT !.fetching = @ \cup absent,
               !.asked = [b \in Blocks |-> IF b \in absent THEN @[b] \cup named ELSE @[b]],
               !.out = @ \cup {Msg("req", r, q, b) :
                                 q \in named, b \in {c \in absent : s.asked[c] = {}}}]

\* The callback of the fetch promise in async_deliver_blk, for each of bs: what
\* promise::all then waits for.  The bottom of the chain waits for its block.
Join(s, bs, bottom, peer) ==
  [s EXCEPT
     !.delivering = [b \in Blocks |-> IF b \in bs THEN "join" ELSE
                                      IF b \in bottom THEN "fetch" ELSE @[b]],
     !.from = [b \in Blocks |-> IF b \in bottom THEN peer ELSE @[b]],
     !.need = [b \in Blocks |->
       IF b \notin bs THEN @[b]
       ELSE (IF QcRef[b] = Genesis THEN {} ELSE {"verify"})
            \cup (IF QcRef[b] \in s.fetched THEN {} ELSE {"qc"})
            \cup (IF Parent[b] \in s.delivered THEN {} ELSE {"parent"})]]

\* Nothing holds up the delivery of b, nor that of an ancestor it waits for.
CanDeliver(s, b) ==
  \A a \in Upto[b] : a \in s.delivered \/ (s.delivering[a] = "join" /\ s.need[a] \subseteq {"parent"})

\* on_deliver_blk for every block whose promises are all resolved, and for the
\* children that waited for it.  The replica then votes for the block.
OnDeliver(r, s) ==
  LET done == {b \in Made : b \notin s.delivered /\ CanDeliver(s, b)}
  IN [s EXCEPT !.delivered = @ \cup done,
               !.delivering = [b \in Blocks |-> IF b \in done THEN "no" ELSE @[b]],
               !.need = [b \in Blocks |-> IF b \in done THEN {} ELSE
                           IF Parent[b] \in done THEN @[b] \ {"parent"} ELSE @[b]],
               !.from = [b \in Blocks |-> IF b \in done THEN Nobody ELSE @[b]],
               !.out = @ \cup {Msg("vote", r, VoteTo[r], b) : b \in done}]

\* async_deliver_blk for each of bs, and the calls it makes for the parents: the
\* fetched part of the chain is joined, the first missing block and the blocks
\* of the qcs are fetched.  What can be delivered is delivered, the messages are
\* sent, and the handler is at its end.
DeliverBlk(r, s, bs, peer, rest) ==
  \E w \in {s} :
  LET down == UNION {Down(w, b) : b \in bs}
      bottom == UNION {Bottom(w, b) : b \in bs}
  IN \E j \in {Join(w, down, bottom, peer)} :
     \E f \in {FetchBlk(r, j, bottom \cup {QcRef[c] : c \in down}, peer)} :
     \E d \in {OnDeliver(r, f)} :
       /\ rep' = [rep EXCEPT ![r] = [d EXCEPT !.out = {}]]
       /\ net' = rest \cup d.out

(***************************************************************************)
(* Handlers.                                                               *)
(***************************************************************************)
\* on_propose: the proposer stores and delivers its own block and broadcasts it.
Propose(r, b) ==
  /\ Author[b] = r /\ \A q \in Nodes : b \notin rep[q].fetched
  /\ restarts = 0
  /\ Parent[b] \in rep[r].delivered /\ QcRef[b] \in rep[r].fetched
  /\ rep' = [rep EXCEPT ![r].fetched = @ \cup {b}, ![r].delivered = @ \cup {b}]
  /\ net' = net \cup {Msg("prop", r, q, b) : q \in Others(r)}
  /\ UNCHANGED <<lost_msgs, restarts>>

Recv(m, type) == m \in net /\ m.type = type /\ UNCHANGED <<lost_msgs, restarts>>

\* propose_handler: parsing stores the block, without on_fetch_blk.
RecvPropose(m) ==
  /\ Recv(m, "prop")
  /\ DeliverBlk(m.to, [rep[m.to] EXCEPT !.fetched = @ \cup {m.b}], {m.b}, m.from, net \ {m})

\* vote_handler (and LComplain_handler): only the hash of the block is known.
RecvVote(m) ==
  /\ Recv(m, "vote")
  /\ DeliverBlk(m.to, rep[m.to], {m.b}, m.from, net \ {m})

\* req_blk_handler: answer at once, or when the block is fetched.
RecvReq(m) ==
  /\ Recv(m, "req")
  /\ IF m.b \in rep[m.to].fetched
     THEN net' = (net \ {m}) \cup {Msg("resp", m.to, m.from, m.b)} /\ UNCHANGED rep
     ELSE /\ rep' = [rep EXCEPT ![m.to] =
                       FetchBlk(m.to, [rep[m.to] EXCEPT !.serve = @ \cup {<<m.from, m.b>>}], {m.b}, Nobody)]
          /\ net' = net \ {m}

\* on_fetch_blk: the promise of the context resolves, which releases the blocks
\* whose qc it is and answers the requests; then the context is erased.
OnFetch(r, s, b) ==
  [s EXCEPT !.fetched = @ \cup {b}, !.fetching = @ \ {b}, !.asked[b] = {},
            !.delivering[b] = IF @ = "fetch" THEN "no" ELSE @,
            !.serve = {q \in @ : q[2] # b},
            !.need = [c \in Blocks |-> IF QcRef[c] = b THEN @[c] \ {"qc"} ELSE @[c]],
            !.out = {Msg("resp", r, q[1], b) : q \in {p \in s.serve : p[2] = b}}]

\* resp_blk_handler: parsing stores the block; on_fetch_blk, if somebody waits
\* for it.  A delivery that waited for it goes on with the replica it captured.
RecvResp(m) ==
  /\ Recv(m, "resp")
  /\ LET s == rep[m.to] IN
     IF m.b \in s.fetching
     THEN DeliverBlk(m.to, OnFetch(m.to, s, m.b),
                     IF s.delivering[m.b] = "fetch" THEN {m.b} ELSE {}, s.from[m.b], net \ {m})
     ELSE /\ rep' = [rep EXCEPT ![m.to].fetched = @ \cup {m.b}]
          /\ net' = net \ {m}

\* The pool has verified the qc of a block.  Whatever the result, the callback
\* of promise::all calls on_deliver_blk in the arguments of its log statement.
Verified(r, b) ==
  /\ "verify" \in rep[r].need[b]
  /\ DeliverBlk(r, [rep[r] EXCEPT !.need[b] = @ \ {"verify"}], {}, Nobody, net)
  /\ UNCHANGED <<lost_msgs, restarts>>

\* FetchContext::timeout_cb: ask every replica named so far again.
Timeout(r, b) ==
  /\ b \in rep[r].fetching
  /\ net' = net \cup {Msg("req", r, q, b) : q \in rep[r].asked[b]}
  /\ UNCHANGED <<rep, lost_msgs, restarts>>

\* A message is lost with its connection.
Lose(m) ==
  /\ m \in net /\ lost_msgs < MaxLost
  /\ net' = net \ {m} /\ lost_msgs' = lost_msgs + 1
  /\ UNCHANGED <<rep, restarts>>

\* A replica restarts with an empty storage: nothing is kept on disk.
Restart(r) ==
  /\ restarts < MaxRestarts /\ restarts' = restarts + 1
  /\ rep' = [rep EXCEPT ![r] = Fresh]
  /\ UNCHANGED <<net, lost_msgs>>

Handle(m) == RecvPropose(m) \/ RecvVote(m) \/ RecvReq(m) \/ RecvResp(m)
FetchNext ==
  \/ \E r \in Nodes, b \in Made : Propose(r, b) \/ Verified(r, b) \/ Timeout(r, b)
  \/ \E m \in net : Handle(m) \/ Lose(m)
  \/ \E r \in Nodes : Restart(r)

FetchSpec == FetchInit /\ [][FetchNext]_fetchVars
-----------------------------------------------------------------------------
\* consensus.h:110: a block is only delivered if it is fetched, the block of its
\* qc is fetched and its parent is delivered, in whatever order the answers,
\* proposals and verifications came in.
DeliveredClosed ==
  \A r \in Nodes : \A b \in rep[r].delivered \ {Genesis} :
    /\ b \in rep[r].fetched /\ QcRef[b] \in rep[r].fetched
    /\ Parent[b] \in rep[r].delivered

\* Nobody waits for a promise that nothing will resolve: a delivery that waits
\* for its block, or for the block of its qc, has a fetch context that asks a
\* replica; one that waits for its parent has the parent's delivery under way;
\* a delivered block has no waiting entry left, so on_deliver_blk never rejects
\* (hotstuff.cpp:178-199, 241-262).
WaitsAreServed ==
  \A r \in Nodes : \A b \in Made :
    LET s == rep[r] IN
    /\ s.delivering[b] = "fetch" => b \in s.fetching /\ s.asked[b] # {}
    /\ "qc" \in s.need[b] => QcRef[b] \in s.fetching /\ s.asked[QcRef[b]] # {}
    /\ "parent" \in s.need[b] => s.delivering[Parent[b]] # "no"
    /\ b \in s.delivered => s.delivering[b] = "no"

\* What is delivered is complete, and what waits for a block will be served.
BlocksArrive == DeliveredClosed /\ WaitsAreServed

\* There is no fetch context left and no delivery under way.
NothingWaits == \A r \in Nodes : rep[r].fetching = {} /\ \A b \in Made : rep[r].delivering[b] = "no"
-----------------------------------------------------------------------------
\* What the proofs assume of the blocks: Upto is the chain that Parent makes.
FetchAssumptions ==
  /\ Genesis \in Blocks /\ Nobody \notin Nodes /\ \A r \in Nodes : VoteTo[r] \in Nodes
  /\ \A b \in Made :
       /\ Parent[b] \in Blocks /\ QcRef[b] \in Blocks /\ Upto[b] \subseteq Made
       /\ Upto[b] = {b} \cup (IF Parent[b] = Genesis THEN {} ELSE Upto[Parent[b]])
       /\ \A a, c \in Upto[b] :
            /\ Upto[a] \subseteq Upto[b] /\ (a \in Upto[c] \/ c \in Upto[a])
            /\ a \in Upto[c] /\ c \in Upto[a] => a = c

Messages == [type : {"prop", "vote", "req", "resp"}, from : Nodes, to : Nodes, b : Made]
RepState ==
  [ fetched : SUBSET Blocks, delivered : SUBSET Blocks,
    fetching : SUBSET Blocks, asked : [Blocks -> SUBSET Nodes],
    delivering : [Blocks -> {"no", "fetch", "join"}], need : [Blocks -> SUBSET {"verify", "qc", "parent"}],
    from : [Blocks -> Nodes \cup {Nobody}], serve : SUBSET (Nodes \X Blocks), out : SUBSET Messages ]

\* A delivery that no longer waits for the block of its qc, or for its parent,
\* has it; what is delivered has everything and waits for nothing.
Complete(s) ==
  /\ Genesis \in s.delivered /\ s.delivered \subseteq s.fetched /\ s.delivering[Genesis] = "no"
  /\ \A b \in Made :
       /\ b \in s.delivered =>
            QcRef[b] \in s.fetched /\ Parent[b] \in s.delivered /\ s.delivering[b] = "no"
       /\ s.delivering[b] = "join" =>
            /\ b \in s.fetched /\ ("qc" \in s.need[b] \/ QcRef[b] \in s.fetched)
            /\ "parent" \in s.need[b] \/ Parent[b] \in s.delivered

\* What waits is served, or will be by the deliveries of bs that the handler is
\* about to go on with.
Served(s, bs) ==
  \A b \in Made :
    /\ s.delivering[b] = "fetch" => b \in s.fetching /\ s.asked[b] # {} /\ s.from[b] # Nobody
    /\ "qc" \in s.need[b] => QcRef[b] \in s.fetching /\ s.asked[QcRef[b]] # {}
    /\ "parent" \in s.need[b] =>
         s.delivering[Parent[b]] # "no" \/ (Parent[b] \in bs \cap s.fetched /\ Parent[b] \notin s.delivered)

\* Before any restart nobody has heard of a block that no replica has: it is
\* proposed before it is delivered.
Heard == UNION {rep[r].fetched : r \in Nodes}
OnlyHeard ==
  /\ \A b \in Heard \ {Genesis} : Upto[b] \subseteq Heard /\ QcRef[b] \in Heard
  /\ \A m \in net : m.b \in Heard
  /\ \A r \in Nodes : rep[r].fetching \subseteq Heard /\ \A b \in Made : rep[r].delivering[b] # "no" => b \in Heard

FetchInv ==
  /\ rep \in [Nodes -> RepState] /\ net \subseteq Messages /\ restarts \in Nat
  /\ \A r \in Nodes : Complete(rep[r]) /\ Served(rep[r], {}) /\ rep[r].out = {}
  /\ restarts = 0 => OnlyHeard
-----------------------------------------------------------------------------
(***************************************************************************)
(* The proof that BlocksArrive holds for any chain of blocks, losses and   *)
(* restarts.                                                               *)
(*                                                                         *)
(* What a handler's operators make of the fields of a replica's state is   *)
(* stated as predicates (Joins, Fetches, Delivers, Hangs), and the proofs  *)
(* that the state stays complete and served use those.                     *)
(***************************************************************************)
\* What Join makes of the fields of a replica's state.
Joins(s, bs, bottom, peer, j) ==
  /\ j.fetched = s.fetched /\ j.delivered = s.delivered /\ j.fetching = s.fetching
  /\ j.asked = s.asked /\ j.serve = s.serve /\ j.out = s.out
  /\ \A b \in Blocks :
       /\ b \in bs => /\ j.delivering[b] = "join" /\ ("qc" \in j.need[b] <=> QcRef[b] \notin s.fetched)
                      /\ ("parent" \in j.need[b] <=> Parent[b] \notin s.delivered)
       /\ b \in bottom => j.delivering[b] = "fetch" /\ j.from[b] = peer
       /\ b \notin bs => j.need[b] = s.need[b]
       /\ b \notin bottom => j.from[b] = s.from[b]
       /\ b \notin bs \cup bottom => j.delivering[b] = s.delivering[b]

\* What FetchBlk makes of them.
Fetches(s, bs, peer, f) ==
  /\ f.fetched = s.fetched /\ f.delivered = s.delivered /\ f.delivering = s.delivering
  /\ f.need = s.need /\ f.from = s.from /\ f.serve = s.serve
  /\ f.fetching = s.fetching \cup (bs \ s.fetched)
  /\ \A b \in Blocks : s.asked[b] \subseteq f.asked[b]
  /\ \A b \in bs \ s.fetched : peer \in Nodes => peer \in f.asked[b]
  /\ (\A m \in f.out : m \in s.out \/ m.b \in bs \ s.fetched) /\ (peer = Nobody => f.out = s.out)

\* What OnDeliver makes of them when it delivers done.
Delivers(s, done, d) ==
  /\ d.fetched = s.fetched /\ d.fetching = s.fetching /\ d.asked = s.asked /\ d.serve = s.serve
  /\ d.delivered = s.delivered \cup done
  /\ \A b \in Blocks :
       /\ b \in done => d.delivering[b] = "no" /\ d.need[b] = {}
       /\ b \notin done => d.delivering[b] = s.delivering[b] /\ d.from[b] = s.from[b]
       /\ b \notin done /\ Parent[b] \in done => d.need[b] = s.need[b] \ {"parent"}
       /\ b \notin done /\ Parent[b] \notin done => d.need[b] = s.need[b]
  /\ \A m \in d.out : m \in s.out \/ m.b \in done

\* The part down of the chains of bs that is joined, and what it hangs on.
Hangs(s, bs, down, bottom) ==
  /\ down \subseteq Made /\ bottom \subseteq Made
  /\ \A b \in down \cup bottom : \E t \in bs : b \in Upto[t]
  /\ \A b \in down : b \in s.fetched /\ Missing(s, b)
  /\ \A b \in bottom : b \notin s.fetched /\ Missing(s, b)
  /\ \A b \in bs \cap s.fetched : Missing(s, b) => b \in down
  /\ \A b \in down : Parent[b] # Genesis /\ Missing(s, Parent[b]) => Parent[b] \in down \cup bottom


LEMMA JoinFields ==
  ASSUME FetchAssumptions, NEW s \in RepState, NEW bs \in SUBSET Made, NEW bottom \in SUBSET Made, bs \cap bottom = {},
         NEW peer \in Nodes \cup {Nobody}, NEW j, j = Join(s, bs, bottom, peer)
  PROVE  j \in RepState /\ Joins(s, bs, bottom, peer, j)
<1> DEFINE D == [b \in Blocks |-> IF b \in bs THEN "join" ELSE IF b \in bottom THEN "fetch" ELSE s.delivering[b]]
           F == [b \in Blocks |-> IF b \in bottom THEN peer ELSE s.from[b]]
           W(b) == (IF QcRef[b] = Genesis THEN {} ELSE {"verify"})
                   \cup (IF QcRef[b] \in s.fetched THEN {} ELSE {"qc"})
                   \cup (IF Parent[b] \in s.delivered THEN {} ELSE {"parent"})
           N == [b \in Blocks |-> IF b \notin bs THEN s.need[b] ELSE W(b)]
<1>1. j = [s EXCEPT !.delivering = D, !.from = F, !.need = N]
  BY DEF Join
<1>2. D \in [Blocks -> {"no", "fetch", "join"}] /\ F \in [Blocks -> Nodes \cup {Nobody}]
  BY DEF RepState
<1>3. N \in [Blocks -> SUBSET {"verify", "qc", "parent"}]
  <2>1. \A b : W(b) \in SUBSET {"verify", "qc", "parent"}
    BY Zenon
  <2>2. s.need \in [Blocks -> SUBSET {"verify", "qc", "parent"}]
    BY DEF RepState
  <2> QED
    BY <2>1, <2>2
<1>4. \A b : ("qc" \in W(b) <=> QcRef[b] \notin s.fetched) /\ ("parent" \in W(b) <=> Parent[b] \notin s.delivered)
  OBVIOUS
<1>5. \A b \in Blocks :
        /\ D[b] = (IF b \in bs THEN "join" ELSE IF b \in bottom THEN "fetch" ELSE s.delivering[b])
        /\ F[b] = (IF b \in bottom THEN peer ELSE s.from[b])
        /\ N[b] = (IF b \notin bs THEN s.need[b] ELSE W(b))
  OBVIOUS
<1> HIDE DEF D, F, W, N
<1>6. /\ j \in RepState
      /\ j.fetched = s.fetched /\ j.delivered = s.delivered /\ j.fetching = s.fetching
      /\ j.asked = s.asked /\ j.serve = s.serve /\ j.out = s.out
      /\ j.delivering = D /\ j.from = F /\ j.need = N
  BY Zenon, <1>1, <1>2, <1>3 DEF RepState
<1> QED
  BY <1>4, <1>5, <1>6 DEF Joins

LEMMA FetchFields ==
  ASSUME FetchAssumptions, NEW r \in Nodes, NEW s \in RepState, Genesis \in s.fetched,
         NEW bs \in SUBSET Blocks, NEW peer \in Nodes \cup {Nobody}, NEW f, f = FetchBlk(r, s, bs, peer)
  PROVE  f \in RepState /\ Fetches(s, bs, peer, f)
<1> DEFINE absent == bs \ s.fetched  named == {peer} \ {Nobody}
           A == [b \in Blocks |-> IF b \in absent THEN s.asked[b] \cup named ELSE s.asked[b]]
           M == {Msg("req", r, q, b) : q \in named, b \in {c \in absent : s.asked[c] = {}}}
           G == s.fetching \cup absent  O == s.out \cup M
<1>1. f = [s EXCEPT !.fetching = G, !.asked = A, !.out = O]
  BY DEF FetchBlk
<1>2. absent \subseteq Made /\ absent \subseteq Blocks /\ named \subseteq Nodes /\ (peer \in Nodes => peer \in named)
  BY DEF FetchAssumptions, Made
<1>3. s.asked \in [Blocks -> SUBSET Nodes] /\ s.fetching \in SUBSET Blocks /\ s.out \in SUBSET Messages
  BY DEF RepState
<1>4. M \subseteq Messages /\ \A m \in M : m.b \in absent
  BY <1>2 DEF Msg, Messages
<1>5. A \in [Blocks -> SUBSET Nodes] /\ \A b \in Blocks : A[b] = IF b \in absent THEN s.asked[b] \cup named ELSE s.asked[b]
  BY <1>2, <1>3
<1> HIDE DEF absent, named, A, M
<1>9. G \in SUBSET Blocks /\ O \in SUBSET Messages /\ G = s.fetching \cup absent /\ O = s.out \cup M
  BY Zenon, <1>2, <1>3, <1>4
<1> HIDE DEF G, O
<1>6. /\ f \in RepState
      /\ f.fetched = s.fetched /\ f.delivered = s.delivered /\ f.delivering = s.delivering
      /\ f.need = s.need /\ f.from = s.from /\ f.serve = s.serve
      /\ f.fetching = G /\ f.asked = A /\ f.out = O
  BY ZenonT(40), <1>1, <1>5, <1>9 DEF RepState
<1>7. \A b \in Blocks : s.asked[b] \subseteq f.asked[b]
  BY Zenon, <1>5, <1>6
<1>8. \A b \in absent : peer \in Nodes => peer \in f.asked[b]
  BY Zenon, <1>2, <1>5, <1>6
<1>10. peer = Nobody => f.out = s.out
  BY <1>6, <1>9 DEF M, named
<1> QED
  BY Zenon, <1>4, <1>6, <1>7, <1>8, <1>9, <1>10 DEF absent, Fetches

LEMMA DeliverFields ==
  ASSUME FetchAssumptions, NEW r \in Nodes, NEW s \in RepState, NEW d, d = OnDeliver(r, s),
         NEW done, done = {b \in Made : b \notin s.delivered /\ CanDeliver(s, b)}
  PROVE  d \in RepState /\ Delivers(s, done, d)
<1> DEFINE D == [b \in Blocks |-> IF b \in done THEN "no" ELSE s.delivering[b]]
           N == [b \in Blocks |-> IF b \in done THEN {} ELSE
                   IF Parent[b] \in done THEN s.need[b] \ {"parent"} ELSE s.need[b]]
           F == [b \in Blocks |-> IF b \in done THEN Nobody ELSE s.from[b]]
           M == {Msg("vote", r, VoteTo[r], b) : b \in done}
           G == s.delivered \cup done  O == s.out \cup M
<1>1. d = [s EXCEPT !.delivered = G, !.delivering = D, !.need = N, !.from = F, !.out = O]
  BY DEF OnDeliver
<1>2. done \subseteq Made /\ done \subseteq Blocks /\ VoteTo[r] \in Nodes
  BY DEF FetchAssumptions, Made
<1>3. /\ s.delivered \in SUBSET Blocks /\ s.delivering \in [Blocks -> {"no", "fetch", "join"}]
      /\ s.need \in [Blocks -> SUBSET {"verify", "qc", "parent"}] /\ s.from \in [Blocks -> Nodes \cup {Nobody}]
      /\ s.out \in SUBSET Messages
  BY DEF RepState
<1>4. M \subseteq Messages /\ \A m \in M : m.b \in done
  BY <1>2 DEF Msg, Messages
<1>5. /\ D \in [Blocks -> {"no", "fetch", "join"}] /\ F \in [Blocks -> Nodes \cup {Nobody}]
      /\ \A b \in Blocks : D[b] = (IF b \in done THEN "no" ELSE s.delivering[b]) /\ F[b] = (IF b \in done THEN Nobody ELSE s.from[b])
  BY <1>3
<1>6. /\ N \in [Blocks -> SUBSET {"verify", "qc", "parent"}]
      /\ \A b \in Blocks : N[b] = IF b \in done THEN {} ELSE IF Parent[b] \in done THEN s.need[b] \ {"parent"} ELSE s.need[b]
  BY <1>3
<1>8. G \in SUBSET Blocks /\ O \in SUBSET Messages /\ G = s.delivered \cup done /\ O = s.out \cup M
  BY Zenon, <1>2, <1>3, <1>4
<1> HIDE DEF D, N, F, M, G, O
<1>7. /\ d \in RepState
      /\ d.fetched = s.fetched /\ d.fetching = s.fetching /\ d.asked = s.asked /\ d.serve = s.serve
      /\ d.delivered = G /\ d.delivering = D /\ d.need = N /\ d.from = F /\ d.out = O
  BY ZenonT(40), <1>1, <1>5, <1>6, <1>8 DEF RepState
<1> QED
  BY Zenon, <1>4, <1>5, <1>6, <1>7, <1>8 DEF Delivers

-----------------------------------------------------------------------------
\* A block is the top of its chain, and its parent the next one down.
LEMMA ChainFacts ==
  ASSUME FetchAssumptions, NEW b \in Made
  PROVE  /\ b \in Blocks /\ Parent[b] \in Blocks /\ QcRef[b] \in Blocks /\ b \in Upto[b] /\ Upto[b] \subseteq Made
         /\ Parent[b] # Genesis => Parent[b] \in Made /\ Parent[b] \in Upto[b] /\ Upto[Parent[b]] \subseteq Upto[b]
         /\ \A a \in Upto[b] : Upto[a] \subseteq Upto[b]
         /\ \A c \in Upto[b] : b \in Upto[c] => c = b
<1>1. b \in Blocks /\ Parent[b] \in Blocks /\ QcRef[b] \in Blocks /\ Upto[b] \subseteq Made
  BY Zenon DEF FetchAssumptions, Made
<1>2. Upto[b] = {b} \cup (IF Parent[b] = Genesis THEN {} ELSE Upto[Parent[b]])
  BY DEF FetchAssumptions
<1>3. b \in Upto[b]
  BY Zenon, <1>2
<1>4. \A a, c \in Upto[b] : Upto[a] \subseteq Upto[b] /\ (a \in Upto[c] /\ c \in Upto[a] => a = c)
  BY DEF FetchAssumptions
<1>5. ASSUME Parent[b] # Genesis
      PROVE  Parent[b] \in Made /\ Parent[b] \in Upto[b] /\ Upto[Parent[b]] \subseteq Upto[b]
  <2>1. Parent[b] \in Made
    BY Zenon, <1>1, <1>5 DEF Made
  <2>2. Parent[b] \in Upto[Parent[b]]
    BY <2>1 DEF FetchAssumptions
  <2> QED
    BY Zenon, <1>2, <1>5, <2>1, <2>2
<1> QED
  BY Zenon, <1>1, <1>3, <1>4, <1>5

\* Between a block of a chain and its parent there is nothing.
LEMMA NextDown ==
  ASSUME FetchAssumptions, NEW top \in Made, NEW b \in Upto[top], Parent[b] # Genesis,
         NEW c \in Upto[top], Parent[b] \in Upto[c]
  PROVE  c = Parent[b] \/ b \in Upto[c]
<1>1. b \in Made /\ Parent[b] \in Upto[top] /\ c \in Made
  BY Zenon, ChainFacts
<1>2. c \in Upto[b] \/ b \in Upto[c]
  BY DEF FetchAssumptions
<1>3. ASSUME c \in Upto[b], c # b
      PROVE  c = Parent[b]
  <2>1. c \in Upto[Parent[b]]
    BY ZenonT(40), <1>1, <1>3 DEF FetchAssumptions
  <2> QED
    BY Zenon, <1>1, <2>1 DEF FetchAssumptions
<1>4. c \in Upto[c]
  BY Zenon, <1>1, ChainFacts
<1> QED
  BY Zenon, <1>2, <1>3, <1>4

LEMMA JoinedChain ==
  ASSUME FetchAssumptions, NEW s \in RepState, NEW bs \in SUBSET Made,
         NEW down, down = UNION {Down(s, b) : b \in bs},
         NEW bottom, bottom = UNION {Bottom(s, b) : b \in bs}
  PROVE  Hangs(s, bs, down, bottom)
<1>1. ASSUME NEW t \in bs, NEW b \in Down(s, t)
      PROVE  b \in Upto[t] /\ b \in Made /\ b \in s.fetched /\ Missing(s, b)
  <2>1. b \in Upto[t]
    BY Zenon DEF Down
  <2>2. b \in Made
    BY Zenon, <2>1, ChainFacts
  <2>3. b \in Upto[b]
    BY Zenon, <2>2, ChainFacts
  <2> QED
    BY Zenon, <2>1, <2>2, <2>3 DEF Down
<1>2. ASSUME NEW t \in bs, NEW b \in Bottom(s, t)
      PROVE  b \in Upto[t] /\ b \in Made /\ b \notin s.fetched /\ Missing(s, b)
  <2>1. b \in Upto[t] /\ b \notin s.fetched /\ Missing(s, b)
    BY Zenon DEF Bottom
  <2> QED
    BY Zenon, <2>1, ChainFacts
<1>3. ASSUME NEW b \in bs \cap s.fetched, Missing(s, b)
      PROVE  b \in down
  <2>1. b \in Made /\ b \in Upto[b] /\ \A c \in Upto[b] : b \in Upto[c] => c = b
    BY Zenon, ChainFacts
  <2>2. b \in Down(s, b)
    BY Zenon, <1>3, <2>1 DEF Down
  <2> QED
    BY Zenon, <2>2
<1>4. ASSUME NEW b \in down, Parent[b] # Genesis, Missing(s, Parent[b])
      PROVE  Parent[b] \in down \cup bottom
  <2>1. PICK t \in bs : b \in Down(s, t)
    BY Zenon
  <2>2. b \in Upto[t] /\ b \in Made
    BY Zenon, <1>1, <2>1
  <2>3. Parent[b] \in Upto[t]
    BY Zenon, <1>4, <2>2, ChainFacts
  <2>4. \A c \in Upto[t] : Parent[b] \in Upto[c] => c = Parent[b] \/ b \in Upto[c]
    BY Zenon, <1>4, <2>2, NextDown
  <2>5. \A c \in Upto[t] : b \in Upto[c] => Missing(s, c) /\ c \in s.fetched
    BY Zenon, <2>1 DEF Down
  <2>6. CASE Parent[b] \in s.fetched
    <3>1. Parent[b] \in Down(s, t)
      BY Zenon, <1>4, <2>3, <2>4, <2>5, <2>6 DEF Down
    <3> QED
      BY Zenon, <3>1
  <2>7. CASE Parent[b] \notin s.fetched
    <3>1. ASSUME NEW c \in Upto[t], c # Parent[b], Parent[b] \in Upto[c]
          PROVE  c \in Down(s, t)
      <4>1. b \in Upto[c]
        BY Zenon, <2>4, <3>1
      <4>2. c \in Made
        BY Zenon, ChainFacts
      <4>3. ASSUME NEW e \in Upto[t], c \in Upto[e]
            PROVE  Missing(s, e) /\ e \in s.fetched
        <5>1. e \in Made
          BY Zenon, ChainFacts
        <5>2. b \in Upto[e]
          BY Zenon, <4>1, <4>3, <5>1, ChainFacts
        <5> QED
          BY Zenon, <2>5, <5>2
      <4> QED
        BY Zenon, <4>3 DEF Down
    <3>2. Parent[b] \in Bottom(s, t)
      BY Zenon, <1>4, <2>3, <2>7, <3>1 DEF Bottom
    <3> QED
      BY Zenon, <3>2
  <2> QED
    BY Zenon, <2>6, <2>7
<1>5. down \subseteq Made /\ \A b \in down : b \in s.fetched /\ Missing(s, b) /\ \E t \in bs : b \in Upto[t]
  BY Zenon, <1>1
<1>6. bottom \subseteq Made /\ \A b \in bottom : b \notin s.fetched /\ Missing(s, b) /\ \E t \in bs : b \in Upto[t]
  BY Zenon, <1>2
<1> QED
  BY <1>3, <1>4, <1>5, <1>6 DEF Hangs

\* The two together, q being the blocks of the qcs of what is joined.
FetchesJoined(s, bs, bottom, q, peer, f) ==
  /\ f.fetched = s.fetched /\ f.delivered = s.delivered /\ f.fetching = s.fetching \cup ((bottom \cup q) \ s.fetched)
  /\ \A b \in Blocks : s.asked[b] \subseteq f.asked[b]
  /\ \A b \in (bottom \cup q) \ s.fetched : peer \in Nodes => peer \in f.asked[b]
  /\ \A m \in f.out : m \in s.out \/ m.b \in (bottom \cup q) \ s.fetched
  /\ \A b \in Blocks \cap bs :
       /\ f.delivering[b] = "join" /\ ("qc" \in f.need[b] <=> QcRef[b] \notin s.fetched)
       /\ ("parent" \in f.need[b] <=> Parent[b] \notin s.delivered)
  /\ \A b \in Blocks \cap bottom : f.delivering[b] = "fetch" /\ f.from[b] = peer
  /\ \A b \in Blocks \ bs : f.need[b] = s.need[b]
  /\ \A b \in Blocks \ bottom : f.from[b] = s.from[b]
  /\ \A b \in Blocks \ (bs \cup bottom) : f.delivering[b] = s.delivering[b]

LEMMA FetchJoinFields ==
  ASSUME NEW s, NEW bs, NEW bottom, NEW q, NEW peer, NEW j, NEW f,
         Joins(s, bs, bottom, peer, j), Fetches(j, bottom \cup q, peer, f)
  PROVE  FetchesJoined(s, bs, bottom, q, peer, f)
<1>1. j.fetched = s.fetched /\ j.delivered = s.delivered /\ j.fetching = s.fetching /\ j.asked = s.asked /\ j.out = s.out
  BY DEF Joins
<1>2. f.delivering = j.delivering /\ f.need = j.need /\ f.from = j.from
  BY DEF Fetches
<1>3. /\ f.fetched = s.fetched /\ f.delivered = s.delivered /\ f.fetching = s.fetching \cup ((bottom \cup q) \ s.fetched)
      /\ \A b \in Blocks : s.asked[b] \subseteq f.asked[b]
      /\ \A b \in (bottom \cup q) \ s.fetched : peer \in Nodes => peer \in f.asked[b]
      /\ \A m \in f.out : m \in s.out \/ m.b \in (bottom \cup q) \ s.fetched
  BY <1>1 DEF Fetches
<1>4. \A b \in Blocks \cap bs :
        /\ f.delivering[b] = "join" /\ ("qc" \in f.need[b] <=> QcRef[b] \notin s.fetched)
        /\ ("parent" \in f.need[b] <=> Parent[b] \notin s.delivered)
  BY <1>2 DEF Joins
<1>5. /\ \A b \in Blocks \cap bottom : f.delivering[b] = "fetch" /\ f.from[b] = peer
      /\ \A b \in Blocks \ bs : f.need[b] = s.need[b]
      /\ \A b \in Blocks \ bottom : f.from[b] = s.from[b]
      /\ \A b \in Blocks \ (bs \cup bottom) : f.delivering[b] = s.delivering[b]
  BY <1>2 DEF Joins
<1> QED
  BY <1>3, <1>4, <1>5 DEF FetchesJoined

\* The deliveries that were joined are complete but for what they wait for, and
\* all they wait for is served.
LEMMA JoinKeeps ==
  ASSUME FetchAssumptions, NEW s \in RepState, Complete(s),
         NEW bs \in SUBSET Made, Served(s, bs), NEW peer, bs # {} => peer \in Nodes,
         NEW down, NEW bottom, Hangs(s, bs, down, bottom),
         NEW q, \A b \in down : QcRef[b] \in q, \A x \in q : \E c \in down : x = QcRef[c],
         NEW f, FetchesJoined(s, down, bottom, q, peer, f)
  PROVE  /\ Complete(f) /\ Served(f, {})
         /\ \A b \in f.fetching :
              b \in s.fetching \/ \E t \in bs : b \in Upto[t] \/ \E c \in Upto[t] : b = QcRef[c]
         /\ \A b \in Made : f.delivering[b] # "no" => s.delivering[b] # "no" \/ \E t \in bs : b \in Upto[t]
         /\ \A m \in f.out : m \in s.out \/ m.b \in f.fetching
<1>1. /\ down \subseteq Made /\ bottom \subseteq Made
      /\ \A b \in down \cup bottom : \E t \in bs : b \in Upto[t]
      /\ \A b \in down : b \in s.fetched /\ Missing(s, b)
      /\ \A b \in bottom : b \notin s.fetched /\ Missing(s, b)
      /\ \A b \in bs \cap s.fetched : Missing(s, b) => b \in down
  BY Zenon DEF Hangs
<1>2. \A b \in down : Parent[b] # Genesis /\ Missing(s, Parent[b]) => Parent[b] \in down \cup bottom
  BY Zenon DEF Hangs
<1>5. f.fetched = s.fetched /\ f.delivered = s.delivered /\ f.fetching = s.fetching \cup ((bottom \cup q) \ s.fetched)
  BY Zenon DEF FetchesJoined
<1>6. \A b \in Blocks : s.asked[b] \subseteq f.asked[b]
  BY Zenon DEF FetchesJoined
<1>7. \A b \in (bottom \cup q) \ s.fetched : peer \in Nodes => peer \in f.asked[b]
  BY Zenon DEF FetchesJoined
<1>8. \A m \in f.out : m \in s.out \/ m.b \in (bottom \cup q) \ s.fetched
  BY Zenon DEF FetchesJoined
<1>9. \A b \in Blocks \cap down :
        /\ f.delivering[b] = "join" /\ ("qc" \in f.need[b] <=> QcRef[b] \notin s.fetched)
        /\ ("parent" \in f.need[b] <=> Parent[b] \notin s.delivered)
  BY Zenon DEF FetchesJoined
<1>10. \A b \in Blocks \cap bottom : f.delivering[b] = "fetch" /\ f.from[b] = peer
  BY Zenon DEF FetchesJoined
<1>11. \A b \in Blocks \ down : f.need[b] = s.need[b]
  BY Zenon DEF FetchesJoined
<1>12. \A b \in Blocks \ bottom : f.from[b] = s.from[b]
  BY Zenon DEF FetchesJoined
<1>13. \A b \in Blocks \ (down \cup bottom) : f.delivering[b] = s.delivering[b]
  BY Zenon DEF FetchesJoined
<1>14. \A b \in Made : b \in Blocks /\ b # Genesis /\ Parent[b] \in Blocks /\ QcRef[b] \in Blocks
  BY Zenon, ChainFacts DEF Made
<1>17. Complete(f)
  <2>1. Genesis \in f.delivered /\ f.delivered \subseteq f.fetched
    BY Zenon, <1>5 DEF Complete
  <2>2. f.delivering[Genesis] = "no"
    <3>1. Genesis \in Blocks \ (down \cup bottom)
      BY Zenon, <1>1 DEF Made, FetchAssumptions
    <3> QED
      BY Zenon, <1>13, <3>1 DEF Complete
  <2>3. ASSUME NEW b \in Made, b \in f.delivered
        PROVE  QcRef[b] \in f.fetched /\ Parent[b] \in f.delivered /\ f.delivering[b] = "no"
    <3>1. QcRef[b] \in s.fetched /\ Parent[b] \in s.delivered /\ s.delivering[b] = "no"
      BY Zenon, <1>5, <2>3 DEF Complete
    <3>2. b \in Blocks \ (down \cup bottom)
      BY Zenon, <1>1, <1>5, <1>14, <2>3 DEF Missing
    <3> QED
      BY Zenon, <1>5, <1>13, <3>1, <3>2
  <2>4. ASSUME NEW b \in Made, f.delivering[b] = "join"
        PROVE  /\ b \in f.fetched /\ ("qc" \in f.need[b] \/ QcRef[b] \in f.fetched)
               /\ "parent" \in f.need[b] \/ Parent[b] \in f.delivered
    <3>1. CASE b \in down
      BY Zenon, <1>1, <1>5, <1>9, <1>14, <3>1
    <3>2. CASE b \notin down
      <4>1. b \notin bottom
        <5>1. b \in bottom => f.delivering[b] = "fetch"
          BY Zenon, <1>10, <1>14
        <5> QED
          BY <2>4, <5>1
      <4>2. s.delivering[b] = "join" /\ f.need[b] = s.need[b]
        BY Zenon, <1>11, <1>13, <1>14, <2>4, <3>2, <4>1
      <4> QED
        BY Zenon, <1>5, <4>2 DEF Complete
    <3> QED
      BY Zenon, <3>1, <3>2
  <2> QED
    BY Zenon, <2>1, <2>2, <2>3, <2>4 DEF Complete
<1>18. ASSUME NEW b \in Made, f.delivering[b] = "fetch"
       PROVE  b \in f.fetching /\ f.asked[b] # {} /\ f.from[b] # Nobody
  <2>1. CASE b \in bottom
    <3>1. b \in (bottom \cup q) \ s.fetched /\ b \in Blocks
      BY Zenon, <1>1, <1>14, <2>1
    <3>2. peer \in Nodes /\ peer # Nobody
      BY Zenon, <1>1, <2>1 DEF FetchAssumptions
    <3>3. b \in f.fetching /\ f.asked[b] # {}
      BY Zenon, <1>5, <1>7, <3>1, <3>2
    <3> QED
      BY Zenon, <1>10, <2>1, <3>1, <3>2, <3>3
  <2>2. CASE b \notin bottom
    <3>1. b \notin down
      <4>1. b \in down => f.delivering[b] = "join"
        BY Zenon, <1>9, <1>14
      <4> QED
        BY <1>18, <4>1
    <3>2. s.delivering[b] = "fetch" /\ f.from[b] = s.from[b]
      BY Zenon, <1>12, <1>13, <1>14, <1>18, <2>2, <3>1
    <3>3. b \in s.fetching /\ s.asked[b] # {} /\ s.from[b] # Nobody
      BY Zenon, <3>2 DEF Served
    <3> QED
      BY Zenon, <1>5, <1>6, <1>14, <3>2, <3>3
  <2> QED
    BY Zenon, <2>1, <2>2
<1>19. ASSUME NEW b \in Made, "qc" \in f.need[b]
       PROVE  QcRef[b] \in f.fetching /\ f.asked[QcRef[b]] # {}
  <2>1. CASE b \in down
    <3>1. QcRef[b] \in (bottom \cup q) \ s.fetched
      BY Zenon, <1>9, <1>14, <1>19, <2>1
    <3>2. peer \in Nodes
      BY Zenon, <1>1, <2>1
    <3> QED
      BY Zenon, <1>5, <1>7, <3>1, <3>2
  <2>2. CASE b \notin down
    <3>1. "qc" \in s.need[b]
      BY Zenon, <1>11, <1>14, <1>19, <2>2
    <3>2. QcRef[b] \in s.fetching /\ s.asked[QcRef[b]] # {}
      BY Zenon, <3>1 DEF Served
    <3> QED
      BY Zenon, <1>5, <1>6, <1>14, <3>2
  <2> QED
    BY Zenon, <2>1, <2>2
<1>20. \A c \in Blocks : c \in down \cup bottom \/ s.delivering[c] # "no" => f.delivering[c] # "no"
  BY <1>9, <1>10, <1>13
<1>21. ASSUME NEW b \in Made, "parent" \in f.need[b]
       PROVE  f.delivering[Parent[b]] # "no"
  <2>1. CASE b \in down
    <3>1. Parent[b] \notin s.delivered
      BY Zenon, <1>9, <1>14, <1>21, <2>1
    <3>2. Parent[b] # Genesis
      BY Zenon, <3>1 DEF Complete
    <3>3. Parent[b] \in down \cup bottom \/ s.delivering[Parent[b]] # "no"
      BY Zenon, <1>2, <2>1, <3>1, <3>2 DEF Missing
    <3> QED
      BY Zenon, <1>14, <1>20, <3>3
  <2>2. CASE b \notin down
    <3>1. "parent" \in s.need[b]
      BY Zenon, <1>11, <1>14, <1>21, <2>2
    <3>2. s.delivering[Parent[b]] # "no" \/ (Parent[b] \in bs \cap s.fetched /\ Parent[b] \notin s.delivered)
      BY Zenon, <3>1 DEF Served
    <3>3. Parent[b] \in down \/ s.delivering[Parent[b]] # "no"
      BY Zenon, <1>1, <3>2 DEF Missing
    <3> QED
      BY Zenon, <1>14, <1>20, <3>3
  <2> QED
    BY Zenon, <2>1, <2>2
<1>22. Served(f, {})
  BY Zenon, <1>18, <1>19, <1>21 DEF Served
<1>23. ASSUME NEW b \in f.fetching
       PROVE  b \in s.fetching \/ \E t \in bs : b \in Upto[t] \/ \E c \in Upto[t] : b = QcRef[c]
  <2>1. b \in s.fetching \/ b \in bottom \/ \E c \in down : b = QcRef[c]
    BY Zenon, <1>5
  <2> QED
    BY Zenon, <1>1, <2>1
<1>24. ASSUME NEW b \in Made, f.delivering[b] # "no"
       PROVE  s.delivering[b] # "no" \/ \E t \in bs : b \in Upto[t]
  <2>1. CASE b \in down \cup bottom
    BY Zenon, <1>1, <2>1
  <2>2. CASE b \notin down \cup bottom
    BY Zenon, <1>13, <1>14, <1>24, <2>2
  <2> QED
    BY Zenon, <2>1, <2>2
<1>25. \A m \in f.out : m \in s.out \/ m.b \in f.fetching
  BY Zenon, <1>5, <1>8
<1> QED
  BY Zenon, <1>17, <1>22, <1>23, <1>24, <1>25

\* What is delivered is complete, and what still waits is still served.
LEMMA DeliverKeeps ==
  ASSUME FetchAssumptions, NEW s \in RepState, Complete(s), Served(s, {}),
         NEW done \in SUBSET Made, \A b \in done : b \notin s.delivered /\ CanDeliver(s, b),
         \A b \in Made : b \notin s.delivered /\ CanDeliver(s, b) => b \in done,
         NEW d, Delivers(s, done, d)
  PROVE  /\ Complete(d) /\ Served(d, {})
         /\ \A b \in Made : d.delivering[b] # "no" => s.delivering[b] # "no"
         /\ \A b \in done : s.delivering[b] # "no"
<1>1. d.fetched = s.fetched /\ d.fetching = s.fetching /\ d.asked = s.asked /\ d.delivered = s.delivered \cup done
  BY Zenon DEF Delivers
<1>2. /\ \A b \in done : d.delivering[b] = "no" /\ d.need[b] = {}
      /\ \A b \in Blocks \ done : d.delivering[b] = s.delivering[b] /\ d.from[b] = s.from[b]
  BY Zenon DEF Delivers, Made
<1>3. /\ \A b \in Blocks \ done : Parent[b] \in done => d.need[b] = s.need[b] \ {"parent"}
      /\ \A b \in Blocks \ done : Parent[b] \notin done => d.need[b] = s.need[b]
  BY Zenon DEF Delivers
<1>4. \A b \in Made : b \in Blocks /\ b # Genesis /\ Parent[b] \in Blocks /\ QcRef[b] \in Blocks /\ b \in Upto[b]
  BY Zenon, ChainFacts DEF Made
<1>5. ASSUME NEW b \in done
      PROVE  /\ s.delivering[b] = "join" /\ b \in s.fetched /\ QcRef[b] \in s.fetched
             /\ Parent[b] \in s.delivered \cup done
  <2>1. s.delivering[b] = "join" /\ s.need[b] \subseteq {"parent"}
    BY Zenon, <1>4 DEF CanDeliver
  <2>2. "qc" \notin s.need[b]
    BY <2>1
  <2>3. b \in s.fetched /\ QcRef[b] \in s.fetched
    BY Zenon, <2>1, <2>2 DEF Complete
  <2>4. CASE Parent[b] = Genesis
    BY Zenon, <2>1, <2>3, <2>4 DEF Complete
  <2>5. CASE Parent[b] # Genesis
    <3>1. Parent[b] \in Made /\ Upto[Parent[b]] \subseteq Upto[b]
      BY Zenon, <2>5, ChainFacts
    <3>2. CanDeliver(s, Parent[b])
      BY Zenon, <3>1 DEF CanDeliver
    <3> QED
      BY Zenon, <2>1, <2>3, <3>1, <3>2
  <2> QED
    BY Zenon, <2>4, <2>5
<1>6. Complete(d)
  <2>1. Genesis \in d.delivered /\ d.delivered \subseteq d.fetched
    BY Zenon, <1>1, <1>5 DEF Complete
  <2>2. d.delivering[Genesis] = "no"
    BY Zenon, <1>2, <1>4 DEF Complete, FetchAssumptions
  <2>3. ASSUME NEW b \in Made, b \in d.delivered
        PROVE  QcRef[b] \in d.fetched /\ Parent[b] \in d.delivered /\ d.delivering[b] = "no"
    <3>1. CASE b \in done
      BY Zenon, <1>1, <1>2, <1>5, <3>1
    <3>2. CASE b \notin done
      <4>1. b \in s.delivered
        BY Zenon, <1>1, <2>3, <3>2
      <4>2. QcRef[b] \in s.fetched /\ Parent[b] \in s.delivered /\ s.delivering[b] = "no"
        BY Zenon, <4>1 DEF Complete
      <4> QED
        BY Zenon, <1>1, <1>2, <1>4, <3>2, <4>2
    <3> QED
      BY Zenon, <3>1, <3>2
  <2>4. ASSUME NEW b \in Made, d.delivering[b] = "join"
        PROVE  /\ b \in d.fetched /\ ("qc" \in d.need[b] \/ QcRef[b] \in d.fetched)
               /\ "parent" \in d.need[b] \/ Parent[b] \in d.delivered
    <3>1. b \notin done
      <4>1. b \in done => d.delivering[b] = "no"
        BY Zenon, <1>2
      <4> QED
        BY <2>4, <4>1
    <3>2. s.delivering[b] = "join"
      BY Zenon, <1>2, <1>4, <2>4, <3>1
    <3>3. /\ b \in s.fetched /\ ("qc" \in s.need[b] \/ QcRef[b] \in s.fetched)
          /\ "parent" \in s.need[b] \/ Parent[b] \in s.delivered
      BY Zenon, <3>2 DEF Complete
    <3>4. CASE Parent[b] \in done
      <4>1. d.need[b] = s.need[b] \ {"parent"}
        BY Zenon, <1>3, <1>4, <3>1, <3>4
      <4> QED
        BY <1>1, <3>3, <3>4, <4>1
    <3>5. CASE Parent[b] \notin done
      <4>1. d.need[b] = s.need[b]
        BY Zenon, <1>3, <1>4, <3>1, <3>5
      <4> QED
        BY <1>1, <3>3, <4>1
    <3> QED
      BY Zenon, <3>4, <3>5
  <2> QED
    BY Zenon, <2>1, <2>2, <2>3, <2>4 DEF Complete
<1>7. ASSUME NEW b \in Made, NEW w \in d.need[b]
      PROVE  w \in s.need[b] /\ (w = "parent" => Parent[b] \notin done)
  <2>1. b \notin done
    <3>1. b \in done => d.need[b] = {}
      BY Zenon, <1>2
    <3> QED
      BY Zenon, <3>1
  <2>2. Parent[b] \in done => d.need[b] = s.need[b] \ {"parent"}
    BY Zenon, <1>3, <1>4, <2>1
  <2>3. Parent[b] \notin done => d.need[b] = s.need[b]
    BY Zenon, <1>3, <1>4, <2>1
  <2> QED
    BY <2>2, <2>3
<1>8. ASSUME NEW b \in Made, d.delivering[b] # "no"
      PROVE  b \notin done /\ d.delivering[b] = s.delivering[b] /\ d.from[b] = s.from[b]
  <2>1. b \notin done
    BY Zenon, <1>2, <1>8
  <2> QED
    BY Zenon, <1>2, <1>4, <2>1
<1>9. Served(d, {})
  <2>1. ASSUME NEW b \in Made, d.delivering[b] = "fetch"
        PROVE  b \in d.fetching /\ d.asked[b] # {} /\ d.from[b] # Nobody
    <3>1. s.delivering[b] = "fetch" /\ d.from[b] = s.from[b]
      BY <1>8, <2>1
    <3>2. b \in s.fetching /\ s.asked[b] # {} /\ s.from[b] # Nobody
      BY Zenon, <3>1 DEF Served
    <3> QED
      BY <1>1, <3>1, <3>2
  <2>2. ASSUME NEW b \in Made, "qc" \in d.need[b]
        PROVE  QcRef[b] \in d.fetching /\ d.asked[QcRef[b]] # {}
    <3>1. "qc" \in s.need[b]
      BY Zenon, <1>7, <2>2
    <3>2. QcRef[b] \in s.fetching /\ s.asked[QcRef[b]] # {}
      BY Zenon, <3>1 DEF Served
    <3> QED
      BY <1>1, <3>2
  <2>3. ASSUME NEW b \in Made, "parent" \in d.need[b]
        PROVE  d.delivering[Parent[b]] # "no"
    <3>1. "parent" \in s.need[b] /\ Parent[b] \notin done
      BY Zenon, <1>7, <2>3
    <3>2. s.delivering[Parent[b]] # "no"
      BY Zenon, <3>1 DEF Served
    <3>3. d.delivering[Parent[b]] = s.delivering[Parent[b]]
      BY Zenon, <1>2, <1>4, <3>1
    <3> QED
      BY <3>2, <3>3
  <2> QED
    BY Zenon, <2>1, <2>2, <2>3 DEF Served
<1>10. \A b \in Made : d.delivering[b] # "no" => s.delivering[b] # "no"
  BY <1>8
<1>11. \A b \in done : s.delivering[b] # "no"
  BY <1>5
<1> QED
  BY Zenon, <1>6, <1>9, <1>10, <1>11

\* async_deliver_blk and all it calls: d is the state the handler ends in.
Settles(s, bs, d) ==
  /\ d \in RepState /\ Complete(d) /\ Served(d, {}) /\ d.fetched = s.fetched
  /\ \A b \in d.fetching :
       b \in s.fetching \/ \E t \in bs : b \in Upto[t] \/ \E c \in Upto[t] : b = QcRef[c]
  /\ \A b \in Made : d.delivering[b] # "no" => s.delivering[b] # "no" \/ \E t \in bs : b \in Upto[t]
  /\ \A m \in d.out :
       m \in s.out \/ m.b \in d.fetching \/ s.delivering[m.b] # "no" \/ \E t \in bs : m.b \in Upto[t]

EndsIn(r, rest, d) == rep' = [rep EXCEPT ![r] = [d EXCEPT !.out = {}]] /\ net' = rest \cup d.out

LEMMA DeliverBlkSettles ==
  ASSUME FetchAssumptions, NEW r \in Nodes, NEW s \in RepState, Complete(s),
         NEW bs \in SUBSET Made, Served(s, bs), NEW peer \in Nodes \cup {Nobody}, bs # {} => peer \in Nodes,
         NEW rest, DeliverBlk(r, s, bs, peer, rest)
  PROVE  \E d : Settles(s, bs, d) /\ EndsIn(r, rest, d)
<1> DEFINE down == UNION {Down(s, b) : b \in bs}
           bottom == UNION {Bottom(s, b) : b \in bs}
           q == {QcRef[c] : c \in down}
           j == Join(s, down, bottom, peer)
           f == FetchBlk(r, j, bottom \cup q, peer)
           d == OnDeliver(r, f)
           done == {b \in Made : b \notin f.delivered /\ CanDeliver(f, b)}
<1>1. EndsIn(r, rest, d)
  BY DEF DeliverBlk, EndsIn
<1>2. Hangs(s, bs, down, bottom)
  BY Zenon, JoinedChain
<1>3. (\A b \in down : QcRef[b] \in q) /\ (\A x \in q : \E c \in down : x = QcRef[c])
  BY Zenon
<1>4. done \in SUBSET Made /\ \A b \in Made : b \in done <=> b \notin f.delivered /\ CanDeliver(f, b)
  BY Zenon
<1> HIDE DEF down, bottom
<1>5. down \in SUBSET Made /\ bottom \in SUBSET Made /\ down \cap bottom = {}
  BY Zenon, <1>2 DEF Hangs
<1>6. bottom \cup q \in SUBSET Blocks
  <2>1. \A c \in down : QcRef[c] \in Blocks
    BY Zenon, <1>5, ChainFacts
  <2> QED
    BY Zenon, <1>5, <2>1 DEF Made
<1>7. j \in RepState /\ Joins(s, down, bottom, peer, j)
  <2> HIDE DEF j
  <2> QED
    BY Zenon, <1>5, JoinFields DEF j
<1> HIDE DEF q
<1>8. Genesis \in j.fetched
  BY Zenon, <1>7 DEF Joins, Complete
<1> HIDE DEF j
<1>9. f \in RepState /\ Fetches(j, bottom \cup q, peer, f)
  BY Zenon, <1>6, <1>7, <1>8, FetchFields
<1> HIDE DEF f
<1>10. FetchesJoined(s, down, bottom, q, peer, f)
  BY Zenon, <1>7, <1>9, FetchJoinFields
<1>11. /\ Complete(f) /\ Served(f, {})
       /\ \A b \in f.fetching :
            b \in s.fetching \/ \E t \in bs : b \in Upto[t] \/ \E c \in Upto[t] : b = QcRef[c]
       /\ \A b \in Made : f.delivering[b] # "no" => s.delivering[b] # "no" \/ \E t \in bs : b \in Upto[t]
       /\ \A m \in f.out : m \in s.out \/ m.b \in f.fetching
  BY Zenon, <1>2, <1>3, <1>10, JoinKeeps
<1>12. d \in RepState /\ Delivers(f, done, d)
  BY Zenon, <1>9, DeliverFields
<1> HIDE DEF d, done
<1>13. /\ Complete(d) /\ Served(d, {})
       /\ \A b \in Made : d.delivering[b] # "no" => f.delivering[b] # "no"
       /\ \A b \in done : f.delivering[b] # "no"
  BY Zenon, <1>4, <1>9, <1>11, <1>12, DeliverKeeps
<1>14. d.fetched = s.fetched /\ d.fetching = f.fetching /\ \A m \in d.out : m \in f.out \/ m.b \in done
  BY Zenon, <1>10, <1>12 DEF FetchesJoined, Delivers
<1>15. Settles(s, bs, d)
  BY Zenon, <1>4, <1>11, <1>12, <1>13, <1>14 DEF Settles
<1> QED
  BY Zenon, <1>1, <1>15

-----------------------------------------------------------------------------
\* Parsing a message stores a block: nothing that waits is disturbed.
LEMMA StoreKeeps ==
  ASSUME FetchAssumptions, NEW x \in RepState, Complete(x), Served(x, {}), NEW b \in Made,
         NEW s, s = [x EXCEPT !.fetched = @ \cup {b}]
  PROVE  /\ s \in RepState /\ Complete(s) /\ Served(s, {}) /\ Served(s, {b})
         /\ s.fetched = x.fetched \cup {b} /\ s.fetching = x.fetching /\ s.delivering = x.delivering /\ s.out = x.out
<1>1. /\ s \in RepState /\ s.fetched = x.fetched \cup {b} /\ s.delivered = x.delivered /\ s.fetching = x.fetching
      /\ s.asked = x.asked /\ s.delivering = x.delivering /\ s.need = x.need /\ s.from = x.from /\ s.out = x.out
  BY DEF RepState, Made
<1>2. Complete(s)
  BY <1>1 DEF Complete
<1>3. Served(s, {}) /\ Served(s, {b})
  BY <1>1 DEF Served
<1> QED
  BY <1>1, <1>2, <1>3

\* The pool is done with the qc of a block.
LEMMA VerifyKeeps ==
  ASSUME FetchAssumptions, NEW x \in RepState, Complete(x), Served(x, {}), NEW b \in Made,
         NEW s, s = [x EXCEPT !.need[b] = @ \ {"verify"}]
  PROVE  /\ s \in RepState /\ Complete(s) /\ Served(s, {})
         /\ s.fetched = x.fetched /\ s.fetching = x.fetching /\ s.delivering = x.delivering /\ s.out = x.out
<1> DEFINE N == [x.need EXCEPT ![b] = @ \ {"verify"}]
<1>1. x.need \in [Blocks -> SUBSET {"verify", "qc", "parent"}] /\ b \in Blocks
  BY DEF RepState, Made
<1>2. /\ N \in [Blocks -> SUBSET {"verify", "qc", "parent"}]
      /\ \A c \in Blocks : ("qc" \in N[c] <=> "qc" \in x.need[c]) /\ ("parent" \in N[c] <=> "parent" \in x.need[c])
  BY <1>1
<1>3. s = [x EXCEPT !.need = N]
  OBVIOUS
<1> HIDE DEF N
<1>4. /\ s \in RepState /\ s.fetched = x.fetched /\ s.delivered = x.delivered /\ s.fetching = x.fetching
      /\ s.asked = x.asked /\ s.delivering = x.delivering /\ s.need = N /\ s.from = x.from /\ s.out = x.out
  BY SMTT(30), <1>2, <1>3 DEF RepState
<1>5. Complete(s)
  BY <1>2, <1>4 DEF Complete, Made
<1>6. Served(s, {})
  BY <1>2, <1>4 DEF Served, Made
<1> QED
  BY <1>4, <1>5, <1>6

\* on_fetch_blk: only the delivery that waited for the block itself is to go on.
Resolves(x, b, s) ==
  /\ s \in RepState /\ Complete(s)
  /\ x.delivering[b] = "fetch" => Served(s, {b}) /\ x.from[b] \in Nodes
  /\ x.delivering[b] # "fetch" => Served(s, {})
  /\ s.fetched = x.fetched \cup {b} /\ s.fetching \subseteq x.fetching
  /\ \A c \in Made : s.delivering[c] # "no" => x.delivering[c] # "no"
  /\ \A m \in s.out : m.b = b

LEMMA OnFetchKeeps ==
  ASSUME FetchAssumptions, NEW r \in Nodes, NEW x \in RepState, Complete(x), Served(x, {}),
         NEW b \in Made, NEW s, s = OnFetch(r, x, b)
  PROVE  Resolves(x, b, s)
<1> DEFINE N == [c \in Blocks |-> IF QcRef[c] = b THEN x.need[c] \ {"qc"} ELSE x.need[c]]
           D == [x.delivering EXCEPT ![b] = IF @ = "fetch" THEN "no" ELSE @]
           A == [x.asked EXCEPT ![b] = {}]
           O == {Msg("resp", r, q[1], b) : q \in {p \in x.serve : p[2] = b}}
           V == {q \in x.serve : q[2] # b}
           G == x.fetched \cup {b}  H == x.fetching \ {b}
<1>1. s = [x EXCEPT !.fetched = G, !.fetching = H, !.asked = A, !.delivering = D, !.serve = V, !.need = N, !.out = O]
  BY DEF OnFetch
<1>2. /\ x.need \in [Blocks -> SUBSET {"verify", "qc", "parent"}] /\ x.delivering \in [Blocks -> {"no", "fetch", "join"}]
      /\ x.asked \in [Blocks -> SUBSET Nodes] /\ x.serve \in SUBSET (Nodes \X Blocks) /\ x.fetching \in SUBSET Blocks
      /\ x.fetched \in SUBSET Blocks /\ b \in Blocks /\ x.from[b] \in Nodes \cup {Nobody}
  BY DEF RepState, Made
<1>3. /\ N \in [Blocks -> SUBSET {"verify", "qc", "parent"}]
      /\ \A c \in Blocks : /\ "qc" \in N[c] <=> QcRef[c] # b /\ "qc" \in x.need[c]
                           /\ "parent" \in N[c] <=> "parent" \in x.need[c]
  BY <1>2
<1>4. /\ D \in [Blocks -> {"no", "fetch", "join"}] /\ D[b] # "fetch"
      /\ \A c \in Blocks : c # b \/ x.delivering[b] # "fetch" => D[c] = x.delivering[c]
      /\ \A c \in Blocks : D[c] # "no" => D[c] = x.delivering[c]
  BY <1>2
<1>5. A \in [Blocks -> SUBSET Nodes] /\ \A c \in Blocks : c # b => A[c] = x.asked[c]
  BY <1>2
<1>6. O \in SUBSET Messages /\ \A m \in O : m.b = b
  BY <1>2 DEF Msg, Messages
<1>7. V \in SUBSET (Nodes \X Blocks) /\ G \in SUBSET Blocks /\ H \in SUBSET Blocks
  BY <1>2
<1>8. G = x.fetched \cup {b} /\ H = x.fetching \ {b}
  OBVIOUS
<1> HIDE DEF N, D, A, O, V, G, H
<1>9. /\ s \in RepState /\ s.fetched = G /\ s.fetching = H /\ s.asked = A /\ s.delivering = D /\ s.need = N /\ s.out = O
      /\ s.delivered = x.delivered /\ s.from = x.from
  <2> DEFINE y == [x EXCEPT !.fetched = G, !.fetching = H, !.asked = A, !.delivering = D]
  <2>1. y \in RepState
    BY Zenon, <1>4, <1>5, <1>7 DEF RepState
  <2>2. /\ y.fetched = G /\ y.fetching = H /\ y.asked = A /\ y.delivering = D
        /\ y.delivered = x.delivered /\ y.from = x.from
    BY DEF RepState
  <2>3. s = [y EXCEPT !.serve = V, !.need = N, !.out = O]
    BY <1>1
  <2> HIDE DEF y
  <2>4. s \in RepState
    BY ZenonT(40), <1>3, <1>6, <1>7, <2>1, <2>3 DEF RepState
  <2>5. /\ s.fetched = y.fetched /\ s.fetching = y.fetching /\ s.asked = y.asked /\ s.delivering = y.delivering
        /\ s.need = N /\ s.out = O /\ s.delivered = y.delivered /\ s.from = y.from
    BY <2>1, <2>3 DEF RepState
  <2> QED
    BY Zenon, <2>2, <2>4, <2>5
<1>10. \A c \in Made : c \in Blocks /\ c # Genesis /\ Parent[c] \in Blocks /\ QcRef[c] \in Blocks
  BY Zenon, ChainFacts DEF Made
<1>11. s.fetched = x.fetched \cup {b} /\ s.fetching = x.fetching \ {b}
  BY <1>8, <1>9
<1>12. Complete(s)
  <2>1. Genesis \in s.delivered /\ s.delivered \subseteq s.fetched
    BY Zenon, <1>9, <1>11 DEF Complete
  <2>2. s.delivering[Genesis] = "no"
    <3>1. Genesis \in Blocks /\ x.delivering[Genesis] = "no" /\ Genesis # b
      BY Zenon DEF Complete, FetchAssumptions, Made
    <3> QED
      BY Zenon, <1>4, <1>9, <3>1
  <2>3. ASSUME NEW c \in Made, c \in s.delivered
        PROVE  QcRef[c] \in s.fetched /\ Parent[c] \in s.delivered /\ s.delivering[c] = "no"
    <3>1. QcRef[c] \in x.fetched /\ Parent[c] \in x.delivered /\ x.delivering[c] = "no"
      BY Zenon, <1>9, <2>3 DEF Complete
    <3>2. D[c] = "no"
      BY <1>4, <1>10, <3>1
    <3> QED
      BY Zenon, <1>9, <1>11, <3>1, <3>2
  <2>4. ASSUME NEW c \in Made, s.delivering[c] = "join"
        PROVE  /\ c \in s.fetched /\ ("qc" \in s.need[c] \/ QcRef[c] \in s.fetched)
               /\ "parent" \in s.need[c] \/ Parent[c] \in s.delivered
    <3>1. x.delivering[c] = "join"
      BY <1>4, <1>9, <1>10, <2>4
    <3>2. /\ c \in x.fetched /\ ("qc" \in x.need[c] \/ QcRef[c] \in x.fetched)
          /\ "parent" \in x.need[c] \/ Parent[c] \in x.delivered
      BY Zenon, <3>1 DEF Complete
    <3> QED
      BY Zenon, <1>3, <1>9, <1>10, <1>11, <3>2
  <2> QED
    BY Zenon, <2>1, <2>2, <2>3, <2>4 DEF Complete
<1>13. ASSUME NEW c \in Made, s.delivering[c] = "fetch"
       PROVE  c \in s.fetching /\ s.asked[c] # {} /\ s.from[c] # Nobody
  <2>1. c # b /\ x.delivering[c] = "fetch"
    BY <1>4, <1>9, <1>10, <1>13
  <2>2. c \in x.fetching /\ x.asked[c] # {} /\ x.from[c] # Nobody
    BY Zenon, <2>1 DEF Served
  <2> QED
    BY Zenon, <1>5, <1>9, <1>10, <1>11, <2>1, <2>2
<1>14. ASSUME NEW c \in Made, "qc" \in s.need[c]
       PROVE  QcRef[c] \in s.fetching /\ s.asked[QcRef[c]] # {}
  <2>1. QcRef[c] # b /\ "qc" \in x.need[c]
    BY <1>3, <1>9, <1>10, <1>14
  <2>2. QcRef[c] \in x.fetching /\ x.asked[QcRef[c]] # {}
    BY Zenon, <2>1 DEF Served
  <2> QED
    BY Zenon, <1>5, <1>9, <1>10, <1>11, <2>1, <2>2
<1>15. ASSUME NEW c \in Made, "parent" \in s.need[c]
       PROVE  \/ s.delivering[Parent[c]] # "no"
              \/ x.delivering[b] = "fetch" /\ Parent[c] \in {b} \cap s.fetched /\ Parent[c] \notin s.delivered
  <2>1. x.delivering[Parent[c]] # "no"
    <3>1. "parent" \in x.need[c]
      BY <1>3, <1>9, <1>10, <1>15
    <3> QED
      BY Zenon, <3>1 DEF Served
  <2>2. CASE Parent[c] # b \/ x.delivering[b] # "fetch"
    BY Zenon, <1>4, <1>9, <1>10, <2>1, <2>2
  <2>3. CASE Parent[c] = b /\ x.delivering[b] = "fetch"
    <3>1. b \notin x.delivered
      BY Zenon, <2>1, <2>3 DEF Complete
    <3> QED
      BY Zenon, <1>9, <1>11, <2>3, <3>1
  <2> QED
    BY Zenon, <2>2, <2>3
<1>16. x.delivering[b] = "fetch" => Served(s, {b}) /\ x.from[b] \in Nodes
  <2>1. x.delivering[b] = "fetch" => x.from[b] \in Nodes
    BY Zenon, <1>2 DEF Served
  <2>2. Served(s, {b})
    BY Zenon, <1>13, <1>14, <1>15 DEF Served
  <2> QED
    BY Zenon, <2>1, <2>2
<1>17. x.delivering[b] # "fetch" => Served(s, {})
  BY Zenon, <1>13, <1>14, <1>15 DEF Served
<1>18. s.fetching \subseteq x.fetching /\ (\A c \in Made : s.delivering[c] # "no" => x.delivering[c] # "no") /\ \A m \in s.out : m.b = b
  BY <1>4, <1>6, <1>9, <1>10, <1>11
<1> QED
  BY Zenon, <1>9, <1>11, <1>12, <1>16, <1>17, <1>18 DEF Resolves

-----------------------------------------------------------------------------
\* A step of one replica that leaves it in a good state e.
LEMMA GoodStep ==
  ASSUME FetchInv, NEW r \in Nodes, NEW e \in RepState, rep' = [rep EXCEPT ![r] = e],
         Complete(e), Served(e, {}), e.out = {}, net' \in SUBSET Messages, restarts' \in Nat,
         restarts' = 0 => OnlyHeard'
  PROVE  FetchInv'
<1>1. rep \in [Nodes -> RepState]
  BY DEF FetchInv
<1>2. rep' \in [Nodes -> RepState] /\ rep'[r] = e /\ \A p \in Nodes : p # r => rep'[p] = rep[p]
  BY <1>1
<1>3. \A p \in Nodes : Complete(rep'[p]) /\ Served(rep'[p], {}) /\ rep'[p].out = {}
  BY Zenon, <1>2 DEF FetchInv
<1> QED
  BY Zenon, <1>2, <1>3 DEF FetchInv

\* One that also sends only of what has been heard of.
LEMMA ReplicaStep ==
  ASSUME FetchAssumptions, FetchInv, NEW r \in Nodes, NEW e \in RepState, rep' = [rep EXCEPT ![r] = e],
         Complete(e), Served(e, {}), e.out = {}, net' \in SUBSET Messages, restarts' = restarts,
         rep[r].fetched \subseteq e.fetched,
         OnlyHeard =>
           /\ e.fetched \subseteq Heard /\ e.fetching \subseteq Heard
           /\ \A b \in Made : e.delivering[b] # "no" => b \in Heard
           /\ \A m \in net' : m.b \in Heard
  PROVE  FetchInv'
<1>1. rep \in [Nodes -> RepState] /\ restarts \in Nat
  BY DEF FetchInv
<1>2. rep'[r] = e /\ \A p \in Nodes : p # r => rep'[p] = rep[p]
  BY <1>1
<1>3. ASSUME OnlyHeard
      PROVE  OnlyHeard'
  <2>1. Heard' = Heard
    <3>1. \A p \in Nodes : rep'[p].fetched \subseteq Heard /\ rep[p].fetched \subseteq rep'[p].fetched
      BY Zenon, <1>2, <1>3 DEF Heard
    <3>2. \A b : b \in Heard <=> \E p \in Nodes : b \in rep[p].fetched
      BY Zenon DEF Heard
    <3>3. \A b : b \in Heard' <=> \E p \in Nodes : b \in rep'[p].fetched
      BY Zenon DEF Heard
    <3>4. \A b : b \in Heard' <=> b \in Heard
      BY Zenon, <3>1, <3>2, <3>3
    <3> QED
      BY <3>4
  <2>2. \A p \in Nodes : rep'[p].fetching \subseteq Heard /\ \A b \in Made : rep'[p].delivering[b] # "no" => b \in Heard
    BY Zenon, <1>2, <1>3 DEF OnlyHeard
  <2>3. \A b \in Heard \ {Genesis} : Upto[b] \subseteq Heard /\ QcRef[b] \in Heard
    BY Zenon, <1>3 DEF OnlyHeard
  <2>4. \A m \in net' : m.b \in Heard
    BY Zenon, <1>3
  <2> QED
    BY Zenon, <2>1, <2>2, <2>3, <2>4 DEF OnlyHeard
<1>4. restarts' \in Nat /\ (restarts' = 0 => OnlyHeard')
  BY <1>1, <1>3 DEF FetchInv
<1> QED
  BY Zenon, <1>4, GoodStep

\* A handler that ends in async_deliver_blk.
LEMMA DeliverStep ==
  ASSUME FetchAssumptions, FetchInv, NEW r \in Nodes, NEW s \in RepState, Complete(s),
         NEW bs \in SUBSET Made, Served(s, bs), NEW peer \in Nodes \cup {Nobody}, bs # {} => peer \in Nodes,
         NEW rest \in SUBSET net, DeliverBlk(r, s, bs, peer, rest), restarts' = restarts,
         rep[r].fetched \subseteq s.fetched,
         OnlyHeard =>
           /\ s.fetched \subseteq Heard /\ s.fetching \subseteq Heard /\ bs \subseteq Heard
           /\ \A b \in Made : s.delivering[b] # "no" => b \in Heard
           /\ \A m \in s.out : m.b \in Heard
  PROVE  FetchInv'
<1>0. PICK d : Settles(s, bs, d) /\ EndsIn(r, rest, d)
  BY Zenon, DeliverBlkSettles
<1>1. Settles(s, bs, d) /\ rep' = [rep EXCEPT ![r] = [d EXCEPT !.out = {}]] /\ net' = rest \cup d.out
  BY Zenon, <1>0 DEF EndsIn
<1> DEFINE e == [d EXCEPT !.out = {}]
<1>2. d \in RepState /\ Complete(d) /\ Served(d, {}) /\ d.fetched = s.fetched
  BY Zenon, <1>1 DEF Settles
<1>3. /\ e \in RepState /\ e.out = {} /\ e.fetched = d.fetched /\ e.delivered = d.delivered /\ e.fetching = d.fetching
      /\ e.asked = d.asked /\ e.delivering = d.delivering /\ e.need = d.need /\ e.from = d.from
      /\ d.out \in SUBSET Messages
  BY <1>2 DEF RepState
<1> HIDE DEF e
<1>4. Complete(e)
  BY <1>2, <1>3 DEF Complete
<1>5. Served(e, {})
  BY <1>2, <1>3 DEF Served
<1>6. net' \in SUBSET Messages
  BY Zenon, <1>1, <1>3 DEF FetchInv
<1>7. rep[r].fetched \subseteq e.fetched
  BY <1>2, <1>3
<1>8. ASSUME OnlyHeard
      PROVE  /\ e.fetched \subseteq Heard /\ e.fetching \subseteq Heard
             /\ \A b \in Made : e.delivering[b] # "no" => b \in Heard
             /\ \A m \in net' : m.b \in Heard
  <2>1. \A t \in bs : /\ Upto[t] \subseteq Heard /\ Upto[t] \subseteq Made
                      /\ \A c \in Upto[t] : QcRef[c] \in Heard
    <3>1. ASSUME NEW t \in bs
          PROVE  /\ Upto[t] \subseteq Heard /\ Upto[t] \subseteq Made
                 /\ \A c \in Upto[t] : QcRef[c] \in Heard
      <4>1. t \in Made /\ t \in Heard \ {Genesis}
        BY Zenon, <1>8 DEF Made
      <4>2. Upto[t] \subseteq Heard /\ Upto[t] \subseteq Made
        BY Zenon, <1>8, <4>1, ChainFacts DEF OnlyHeard
      <4>3. \A c \in Upto[t] : c \in Heard \ {Genesis}
        BY Zenon, <4>2 DEF Made
      <4> QED
        BY Zenon, <1>8, <4>2, <4>3 DEF OnlyHeard
    <3> QED
      BY Zenon, <3>1
  <2>2. d.fetching \subseteq Heard
    <3>1. ASSUME NEW b \in d.fetching
          PROVE  b \in Heard
      <4>1. b \in s.fetching \/ \E t \in bs : b \in Upto[t] \/ \E c \in Upto[t] : b = QcRef[c]
        BY Zenon, <1>1 DEF Settles
      <4> QED
        BY <1>8, <2>1, <4>1
    <3> QED
      BY Zenon, <3>1
  <2>3. \A b \in Made : d.delivering[b] # "no" => b \in Heard
    BY Zenon, <1>1, <1>8, <2>1 DEF Settles
  <2>4. \A m \in d.out : m.b \in Made
    BY Zenon, <1>3 DEF Messages
  <2>5. \A m \in d.out : m.b \in Heard
    BY Zenon, <1>1, <1>8, <2>1, <2>2, <2>4 DEF Settles
  <2>6. \A m \in net : m.b \in Heard
    BY Zenon, <1>8 DEF OnlyHeard
  <2>7. \A m \in net' : m.b \in Heard
    BY Zenon, <1>1, <2>5, <2>6
  <2>8. e.fetched \subseteq Heard
    BY <1>2, <1>3, <1>8
  <2> QED
    BY <1>3, <2>2, <2>3, <2>7, <2>8
<1>9. rep' = [rep EXCEPT ![r] = e]
  BY Zenon, <1>1 DEF e
<1> QED
  BY Zenon, <1>3, <1>4, <1>5, <1>6, <1>7, <1>8, <1>9, ReplicaStep

-----------------------------------------------------------------------------
\* Each of the steps, in the order of FetchNext.
LEMMA ProposeKeeps ==
  ASSUME FetchAssumptions, FetchInv, NEW r \in Nodes, NEW b \in Made, Propose(r, b)
  PROVE  FetchInv'
<1> DEFINE x == rep[r]  e == [x EXCEPT !.fetched = @ \cup {b}, !.delivered = @ \cup {b}]
<1>1. /\ \A q \in Nodes : b \notin rep[q].fetched
      /\ restarts = 0 /\ restarts' = restarts /\ Parent[b] \in x.delivered /\ QcRef[b] \in x.fetched
      /\ net' = net \cup {Msg("prop", r, q, b) : q \in Others(r)}
  BY DEF Propose
<1>2. rep' = [rep EXCEPT ![r] = e]
  BY Zenon DEF Propose
<1>3. rep \in [Nodes -> RepState] /\ x \in RepState /\ Complete(x) /\ Served(x, {}) /\ x.out = {} /\ OnlyHeard
  BY Zenon, <1>1 DEF FetchInv
<1> HIDE DEF x
<1>4. b \in Blocks /\ b # Genesis /\ Parent[b] \in Blocks
  BY Zenon, ChainFacts DEF Made
<1>5. /\ e \in RepState /\ e.fetched = x.fetched \cup {b} /\ e.delivered = x.delivered \cup {b} /\ e.fetching = x.fetching
      /\ e.asked = x.asked /\ e.delivering = x.delivering /\ e.need = x.need /\ e.from = x.from /\ e.out = x.out
  BY Zenon, <1>3, <1>4 DEF RepState
<1> HIDE DEF e
<1>6. b \notin Heard /\ x.fetched \subseteq Heard
  BY Zenon, <1>1 DEF Heard, x
<1>7. x.delivering[b] = "no"
  BY Zenon, <1>3, <1>6 DEF OnlyHeard, x
<1>8. Complete(e)
  <2>1. Genesis \in e.delivered /\ e.delivered \subseteq e.fetched /\ e.delivering[Genesis] = "no"
    BY <1>3, <1>5 DEF Complete
  <2>2. ASSUME NEW c \in Made, c \in e.delivered
        PROVE  QcRef[c] \in e.fetched /\ Parent[c] \in e.delivered /\ e.delivering[c] = "no"
    BY <1>1, <1>3, <1>5, <1>7, <2>2 DEF Complete
  <2>3. ASSUME NEW c \in Made, e.delivering[c] = "join"
        PROVE  /\ c \in e.fetched /\ ("qc" \in e.need[c] \/ QcRef[c] \in e.fetched)
               /\ "parent" \in e.need[c] \/ Parent[c] \in e.delivered
    BY <1>3, <1>5, <2>3 DEF Complete
  <2> QED
    BY Zenon, <2>1, <2>2, <2>3 DEF Complete
<1>9. Served(e, {})
  BY <1>3, <1>5 DEF Served
<1>10. {Msg("prop", r, q, b) : q \in Others(r)} \subseteq Messages /\ \A m \in {Msg("prop", r, q, b) : q \in Others(r)} : m.b = b
  BY DEF Msg, Others, Messages
<1>11. net' \in SUBSET Messages /\ \A m \in net' : m \in net \/ m.b = b
  BY Zenon, <1>1, <1>10 DEF FetchInv
<1>12. rep'[r] = e /\ \A p \in Nodes : p # r => rep'[p] = rep[p]
  BY <1>2, <1>3
<1>13. OnlyHeard'
  <2>1. \A c : c \in Heard' <=> c \in Heard \/ c = b
    <3>1. \A c : c \in Heard <=> \E p \in Nodes : c \in rep[p].fetched
      BY Zenon DEF Heard
    <3>2. \A c : c \in Heard' <=> \E p \in Nodes : c \in rep'[p].fetched
      BY Zenon DEF Heard
    <3>3. \A p \in Nodes : rep[p].fetched \subseteq rep'[p].fetched /\ rep'[p].fetched \subseteq rep[p].fetched \cup {b}
      BY <1>5, <1>12 DEF x
    <3>4. b \in rep'[r].fetched
      BY <1>5, <1>12
    <3> QED
      BY <3>1, <3>2, <3>3, <3>4
  <2>2. \A c \in Heard \ {Genesis} : Upto[c] \subseteq Heard /\ QcRef[c] \in Heard
    BY Zenon, <1>3 DEF OnlyHeard
  <2>3. QcRef[b] \in Heard /\ Parent[b] \in Heard
    BY Zenon, <1>1, <1>3, <1>6 DEF Complete
  <2>4. Upto[b] \subseteq Heard'
    <3>1. Upto[b] = {b} \cup (IF Parent[b] = Genesis THEN {} ELSE Upto[Parent[b]])
      BY DEF FetchAssumptions
    <3>2. Parent[b] # Genesis => Upto[Parent[b]] \subseteq Heard
      BY Zenon, <2>2, <2>3
    <3> QED
      BY <2>1, <3>1, <3>2
  <2>5. \A c \in Heard' \ {Genesis} : Upto[c] \subseteq Heard' /\ QcRef[c] \in Heard'
    BY Zenon, <2>1, <2>2, <2>3, <2>4
  <2>6. \A m \in net' : m.b \in Heard'
    BY Zenon, <1>3, <1>11, <2>1 DEF OnlyHeard
  <2>7. \A p \in Nodes : rep'[p].fetching = rep[p].fetching /\ rep'[p].delivering = rep[p].delivering
    BY <1>5, <1>12 DEF x
  <2>8. \A p \in Nodes : rep'[p].fetching \subseteq Heard' /\ \A c \in Made : rep'[p].delivering[c] # "no" => c \in Heard'
    BY Zenon, <1>3, <2>1, <2>7 DEF OnlyHeard
  <2> QED
    BY Zenon, <2>5, <2>6, <2>8 DEF OnlyHeard
<1> QED
  BY <1>1, <1>2, <1>3, <1>5, <1>8, <1>9, <1>11, <1>13, GoodStep DEF FetchInv

\* What the invariant says of one replica and of a message on its way to it.
LEMMA ReplicaFacts ==
  ASSUME FetchInv, NEW r \in Nodes
  PROVE  /\ rep[r] \in RepState /\ Complete(rep[r]) /\ Served(rep[r], {}) /\ rep[r].out = {}
         /\ net \subseteq Messages /\ rep[r].fetched \subseteq Heard
         /\ OnlyHeard => /\ rep[r].fetching \subseteq Heard
                         /\ \A b \in Made : rep[r].delivering[b] # "no" => b \in Heard
                         /\ \A m \in net : m.b \in Heard
<1>1. rep[r] \in RepState /\ Complete(rep[r]) /\ Served(rep[r], {}) /\ rep[r].out = {} /\ net \subseteq Messages
  BY Zenon DEF FetchInv
<1>2. rep[r].fetched \subseteq Heard
  BY Zenon DEF Heard
<1>3. OnlyHeard => /\ rep[r].fetching \subseteq Heard
                   /\ \A b \in Made : rep[r].delivering[b] # "no" => b \in Heard
                   /\ \A m \in net : m.b \in Heard
  BY Zenon DEF OnlyHeard
<1> QED
  BY Zenon, <1>1, <1>2, <1>3

LEMMA VerifiedKeeps ==
  ASSUME FetchAssumptions, FetchInv, NEW r \in Nodes, NEW b \in Made, Verified(r, b)
  PROVE  FetchInv'
<1> DEFINE x == rep[r]  s == [x EXCEPT !.need[b] = @ \ {"verify"}]
<1>1. DeliverBlk(r, s, {}, Nobody, net) /\ restarts' = restarts
  BY Zenon DEF Verified
<1>2. /\ x \in RepState /\ Complete(x) /\ Served(x, {}) /\ x.out = {} /\ x.fetched \subseteq Heard
      /\ OnlyHeard => /\ x.fetching \subseteq Heard /\ \A c \in Made : x.delivering[c] # "no" => c \in Heard
  BY Zenon, ReplicaFacts
<1>3. x.fetched = rep[r].fetched
  OBVIOUS
<1> HIDE DEF x
<1>4. /\ s \in RepState /\ Complete(s) /\ Served(s, {})
      /\ s.fetched = x.fetched /\ s.fetching = x.fetching /\ s.delivering = x.delivering /\ s.out = x.out
  BY <1>2, VerifyKeeps
<1> HIDE DEF s
<1>5. rep[r].fetched \subseteq s.fetched
  BY <1>3, <1>4
<1>6. OnlyHeard => /\ s.fetched \subseteq Heard /\ s.fetching \subseteq Heard
                   /\ \A c \in Made : s.delivering[c] # "no" => c \in Heard
                   /\ \A m \in s.out : m.b \in Heard
  BY <1>2, <1>4
<1>7. {} \in SUBSET Made /\ {} \subseteq Heard /\ net \in SUBSET net /\ Nobody \in Nodes \cup {Nobody}
  OBVIOUS
<1> QED
  BY Zenon, <1>1, <1>4, <1>5, <1>6, <1>7, DeliverStep

\* A step that changes no replica.
LEMMA NetStep ==
  ASSUME FetchInv, rep' = rep, restarts' = restarts, net' \in SUBSET Messages,
         OnlyHeard => \A m \in net' : m.b \in Heard
  PROVE  FetchInv'
<1>1. Heard' = Heard
  BY DEF Heard
<1>2. OnlyHeard => OnlyHeard'
  BY Zenon, <1>1 DEF OnlyHeard
<1> QED
  BY <1>2 DEF FetchInv

LEMMA TimeoutKeeps ==
  ASSUME FetchAssumptions, FetchInv, NEW r \in Nodes, NEW b \in Made, Timeout(r, b)
  PROVE  FetchInv'
<1> DEFINE M == {Msg("req", r, q, b) : q \in rep[r].asked[b]}
<1>1. b \in rep[r].fetching /\ net' = net \cup M /\ rep' = rep /\ restarts' = restarts
  BY Zenon DEF Timeout
<1>2. rep[r].asked[b] \subseteq Nodes
  BY ReplicaFacts DEF RepState, Made
<1>3. M \subseteq Messages /\ \A m \in M : m.b = b
  BY <1>2 DEF Msg, Messages
<1> HIDE DEF M
<1>4. net' \in SUBSET Messages /\ (OnlyHeard => \A m \in net' : m.b \in Heard)
  BY <1>1, <1>3, ReplicaFacts
<1> QED
  BY Zenon, <1>1, <1>4, NetStep

LEMMA LoseKeeps ==
  ASSUME FetchInv, NEW m \in net, Lose(m)
  PROVE  FetchInv'
<1>1. net' = net \ {m} /\ rep' = rep /\ restarts' = restarts
  BY Zenon DEF Lose
<1>2. net' \in SUBSET Messages /\ (OnlyHeard => \A n \in net' : n.b \in Heard)
  BY ZenonT(40), <1>1 DEF FetchInv, OnlyHeard
<1> QED
  BY Zenon, <1>1, <1>2, NetStep

\* The state a replica starts in.
LEMMA FreshGood ==
  ASSUME FetchAssumptions
  PROVE  /\ Fresh \in RepState /\ Complete(Fresh) /\ Served(Fresh, {}) /\ Fresh.out = {}
         /\ Fresh.fetched = {Genesis} /\ Fresh.fetching = {} /\ \A b \in Made : Fresh.delivering[b] = "no"
<1>1. Genesis \in Blocks
  BY DEF FetchAssumptions
<1>2. Fresh \in RepState
  BY SMTT(30), <1>1 DEF Fresh, RepState
<1>3. Complete(Fresh)
  BY ZenonT(40), <1>1 DEF Fresh, Complete, Made
<1>4. Served(Fresh, {})
  BY DEF Fresh, Served, Made
<1> QED
  BY <1>2, <1>3, <1>4 DEF Fresh, Made

LEMMA RestartKeeps ==
  ASSUME FetchAssumptions, FetchInv, NEW r \in Nodes, Restart(r)
  PROVE  FetchInv'
<1>1. restarts' = restarts + 1 /\ restarts \in Nat /\ net' = net /\ rep' = [rep EXCEPT ![r] = Fresh] /\ net \in SUBSET Messages
  BY DEF Restart, FetchInv
<1>2. restarts' \in Nat /\ restarts' # 0
  BY <1>1
<1> QED
  BY Zenon, <1>1, <1>2, FreshGood, GoodStep

LEMMA RecvProposeKeeps ==
  ASSUME FetchAssumptions, FetchInv, NEW m \in net, RecvPropose(m)
  PROVE  FetchInv'
<1> DEFINE r == m.to  b == m.b  x == rep[r]  s == [x EXCEPT !.fetched = @ \cup {b}]
<1>1. DeliverBlk(r, s, {b}, m.from, net \ {m}) /\ restarts' = restarts
  BY Zenon DEF RecvPropose, Recv
<1>2. r \in Nodes /\ b \in Made /\ m.from \in Nodes
  BY DEF FetchInv, Messages
<1> HIDE DEF r, b
<1>3. /\ x \in RepState /\ Complete(x) /\ Served(x, {}) /\ x.out = {} /\ x.fetched \subseteq Heard
      /\ OnlyHeard => /\ x.fetching \subseteq Heard /\ \A c \in Made : x.delivering[c] # "no" => c \in Heard
  BY Zenon, <1>2, ReplicaFacts
<1>4. OnlyHeard => b \in Heard
  BY Zenon DEF OnlyHeard, b
<1>5. x.fetched = rep[r].fetched
  OBVIOUS
<1> HIDE DEF x
<1>6. /\ s \in RepState /\ Complete(s) /\ Served(s, {b})
      /\ s.fetched = x.fetched \cup {b} /\ s.fetching = x.fetching /\ s.delivering = x.delivering /\ s.out = x.out
  BY ZenonT(40), <1>2, <1>3, StoreKeeps
<1> HIDE DEF s
<1>7. rep[r].fetched \subseteq s.fetched
  BY <1>5, <1>6
<1>8. OnlyHeard => /\ s.fetched \subseteq Heard /\ s.fetching \subseteq Heard /\ {b} \subseteq Heard
                   /\ \A c \in Made : s.delivering[c] # "no" => c \in Heard
                   /\ \A n \in s.out : n.b \in Heard
  BY <1>3, <1>4, <1>6
<1>9. {b} \in SUBSET Made /\ net \ {m} \in SUBSET net /\ m.from \in Nodes \cup {Nobody}
  BY Zenon, <1>2
<1> QED
  BY Zenon, <1>1, <1>2, <1>6, <1>7, <1>8, <1>9, DeliverStep

LEMMA RecvVoteKeeps ==
  ASSUME FetchAssumptions, FetchInv, NEW m \in net, RecvVote(m)
  PROVE  FetchInv'
<1> DEFINE r == m.to  b == m.b  x == rep[r]
<1>1. DeliverBlk(r, x, {b}, m.from, net \ {m}) /\ restarts' = restarts
  BY Zenon DEF RecvVote, Recv
<1>2. r \in Nodes /\ b \in Made /\ m.from \in Nodes
  BY DEF FetchInv, Messages
<1> HIDE DEF r, b
<1>3. /\ x \in RepState /\ Complete(x) /\ Served(x, {}) /\ x.out = {} /\ x.fetched \subseteq Heard
      /\ OnlyHeard => /\ x.fetching \subseteq Heard /\ \A c \in Made : x.delivering[c] # "no" => c \in Heard
  BY Zenon, <1>2, ReplicaFacts
<1>4. OnlyHeard => {b} \subseteq Heard
  BY Zenon DEF OnlyHeard, b
<1>5. Served(x, {b})
  BY Zenon, <1>3 DEF Served
<1>6. {b} \in SUBSET Made /\ net \ {m} \in SUBSET net /\ m.from \in Nodes \cup {Nobody}
  BY Zenon, <1>2
<1>7. rep[r].fetched \subseteq x.fetched /\ \A n \in x.out : n.b \in Heard
  BY Zenon, <1>3
<1> HIDE DEF x
<1> QED
  BY Zenon, <1>1, <1>2, <1>3, <1>4, <1>5, <1>6, <1>7, DeliverStep

\* A request for a block that is not there opens a context that asks nobody: no
\* delivery waits for it.
LEMMA RecvReqKeeps ==
  ASSUME FetchAssumptions, FetchInv, NEW m \in net, RecvReq(m)
  PROVE  FetchInv'
<1> DEFINE r == m.to  b == m.b  x == rep[r]
           y == [x EXCEPT !.serve = @ \cup {<<m.from, b>>}]  e == FetchBlk(r, y, {b}, Nobody)
<1>1. r \in Nodes /\ b \in Made /\ m.from \in Nodes /\ b \in Blocks
  BY DEF FetchInv, Messages, Made
<1>2. restarts' = restarts
  BY DEF RecvReq, Recv
<1>3. CASE b \in rep[r].fetched
  <2>1. net' = (net \ {m}) \cup {Msg("resp", r, m.from, b)} /\ rep' = rep
    BY Zenon, <1>3 DEF RecvReq
  <2>2. Msg("resp", r, m.from, b) \in Messages /\ Msg("resp", r, m.from, b).b = b
    BY <1>1 DEF Msg, Messages
  <2>3. net' \in SUBSET Messages
    BY Zenon, <2>1, <2>2 DEF FetchInv
  <2>4. OnlyHeard => \A n \in net' : n.b \in Heard
    <3>1. OnlyHeard => (\A n \in net : n.b \in Heard) /\ b \in Heard
      BY Zenon DEF OnlyHeard
    <3> HIDE DEF b, r
    <3> QED
      BY <2>1, <2>2, <3>1
  <2> QED
    BY Zenon, <1>2, <2>1, <2>3, <2>4, NetStep
<1>4. CASE b \notin rep[r].fetched
  <2>1. rep' = [rep EXCEPT ![r] = e] /\ net' = net \ {m}
    BY <1>4 DEF RecvReq
  <2>2. OnlyHeard => b \in Heard
    BY Zenon DEF OnlyHeard
  <2> HIDE DEF r, b
  <2>3. /\ x \in RepState /\ Complete(x) /\ Served(x, {}) /\ x.out = {} /\ x.fetched \subseteq Heard /\ net \subseteq Messages
        /\ OnlyHeard => /\ x.fetching \subseteq Heard /\ \A c \in Made : x.delivering[c] # "no" => c \in Heard
                        /\ \A n \in net : n.b \in Heard
    BY Zenon, <1>1, ReplicaFacts
  <2>4. x.fetched = rep[r].fetched
    OBVIOUS
  <2> HIDE DEF x
  <2>5. /\ y \in RepState /\ y.fetched = x.fetched /\ y.delivered = x.delivered /\ y.fetching = x.fetching
        /\ y.asked = x.asked /\ y.delivering = x.delivering /\ y.need = x.need /\ y.from = x.from /\ y.out = x.out
    BY <1>1, <2>3 DEF RepState
  <2> HIDE DEF y
  <2>6. Genesis \in y.fetched /\ {b} \in SUBSET Blocks /\ Nobody \in Nodes \cup {Nobody}
    BY <1>1, <2>3, <2>5 DEF Complete
  <2>7. e \in RepState /\ Fetches(y, {b}, Nobody, e)
    BY Zenon, <1>1, <2>5, <2>6, FetchFields
  <2> HIDE DEF e
  <2>8. /\ e.fetched = y.fetched /\ e.delivered = y.delivered /\ e.delivering = y.delivering
        /\ e.need = y.need /\ e.from = y.from /\ e.out = y.out
        /\ e.fetching = y.fetching \cup ({b} \ y.fetched)
    BY Zenon, <2>7 DEF Fetches
  <2>9. \A c \in Blocks : y.asked[c] \subseteq e.asked[c]
    BY Zenon, <2>7 DEF Fetches
  <2>10. \A c \in Blocks : x.asked[c] # {} => e.asked[c] # {}
    BY <2>5, <2>9
  <2>11. e.fetched = x.fetched /\ e.delivered = x.delivered /\ e.delivering = x.delivering
         /\ e.need = x.need /\ e.from = x.from /\ e.out = {} /\ e.fetching = x.fetching \cup ({b} \ x.fetched)
    BY <2>3, <2>5, <2>8
  <2>12. Complete(e)
    BY <2>3, <2>11 DEF Complete
  <2>13. Served(e, {})
    <3>1. \A c \in Made : c \in Blocks /\ QcRef[c] \in Blocks
      BY Zenon, ChainFacts
    <3> QED
      BY <2>3, <2>10, <2>11, <3>1 DEF Served
  <2>14. net' \in SUBSET Messages /\ rep[r].fetched \subseteq e.fetched
    BY <2>1, <2>3, <2>4, <2>11
  <2>15. OnlyHeard => /\ e.fetched \subseteq Heard /\ e.fetching \subseteq Heard
                      /\ \A c \in Made : e.delivering[c] # "no" => c \in Heard
                      /\ \A n \in net' : n.b \in Heard
    BY <2>1, <2>2, <2>3, <2>11
  <2> QED
    BY Zenon, <1>1, <1>2, <2>1, <2>7, <2>11, <2>12, <2>13, <2>14, <2>15, ReplicaStep
<1> QED
  BY Zenon, <1>3, <1>4

LEMMA RecvRespKeeps ==
  ASSUME FetchAssumptions, FetchInv, NEW m \in net, RecvResp(m)
  PROVE  FetchInv'
<1> DEFINE r == m.to  b == m.b  x == rep[r]  s == OnFetch(r, x, b)
           bs == IF x.delivering[b] = "fetch" THEN {b} ELSE {}
           e == [x EXCEPT !.fetched = @ \cup {b}]
<1>1. r \in Nodes /\ b \in Made /\ restarts' = restarts /\ (OnlyHeard => b \in Heard)
  BY DEF FetchInv, Messages, RecvResp, Recv, OnlyHeard
<1>2. b \in x.fetching => DeliverBlk(r, s, bs, x.from[b], net \ {m})
  BY Zenon DEF RecvResp
<1>3. b \notin x.fetching => rep' = [rep EXCEPT ![r] = e] /\ net' = net \ {m}
  BY DEF RecvResp
<1> HIDE DEF r, b
<1>4. /\ x \in RepState /\ Complete(x) /\ Served(x, {}) /\ x.out = {} /\ x.fetched \subseteq Heard /\ net \subseteq Messages
      /\ OnlyHeard => /\ x.fetching \subseteq Heard /\ \A c \in Made : x.delivering[c] # "no" => c \in Heard
                      /\ \A n \in net : n.b \in Heard
  BY Zenon, <1>1, ReplicaFacts
<1>5. x.fetched = rep[r].fetched
  OBVIOUS
<1> HIDE DEF x
<1>6. CASE b \in x.fetching
  <2>0. Resolves(x, b, s)
    BY Zenon, <1>1, <1>4, OnFetchKeeps
  <2> HIDE DEF s
  <2>1. /\ s \in RepState /\ Complete(s)
        /\ x.delivering[b] = "fetch" => Served(s, {b}) /\ x.from[b] \in Nodes
        /\ x.delivering[b] # "fetch" => Served(s, {})
        /\ s.fetched = x.fetched \cup {b} /\ s.fetching \subseteq x.fetching
        /\ \A c \in Made : s.delivering[c] # "no" => x.delivering[c] # "no"
        /\ \A n \in s.out : n.b = b
    BY Zenon, <2>0 DEF Resolves
  <2>2. Served(s, bs) /\ (bs # {} => x.from[b] \in Nodes) /\ bs \in SUBSET Made /\ bs \subseteq {b}
    <3>1. CASE x.delivering[b] = "fetch"
      BY Zenon, <1>1, <2>1, <3>1
    <3>2. CASE x.delivering[b] # "fetch"
      BY Zenon, <1>1, <2>1, <3>2
    <3> QED
      BY Zenon, <3>1, <3>2
  <2> HIDE DEF bs
  <2>3. x.from[b] \in Nodes \cup {Nobody}
    BY <1>1, <1>4 DEF RepState, Made
  <2>4. rep[r].fetched \subseteq s.fetched /\ net \ {m} \in SUBSET net
    BY <1>5, <2>1
  <2>5. OnlyHeard => /\ s.fetched \subseteq Heard /\ s.fetching \subseteq Heard /\ bs \subseteq Heard
                     /\ \A c \in Made : s.delivering[c] # "no" => c \in Heard
                     /\ \A n \in s.out : n.b \in Heard
    BY <1>1, <1>4, <2>1, <2>2
  <2> QED
    BY Zenon, <1>1, <1>2, <1>6, <2>1, <2>2, <2>3, <2>4, <2>5, DeliverStep
<1>7. CASE b \notin x.fetching
  <2>1. /\ e \in RepState /\ Complete(e) /\ Served(e, {})
        /\ e.fetched = x.fetched \cup {b} /\ e.fetching = x.fetching /\ e.delivering = x.delivering /\ e.out = x.out
    BY ZenonT(40), <1>1, <1>4, StoreKeeps
  <2> HIDE DEF e
  <2>2. rep[r].fetched \subseteq e.fetched /\ net' \in SUBSET Messages /\ e.out = {}
    BY <1>3, <1>4, <1>5, <1>7, <2>1
  <2>3. OnlyHeard => /\ e.fetched \subseteq Heard /\ e.fetching \subseteq Heard
                     /\ \A c \in Made : e.delivering[c] # "no" => c \in Heard
                     /\ \A n \in net' : n.b \in Heard
    BY <1>1, <1>3, <1>4, <1>7, <2>1
  <2> QED
    BY Zenon, <1>1, <1>3, <1>7, <2>1, <2>2, <2>3, ReplicaStep
<1> QED
  BY Zenon, <1>6, <1>7

-----------------------------------------------------------------------------
\* Whatever is lost, comes twice or out of order, and whenever a replica restarts
\* with an empty storage, a delivered block has its parent delivered and the
\* block of its qc (consensus.h:110), and no delivery waits for a promise that
\* nothing resolves (async_deliver_blk, on_fetch_blk, on_deliver_blk).
THEOREM WaitingIsServed == ASSUME FetchAssumptions PROVE FetchSpec => []BlocksArrive
<1>1. FetchInit => FetchInv
  <2> SUFFICES ASSUME FetchInit
               PROVE  FetchInv
    OBVIOUS
  <2>1. rep = [r \in Nodes |-> Fresh] /\ net = {} /\ restarts = 0
    BY DEF FetchInit
  <2>2. \A r \in Nodes : rep[r] = Fresh
    BY <2>1
  <2>3. rep \in [Nodes -> RepState]
    BY Zenon, <2>1, FreshGood
  <2>4. \A r \in Nodes : Complete(rep[r]) /\ Served(rep[r], {}) /\ rep[r].out = {}
    BY Zenon, <2>2, FreshGood
  <2>5. OnlyHeard
    <3>1. \A b \in Heard : b = Genesis
      BY <2>2, FreshGood DEF Heard
    <3>2. \A r \in Nodes : rep[r].fetching = {} /\ \A b \in Made : rep[r].delivering[b] = "no"
      BY Zenon, <2>2, FreshGood
    <3> QED
      BY <2>1, <3>1, <3>2 DEF OnlyHeard
  <2> QED
    BY <2>1, <2>3, <2>4, <2>5 DEF FetchInv
<1>2. FetchInv /\ [FetchNext]_fetchVars => FetchInv'
  <2> SUFFICES ASSUME FetchInv, [FetchNext]_fetchVars
               PROVE  FetchInv'
    OBVIOUS
  <2>1. ASSUME NEW r \in Nodes, NEW b \in Made, Propose(r, b) \/ Verified(r, b) \/ Timeout(r, b)
        PROVE  FetchInv'
    BY Zenon, <2>1, ProposeKeeps, VerifiedKeeps, TimeoutKeeps
  <2>2. ASSUME NEW m \in net, Handle(m) \/ Lose(m)
        PROVE  FetchInv'
    BY Zenon, <2>2, RecvProposeKeeps, RecvVoteKeeps, RecvReqKeeps, RecvRespKeeps, LoseKeeps DEF Handle
  <2>3. ASSUME NEW r \in Nodes, Restart(r)
        PROVE  FetchInv'
    BY Zenon, <2>3, RestartKeeps
  <2>4. CASE UNCHANGED fetchVars
    <3>1. rep' = rep /\ net' = net /\ restarts' = restarts
      BY <2>4 DEF fetchVars
    <3>2. net' \in SUBSET Messages /\ (OnlyHeard => \A m \in net' : m.b \in Heard)
      BY Zenon, <3>1 DEF FetchInv, OnlyHeard
    <3> QED
      BY Zenon, <3>1, <3>2, NetStep
  <2> QED
    BY Zenon, <2>1, <2>2, <2>3, <2>4 DEF FetchNext
<1>3. FetchInv => BlocksArrive
  <2> SUFFICES ASSUME FetchInv
               PROVE  DeliveredClosed /\ WaitsAreServed
    BY DEF BlocksArrive
  <2>1. \A r \in Nodes : Complete(rep[r]) /\ Served(rep[r], {}) /\ rep[r] \in RepState
    BY Zenon DEF FetchInv
  <2>2. ASSUME NEW r \in Nodes, NEW b \in rep[r].delivered \ {Genesis}
        PROVE  b \in rep[r].fetched /\ QcRef[b] \in rep[r].fetched /\ Parent[b] \in rep[r].delivered
    <3>1. b \in Made
      BY <2>1 DEF RepState, Made
    <3> QED
      BY Zenon, <2>1, <3>1 DEF Complete
  <2>3. WaitsAreServed
    BY Zenon, <2>1 DEF WaitsAreServed, Complete, Served
  <2> QED
    BY Zenon, <2>2, <2>3 DEF DeliveredClosed
<1> QED
  BY <1>1, <1>2, <1>3, PTL DEF FetchSpec
=============================================================================
