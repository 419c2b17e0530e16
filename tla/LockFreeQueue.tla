---------------------------- MODULE LockFreeQueue ----------------------------
(***************************************************************************)
(* The block queue of salticidae/queue.h: MPMCQueue (producers and, with   *)
(* Multi, several consumers), its single-consumer subclass MPSCQueue with  *)
(* rewind, and the lock-free FreeList that recycles the blocks.  Every     *)
(* step is one access to shared memory; memory is sequentially consistent. *)
(* A load of refcnt and the compare_exchange that raises it are one step   *)
(* (a failed exchange only loads again), and so are accesses no other      *)
(* thread can tell apart: FreeList stores next only in a node whose refcnt *)
(* is 0, and the single consumer is alone with head and h->head.           *)
(* An item is <<producer, number>>.                                        *)
(***************************************************************************)
EXTENDS Naturals, Sequences, FiniteSets

CONSTANTS
  Producers, Consumers,
  Multi,       \* TRUE: MPMCQueue; FALSE: MPSCQueue, with one consumer
  QSize,       \* MPMCQ_SIZE
  Unbounded,   \* the flag given to enqueue
  Spare,       \* how many blocks set_capacity pushed on the free list
  MaxBlocks,   \* bound on the blocks ever allocated
  Load,        \* bound: how many items each producer enqueues
  MaxRewind,   \* bound on the calls of rewind
  Null

Users == Producers \cup Consumers
Blocks == 1 .. MaxBlocks
Slots == 0 .. QSize - 1
Items == UNION {{p} \X (1 .. Load[p]) : p \in Producers}

VARIABLES
  blk,      \* the fields of every block
  top,      \* FreeList::top
  head, tail,
  nalloc,   \* how many blocks were allocated
  th,       \* per thread: where it is and its local variables
  sent,     \* per producer: how many items it has started to enqueue
  got,      \* per consumer: the items it has been given, in order
  rewound,  \* the number of calls of rewind
  claims    \* history: block -> slot -> the item whose enqueue claimed it
vars == <<blk, top, head, tail, nalloc, th, sent, got, rewound, claims>>

\* What `new Block()' leaves in a block.
NewBlock ==
  [refcnt |-> 1, freed |-> FALSE, fnext |-> Null, head |-> 0, tail |-> 0,
   next |-> Null, elem |-> [i \in Slots |-> Null], avail |-> [i \in Slots |-> FALSE]]

Idle == [pc |-> "idle", cur |-> Null, at |-> 0, new |-> Null, node |-> Null,
         seen |-> Null, ret |-> "idle", item |-> Null]

\* MPMCQueue() and then set_capacity: block 1 is head and tail, and blocks
\* 2 .. Spare + 1 were pushed on the free list.
Init ==
  /\ blk = [b \in Blocks |->
             IF b \in 2 .. Spare + 1
             THEN [NewBlock EXCEPT !.freed = TRUE, !.fnext = IF b = 2 THEN Null ELSE b - 1]
             ELSE NewBlock]
  /\ top = IF Spare = 0 THEN Null ELSE Spare + 1
  /\ head = 1 /\ tail = 1 /\ nalloc = Spare + 1
  /\ th = [t \in Users |-> Idle]
  /\ sent = [p \in Producers |-> 0]
  /\ got = [c \in Consumers |-> <<>>] /\ rewound = 0
  /\ claims = [b \in Blocks |-> [i \in Slots |-> Null]]

At(t, label) == th[t].pc = label

\* Go on at label; local variables that are dead there are forgotten.
Goto(t, label) ==
  th' = [th EXCEPT ![t] =
           CASE label = "idle" -> Idle
             [] label = "enq" -> [Idle EXCEPT !.pc = label, !.item = th[t].item]
             [] label \in {"pop", "init", "unhold"} ->
                  [@ EXCEPT !.pc = label, !.node = Null, !.seen = Null, !.ret = "idle"]
             [] OTHER -> [@ EXCEPT !.pc = label]]

\* Call release_ref(b) and go on at label.
Release(t, b, label) ==
  th' = [th EXCEPT ![t].pc = "release", ![t].node = b, ![t].ret = label]

-----------------------------------------------------------------------------
(* FreeList                                                                *)

Decrement(t) ==
  /\ At(t, "release")
  /\ LET n == th[t].node IN
       /\ blk' = [blk EXCEPT ![n].refcnt = @ - 1]
       /\ Goto(t, IF blk[n].refcnt = 1 THEN "repair" ELSE th[t].ret)
  /\ UNCHANGED <<top, head, tail, nalloc, sent, got, claims, rewound>>

\* Read top and store it in the node nobody holds.
Repair(t) ==
  /\ At(t, "repair")
  /\ blk' = [blk EXCEPT ![th[t].node].fnext = top]
  /\ th' = [th EXCEPT ![t].pc = "put", ![t].seen = top]
  /\ UNCHANGED <<top, head, tail, nalloc, sent, got, claims, rewound>>

PutTop(t) ==
  /\ At(t, "put")
  /\ IF top = th[t].seen
     THEN top' = th[t].node /\ Goto(t, "revive")
     ELSE top' = top /\ Goto(t, "repair")
  /\ UNCHANGED <<blk, head, tail, nalloc, sent, got, claims, rewound>>

Revive(t) ==
  /\ At(t, "revive")
  /\ blk' = [blk EXCEPT ![th[t].node].refcnt = 1]
  /\ Goto(t, th[t].ret)
  /\ UNCHANGED <<top, head, tail, nalloc, sent, got, claims, rewound>>

\* push: set freed, then release_ref; the caller goes on at label.
Push(t, b, label) ==
  /\ blk' = [blk EXCEPT ![b].freed = TRUE]
  /\ Release(t, b, label)

PopTop(t) ==
  /\ At(t, "pop")
  /\ th' = [th EXCEPT ![t].pc = IF top = Null THEN "nopop" ELSE "hold", ![t].node = top]
  /\ UNCHANGED <<blk, top, head, tail, nalloc, sent, got, claims, rewound>>

PopHold(t) ==
  /\ At(t, "hold")
  /\ LET n == th[t].node IN
       IF blk[n].refcnt = 0
       THEN blk' = blk /\ Goto(t, "pop")
       ELSE blk' = [blk EXCEPT ![n].refcnt = @ + 1] /\ Goto(t, "peek")
  /\ UNCHANGED <<top, head, tail, nalloc, sent, got, claims, rewound>>

PopPeek(t) ==
  /\ At(t, "peek")
  /\ th' = [th EXCEPT ![t].pc = "take_top", ![t].seen = blk[th[t].node].fnext]
  /\ UNCHANGED <<blk, top, head, tail, nalloc, sent, got, claims, rewound>>

PopTake(t) ==
  /\ At(t, "take_top")
  /\ IF top = th[t].node
     THEN /\ top' = th[t].seen
          /\ th' = [th EXCEPT ![t].pc = "release", ![t].ret = "init", ![t].new = th[t].node]
     ELSE top' = top /\ Release(t, th[t].node, "pop")
  /\ UNCHANGED <<blk, head, tail, nalloc, sent, got, claims, rewound>>

FreeListStep(t) ==
  Decrement(t) \/ Repair(t) \/ PutTop(t) \/ Revive(t)
  \/ PopTop(t) \/ PopHold(t) \/ PopPeek(t) \/ PopTake(t)

-----------------------------------------------------------------------------
(* enqueue                                                                 *)

\* A call of enqueue, or its next round, reads tail.
EnqTail(p) ==
  /\ \/ At(p, "enq") /\ UNCHANGED sent
     \/ At(p, "idle") /\ sent[p] < Load[p] /\ sent' = [sent EXCEPT ![p] = @ + 1]
  /\ th' = [th EXCEPT ![p].pc = "hold_t", ![p].cur = tail, ![p].item = <<p, sent'[p]>>]
  /\ UNCHANGED <<blk, top, head, tail, nalloc, got, claims, rewound>>

\* Raise refcnt of the block read; a block with refcnt 0 is read again.
HoldBlock(t, from, retry, held) ==
  /\ At(t, from)
  /\ LET b == th[t].cur IN
       IF blk[b].refcnt = 0
       THEN blk' = blk /\ Goto(t, retry)
       ELSE blk' = [blk EXCEPT ![b].refcnt = @ + 1] /\ Goto(t, held)
  /\ UNCHANGED <<top, head, tail, nalloc, sent, got, claims, rewound>>

EnqFreed(p) ==
  /\ At(p, "live")
  /\ IF blk[th[p].cur].freed THEN Release(p, th[p].cur, "enq") ELSE Goto(p, "room")
  /\ UNCHANGED <<blk, top, head, tail, nalloc, sent, got, claims, rewound>>

EnqRoom(p) ==
  /\ At(p, "room")
  /\ LET tt == blk[th[p].cur].tail IN
       th' = [th EXCEPT ![p].pc = IF tt >= QSize THEN "full" ELSE "claim", ![p].at = tt]
  /\ UNCHANGED <<blk, top, head, tail, nalloc, sent, got, claims, rewound>>

EnqFull(p) ==
  /\ At(p, "full")
  /\ IF blk[th[p].cur].next = Null THEN Goto(p, "pop") ELSE Release(p, th[p].cur, "enq")
  /\ UNCHANGED <<blk, top, head, tail, nalloc, sent, got, claims, rewound>>

\* The free list is empty: enqueue allocates if unbounded; if not it fails, and
\* its caller calls it again.
\* rewind, the consumer's caller of pop, always allocates.
NoPop(t) ==
  /\ At(t, "nopop")
  /\ IF t \in Consumers \/ Unbounded
     THEN /\ nalloc < MaxBlocks
          /\ nalloc' = nalloc + 1
          /\ th' = [th EXCEPT ![t].pc = "init", ![t].new = nalloc + 1]
     ELSE nalloc' = nalloc /\ Release(t, th[t].cur, "enq")
  /\ UNCHANGED <<blk, top, head, tail, sent, got, claims, rewound>>

InitHead(p) ==
  /\ At(p, "init") /\ p \in Producers
  /\ blk' = [blk EXCEPT ![th[p].new].head = 0]
  /\ Goto(p, "init_tail")
  /\ UNCHANGED <<top, head, tail, nalloc, sent, got, claims, rewound>>

InitTail(p) ==
  /\ At(p, "init_tail")
  /\ blk' = [blk EXCEPT ![th[p].new].tail = 0]
  /\ Goto(p, "init_next")
  /\ UNCHANGED <<top, head, tail, nalloc, sent, got, claims, rewound>>

InitNext(p) ==
  /\ At(p, "init_next")
  /\ blk' = [blk EXCEPT ![th[p].new].next = Null]
  /\ Goto(p, "link")
  /\ UNCHANGED <<top, head, tail, nalloc, sent, got, claims, rewound>>

\* Give back the block held after something else was pushed or published.
Unhold(t, label) ==
  /\ At(t, "unhold")
  /\ Release(t, th[t].cur, label)
  /\ UNCHANGED <<blk, top, head, tail, nalloc, sent, got, claims, rewound>>

EnqLink(p) ==
  /\ At(p, "link")
  /\ LET t == th[p].cur IN
       IF blk[t].next = Null
       THEN blk' = [blk EXCEPT ![t].next = th[p].new] /\ Goto(p, "publish")
       ELSE Push(p, th[p].new, "unhold")
  /\ UNCHANGED <<top, head, tail, nalloc, sent, got, claims, rewound>>

EnqPublish(p) ==
  /\ At(p, "publish")
  /\ tail' = th[p].new
  /\ Goto(p, "unfree")
  /\ UNCHANGED <<blk, top, head, nalloc, sent, got, claims, rewound>>

EnqUnfree(p) ==
  /\ At(p, "unfree")
  /\ blk' = [blk EXCEPT ![th[p].new].freed = FALSE]
  /\ Goto(p, "unhold")
  /\ UNCHANGED <<top, head, tail, nalloc, sent, got, claims, rewound>>

EnqClaim(p) ==
  /\ At(p, "claim")
  /\ LET b == th[p].cur
         tt == th[p].at IN
       IF blk[b].tail = tt
       THEN /\ blk' = [blk EXCEPT ![b].tail = tt + 1]
            /\ claims' = [claims EXCEPT ![b][tt] = th[p].item]
            /\ Goto(p, "write")
       ELSE UNCHANGED <<blk, claims>> /\ Release(p, b, "enq")
  /\ UNCHANGED <<top, head, tail, nalloc, sent, got, rewound>>

\* The element and then avail, without which no consumer reads it.
EnqWrite(p) ==
  /\ At(p, "write")
  /\ blk' = [blk EXCEPT ![th[p].cur].elem[th[p].at] = th[p].item,
                        ![th[p].cur].avail[th[p].at] = TRUE]
  /\ Release(p, th[p].cur, "idle")
  /\ UNCHANGED <<top, head, tail, nalloc, sent, got, claims, rewound>>

EnqStep(p) ==
  \/ EnqTail(p) \/ HoldBlock(p, "hold_t", "enq", "live")
  \/ EnqFreed(p) \/ EnqRoom(p) \/ EnqFull(p) \/ NoPop(p)
  \/ InitHead(p) \/ InitTail(p) \/ InitNext(p) \/ EnqLink(p) \/ EnqPublish(p)
  \/ EnqUnfree(p) \/ Unhold(p, "enq") \/ EnqClaim(p) \/ EnqWrite(p)

-----------------------------------------------------------------------------
(* try_dequeue                                                             *)

DeqHead(c) ==
  /\ At(c, "idle")
  /\ th' = [th EXCEPT ![c].pc = IF Multi THEN "hold_h" ELSE "look", ![c].cur = head,
                      ![c].at = IF Multi THEN @ ELSE blk[head].head]
  /\ UNCHANGED <<blk, top, head, tail, nalloc, sent, got, claims, rewound>>

DeqIndex(c) ==
  /\ At(c, "index")
  /\ th' = [th EXCEPT ![c].pc = "look", ![c].at = blk[th[c].cur].head]
  /\ UNCHANGED <<blk, top, head, tail, nalloc, sent, got, claims, rewound>>

\* try_dequeue returns, having found nothing or being about to look again;
\* MPMCQueue gives the block it holds back first.
Leave(c, label) == IF Multi THEN Release(c, th[c].cur, label) ELSE Goto(c, label)

\* An off-by-one: the last slot of a block is taken for its end.
MutDeqLook(c) ==
  /\ At(c, "look")
  /\ LET b == th[c].cur
         hh == th[c].at
         tt == blk[b].tail IN
       IF hh >= tt
       THEN blk' = blk /\ IF tt < QSize - 1 THEN Leave(c, "idle") ELSE Goto(c, "next")
       ELSE blk' = [blk EXCEPT ![b].head = hh + 1] /\ Goto(c, "wait")
  /\ UNCHANGED <<top, head, tail, nalloc, sent, got, claims, rewound>>

DeqLook(c) ==
  /\ At(c, "look")
  /\ LET b == th[c].cur
         hh == th[c].at
         tt == blk[b].tail IN
       IF hh >= tt
       THEN blk' = blk /\ IF tt < QSize THEN Leave(c, "idle") ELSE Goto(c, "next")
       ELSE IF Multi
            THEN blk' = blk /\ Goto(c, "claim_h")
            ELSE blk' = [blk EXCEPT ![b].head = hh + 1] /\ Goto(c, "wait")
  /\ UNCHANGED <<top, head, tail, nalloc, sent, got, claims, rewound>>

DeqNext(c) ==
  /\ At(c, "next")
  /\ LET n == blk[th[c].cur].next IN
       IF n = Null THEN Leave(c, "idle")
       ELSE th' = [th EXCEPT ![c].pc = "advance", ![c].new = n]
  /\ UNCHANGED <<blk, top, head, tail, nalloc, sent, got, claims, rewound>>

DeqAdvance(c) ==
  /\ At(c, "advance")
  /\ IF head = th[c].cur
     THEN head' = th[c].new /\ Goto(c, "retire")
     ELSE head' = head /\ Release(c, th[c].cur, "idle")
  /\ UNCHANGED <<blk, top, tail, nalloc, sent, got, claims, rewound>>

DeqRetire(c) ==
  /\ At(c, "retire")
  /\ Push(c, th[c].cur, IF Multi THEN "unhold" ELSE "idle")
  /\ UNCHANGED <<top, head, tail, nalloc, sent, got, claims, rewound>>

DeqClaim(c) ==
  /\ At(c, "claim_h")
  /\ LET b == th[c].cur
         hh == th[c].at IN
       IF blk[b].head = hh
       THEN blk' = [blk EXCEPT ![b].head = hh + 1] /\ Goto(c, "wait")
       ELSE blk' = blk /\ Release(c, b, "idle")
  /\ UNCHANGED <<top, head, tail, nalloc, sent, got, claims, rewound>>

\* Spin until the producer of the slot has set avail, then take the element.
DeqTake(c) ==
  /\ At(c, "wait") /\ blk[th[c].cur].avail[th[c].at]
  /\ LET b == th[c].cur
         hh == th[c].at IN
       /\ got' = [got EXCEPT ![c] = Append(@, blk[b].elem[hh])]
       /\ blk' = [blk EXCEPT ![b].avail[hh] = FALSE, ![b].elem[hh] = Null]
       /\ claims' = [claims EXCEPT ![b][hh] = Null]
       /\ Leave(c, "idle")
  /\ UNCHANGED <<top, head, tail, nalloc, sent, rewound>>

\* rewind(e): the consumer of an MPSCQueue puts the last item back in front.
\* With no room before the head index it first prepends a block.
RewindStart(c) ==
  /\ ~Multi /\ At(c, "idle") /\ rewound < MaxRewind /\ got[c] # <<>>
  /\ rewound' = rewound + 1
  /\ th' = [th EXCEPT ![c].pc = IF blk[head].head = 0 THEN "pop" ELSE "put_back",
                      ![c].item = got[c][Len(got[c])]]
  /\ UNCHANGED <<blk, top, head, tail, nalloc, sent, got, claims>>

RewindBlock(c) ==
  /\ At(c, "init") /\ c \in Consumers
  /\ blk' = [blk EXCEPT ![th[c].new].head = QSize, ![th[c].new].tail = QSize,
                        ![th[c].new].next = head]
  /\ head' = th[c].new
  /\ Goto(c, "put_back")
  /\ UNCHANGED <<top, tail, nalloc, sent, got, claims, rewound>>

RewindPut(c) ==
  /\ At(c, "put_back")
  /\ LET hh == blk[head].head - 1 IN
       /\ blk' = [blk EXCEPT ![head].elem[hh] = th[c].item, ![head].avail[hh] = TRUE,
                             ![head].head = hh]
       /\ claims' = [claims EXCEPT ![head][hh] = th[c].item]
  /\ got' = [got EXCEPT ![c] = SubSeq(@, 1, Len(@) - 1)]
  /\ Goto(c, "idle")
  /\ UNCHANGED <<top, head, tail, nalloc, sent, rewound>>

DeqStep(c) ==
  \/ DeqHead(c) \/ HoldBlock(c, "hold_h", "idle", "index") \/ DeqIndex(c) \/ DeqLook(c)
  \/ DeqNext(c) \/ DeqAdvance(c) \/ DeqRetire(c) \/ Unhold(c, "idle") \/ DeqClaim(c)
  \/ DeqTake(c)

RewindStep(c) == RewindStart(c) \/ RewindBlock(c) \/ RewindPut(c)

\* The program that uses the queue stops when everything was taken; a consumer
\* of an empty queue only looks again.
Next ==
  \/ \E t \in Users : FreeListStep(t)
  \/ \E p \in Producers : EnqStep(p)
  \/ \E c \in Consumers : DeqStep(c) \/ NoPop(c) \/ RewindStep(c)

Spec == Init /\ [][Next]_vars

-----------------------------------------------------------------------------
(* The queue as its users see it                                           *)

\* The items claimed in block b and not yet claimed by a consumer.
Claimed(b) ==
  [i \in 1 .. (IF blk[b].tail > blk[b].head THEN blk[b].tail - blk[b].head ELSE 0) |->
     claims[b][blk[b].head + i - 1]]

\* The queue: what the chain of blocks from head holds.
Contents ==
  LET from[n \in 0 .. MaxBlocks, b \in Blocks \cup {Null}] ==
        IF n = 0 \/ b = Null THEN <<>> ELSE Claimed(b) \o from[n - 1, blk[b].next]
  IN  from[MaxBlocks, head]

\* What a consumer was given, with the item it has claimed and still waits for.
Received ==
  [c \in Consumers |->
     IF At(c, "wait") THEN Append(got[c], claims[th[c].cur][th[c].at])
     ELSE got[c]]

Releasing(t) == th[t].pc \in {"release", "repair", "put", "revive"}

Entered ==
  {i \in Items :
     \/ i[2] < sent[i[1]]
     \/ /\ i[2] = sent[i[1]]
        /\ \/ th[i[1]].pc \in {"idle", "write"}
           \/ Releasing(i[1]) /\ th[i[1]].ret = "idle"}

Fifo == INSTANCE FifoQueue WITH queue <- Contents, out <- Received, entered <- Entered

(* The lock-free queue implements a first-in first-out queue with rewind:  *)
(* each enqueue takes effect at the compare_exchange on tail, each dequeue *)
(* when the head index moves, whatever blocks are recycled meanwhile.      *)
ImplementsFifo == Fifo!Spec

(* try_dequeue finds nothing only when nothing is queued: at the load that *)
(* decides (of tail, or of next) no item is claimed and not yet taken.     *)
EmptyOnlyIfEmpty ==
  [][\A c \in Consumers :
       At(c, "look") \/ At(c, "next") =>
         (th[c].pc' \in {"idle", "release"} => Contents = <<>>)]_vars

(* A block is never in two places: on the free list, or in the chain from  *)
(* head to tail, or with the thread that is about to link it.              *)
OnFreeList ==
  LET from[n \in 0 .. MaxBlocks, b \in Blocks \cup {Null}] ==
        IF n = 0 \/ b = Null THEN {} ELSE {b} \cup from[n - 1, blk[b].fnext]
  IN  from[MaxBlocks, top]
InChain ==
  LET from[n \in 0 .. MaxBlocks, b \in Blocks \cup {Null}] ==
        IF n = 0 \/ b = Null THEN {} ELSE {b} \cup from[n - 1, blk[b].next]
  IN  from[MaxBlocks, head]
InHand(t) == th[t].pc \in {"init", "init_tail", "init_next", "link"}
BlocksDisjoint ==
  /\ OnFreeList \cap InChain = {}
  /\ \A t \in Users : InHand(t) =>
       /\ th[t].new \notin OnFreeList \cup InChain
       /\ \A u \in Users \ {t} : InHand(u) => th[t].new # th[u].new

(* Nothing is lost or doubled: an item that was enqueued is in one place,  *)
(* queued, delivered, or claimed by a consumer that waits for it.          *)
Places(i) ==
  Cardinality({k \in DOMAIN Contents : Contents[k] = i})
  + Cardinality({<<c, k>> \in Consumers \X (1 .. Cardinality(Items)) :
                   k \in DOMAIN got[c] /\ got[c][k] = i})
  + Cardinality({c \in Consumers : At(c, "wait")
                                   /\ claims[th[c].cur][th[c].at] = i})
EachInOnePlace == \A i \in Items : Places(i) = IF i \in Entered THEN 1 ELSE 0

\* Every item is delivered.
AllDelivered == \A i \in Items : \E c \in Consumers : \E k \in DOMAIN got[c] : got[c][k] = i
====
