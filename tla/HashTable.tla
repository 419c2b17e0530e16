------------------------------ MODULE HashTable ------------------------------
(***************************************************************************)
(* CTSL::HashMap: an array of buckets, each a singly linked list of nodes  *)
(* under a shared mutex of its own.  A thread walks a list one node at a   *)
(* time.  Nodes are cells of a heap that delete gives back.                *)
(***************************************************************************)
EXTENDS Naturals, FiniteSets

CONSTANTS
  Threads, Keys, Values, Buckets, Hash, NotFound,
  Null, Cells,   \* the pointers: null, and the cells there are
  MaxCalls       \* bound on the calls

VARIABLES
  head,     \* bucket -> its first node
  heap,     \* cell -> the node in it (key, val, next), or Free
  readers, writer,   \* bucket -> threads with the shared lock; the one with the exclusive lock
  call,     \* thread -> its call, as in KeyValueMap
  at, prev, \* thread -> the local variables node and prev
  holds,    \* thread -> whether it has its lock
  calls
vars == <<head, heap, readers, writer, call, at, prev, holds, calls>>

Free == [key |-> Null, val |-> Null, next |-> Null]
Node(k, v, n) == [key |-> k, val |-> v, next |-> n]

RECURSIVE Contents(_)
Contents(c) == IF c = Null THEN [k \in {} |-> NotFound]
               ELSE LET rest == Contents(heap[c].next)
                    IN [k \in DOMAIN rest \cup {heap[c].key} |->
                          IF k = heap[c].key THEN heap[c].val ELSE rest[k]]
\* What the lists hold, as one function.
Stored == LET all == [b \in Buckets |-> Contents(head[b])]
          IN [k \in UNION {DOMAIN all[b] : b \in Buckets} |-> all[Hash[k]][k]]

Abstract == INSTANCE KeyValueMap WITH map <- Stored

Init ==
  /\ head = [b \in Buckets |-> Null] /\ heap = [c \in Cells |-> Free]
  /\ readers = [b \in Buckets |-> {}] /\ writer = [b \in Buckets |-> Null]
  /\ call = [t \in Threads |-> Abstract!Idle]
  /\ at = [t \in Threads |-> Null] /\ prev = at
  /\ holds = [t \in Threads |-> FALSE] /\ calls = 0

\* The bucket a call is at: hashFn(key) % hashSize; clear visits them all.
BucketOf(t) == IF call[t].op = "clear" THEN call[t].key ELSE Hash[call[t].key]
Running(t) == call[t] # Abstract!Idle /\ call[t].state = "called"
Done(t, res) == [call EXCEPT ![t].state = "done", ![t].res = res]

Invoke(t) ==
  /\ calls < MaxCalls /\ calls' = calls + 1
  /\ UNCHANGED <<head, heap, readers, writer, at, prev, holds>>
  /\ Abstract!Invoke(t)

\* shared_lock for find, unique_lock for the others; node = head.
Lock(t) ==
  LET b == BucketOf(t) IN
  /\ Running(t) /\ ~holds[t] /\ writer[b] = Null
  /\ IF call[t].op = "find"
     THEN readers' = [readers EXCEPT ![b] = @ \cup {t}] /\ UNCHANGED writer
     ELSE readers[b] = {} /\ writer' = [writer EXCEPT ![b] = t] /\ UNCHANGED readers
  /\ holds' = [holds EXCEPT ![t] = TRUE]
  /\ at' = [at EXCEPT ![t] = head[b]] /\ prev' = [prev EXCEPT ![t] = Null]
  /\ UNCHANGED <<head, heap, call, calls>>

AtKey(t) == at[t] # Null /\ heap[at[t]].key = call[t].key

\* while (node != nullptr && node->getKey() != key)
Walk(t) ==
  /\ Running(t) /\ holds[t] /\ call[t].op # "clear" /\ at[t] # Null /\ ~AtKey(t)
  /\ prev' = [prev EXCEPT ![t] = at[t]] /\ at' = [at EXCEPT ![t] = heap[at[t]].next]
  /\ UNCHANGED <<head, heap, readers, writer, call, holds, calls>>

Ended(t) == Running(t) /\ holds[t] /\ (at[t] = Null \/ AtKey(t))

Find(t) ==
  /\ Ended(t) /\ call[t].op = "find"
  /\ call' = Done(t, IF at[t] = Null THEN NotFound ELSE heap[at[t]].val)
  /\ UNCHANGED <<head, heap, readers, writer, at, prev, holds, calls>>

\* A key that is there keeps its value.
MutInsert(t) ==
  LET b == BucketOf(t) IN
  /\ Ended(t) /\ call[t].op = "insert" /\ call' = Done(t, NotFound)
  /\ IF at[t] # Null THEN UNCHANGED <<head, heap>>
     ELSE \E c \in {x \in Cells : heap[x] = Free} :
            LET new == [heap EXCEPT ![c] = Node(call[t].key, call[t].val, Null)]
            IN IF head[b] = Null THEN head' = [head EXCEPT ![b] = c] /\ heap' = new
               ELSE heap' = [new EXCEPT ![prev[t]].next = c] /\ UNCHANGED head
  /\ UNCHANGED <<readers, writer, at, prev, holds, calls>>

Insert(t) ==
  LET b == BucketOf(t) IN
  /\ Ended(t) /\ call[t].op = "insert" /\ call' = Done(t, NotFound)
  /\ IF at[t] # Null
     THEN heap' = [heap EXCEPT ![at[t]].val = call[t].val] /\ UNCHANGED head
     ELSE \E c \in {x \in Cells : heap[x] = Free} :
            LET new == [heap EXCEPT ![c] = Node(call[t].key, call[t].val, Null)]
            IN IF head[b] = Null THEN head' = [head EXCEPT ![b] = c] /\ heap' = new
               ELSE heap' = [new EXCEPT ![prev[t]].next = c] /\ UNCHANGED head
  /\ UNCHANGED <<readers, writer, at, prev, holds, calls>>

Erase(t) ==
  LET b == BucketOf(t) n == at[t] IN
  /\ Ended(t) /\ call[t].op = "erase" /\ call' = Done(t, NotFound)
  /\ IF n = Null THEN UNCHANGED <<head, heap>>
     ELSE IF head[b] = n
     THEN head' = [head EXCEPT ![b] = heap[n].next] /\ heap' = [heap EXCEPT ![n] = Free]
     ELSE heap' = [heap EXCEPT ![prev[t]].next = heap[n].next, ![n] = Free] /\ UNCHANGED head
  /\ UNCHANGED <<readers, writer, at, prev, holds, calls>>

\* clear of one bucket deletes node by node, under the exclusive lock.
RECURSIVE Chain(_)
Chain(c) == IF c = Null THEN {} ELSE {c} \cup Chain(heap[c].next)
Clear(t) ==
  /\ Running(t) /\ holds[t] /\ call[t].op = "clear" /\ call' = Done(t, NotFound)
  /\ heap' = [c \in Cells |-> IF c \in Chain(head[BucketOf(t)]) THEN Free ELSE heap[c]]
  /\ head' = [head EXCEPT ![BucketOf(t)] = Null]
  /\ UNCHANGED <<readers, writer, at, prev, holds, calls>>

\* The lock goes with its scope.
Return(t) ==
  /\ holds[t] /\ UNCHANGED <<head, heap, calls>> /\ Abstract!Return(t)
  /\ holds' = [holds EXCEPT ![t] = FALSE]
  /\ readers' = [b \in Buckets |-> readers[b] \ {t}]
  /\ writer' = [b \in Buckets |-> IF writer[b] = t THEN Null ELSE writer[b]]
  /\ at' = [at EXCEPT ![t] = Null] /\ prev' = [prev EXCEPT ![t] = Null]

Next == \E t \in Threads : \/ Invoke(t) \/ Lock(t) \/ Walk(t) \/ Find(t) \/ Insert(t)
                           \/ Erase(t) \/ Clear(t) \/ Return(t)
Spec == Init /\ [][Next]_vars
-----------------------------------------------------------------------------
\* No thread looks at a node that another one has deleted (HashBucket.h:33-45,
\* 54-58, 84-107).
NoDeadNode == \A t \in Threads : Running(t) /\ holds[t] /\ at[t] # Null => heap[at[t]] # Free

\* Every node is in one list, at the bucket of its key: nothing is lost, and
\* nothing that was deleted is still linked (60-75, 94-107).
NodesInPlace ==
  \A c \in Cells : heap[c] # Free <=> \E b \in Buckets : c \in Chain(head[b]) /\ Hash[heap[c].key] = b

\* "Concurrent Thread Safe Library": calls of several threads behave as if each
\* took effect at once.
Linearizable == Abstract!Spec
=============================================================================
