------------------------------ MODULE FifoQueue ------------------------------
(***************************************************************************)
(* What salticidae's queues promise their users: a first-in first-out      *)
(* queue in which every producer's items keep their order, every item is   *)
(* given to one consumer, and a consumer may put back the last item it was *)
(* given (MPSCQueue::rewind).                                              *)
(***************************************************************************)
EXTENDS Naturals, Sequences

CONSTANTS Producers, Consumers, Load
VARIABLES
  queue,    \* the items in the queue
  out,      \* per consumer: the items it was given
  entered   \* the items that were enqueued
vars == <<queue, out, entered>>

Init == queue = <<>> /\ out = [c \in Consumers |-> <<>>] /\ entered = {}

Enqueue(p, n) ==
  /\ <<p, n>> \notin entered
  /\ n > 1 => <<p, n - 1>> \in entered
  /\ queue' = Append(queue, <<p, n>>)
  /\ entered' = entered \cup {<<p, n>>}
  /\ UNCHANGED out

Dequeue(c) ==
  /\ queue # <<>>
  /\ out' = [out EXCEPT ![c] = Append(@, Head(queue))]
  /\ queue' = Tail(queue)
  /\ UNCHANGED entered

Rewind(c) ==
  /\ out[c] # <<>>
  /\ queue' = <<out[c][Len(out[c])]>> \o queue
  /\ out' = [out EXCEPT ![c] = SubSeq(@, 1, Len(@) - 1)]
  /\ UNCHANGED entered

Next ==
  \/ \E p \in Producers : \E n \in 1 .. Load[p] : Enqueue(p, n)
  \/ \E c \in Consumers : Dequeue(c) \/ Rewind(c)

Spec == Init /\ [][Next]_vars
====
