---------------------------- MODULE ClientServer -----------------------------
(***************************************************************************)
(* A client and the replicas of its cluster: hotstuff_client.cpp and the   *)
(* part of hotstuff_app.cpp that takes commands and answers them.  Each    *)
(* replica has a thread for requests (req_ec), the main thread, and one    *)
(* for responses (resp_ec); they pass commands and answers on by queues.   *)
(* Consensus appears through its effect: a replica that was given a        *)
(* command executes it at some time, and calls its callback once.          *)
(***************************************************************************)
EXTENDS Integers, Sequences, FiniteSets

CONSTANTS
  Replicas, nfaulty,
  max_iter_num, max_async_num,
  reconfig_client,  \* TRUE: the client that asks for a reconfiguration
  MaxStops          \* bound on the replicas that are stopped

VARIABLES
  waiting,      \* command -> answers counted (confirmed)
  cnt, iter,    \* commands made; commands still to be made
  reconfig_done,
  requests,     \* replica -> commands on the connection to it
  cmd_pending,  \* replica -> commands handed to the main thread, not yet executed
  resp_queue,   \* replica -> answers handed to the response thread
  responses,    \* replica -> answers on the connection to the client
  stopping,     \* replica -> "no", "req" and "resp" (loops told to stop), "joined"
  answered,     \* command -> replicas whose answer the client has handled
  finished      \* commands the client has taken as done
clientVars == <<waiting, cnt, iter, reconfig_done, requests, cmd_pending, resp_queue, responses,
          stopping, answered, finished>>
server == <<cmd_pending, resp_queue, stopping>>

Cmds == 1..max_iter_num
\* Answers of all replicas but those that may be faulty are not enough.
MutNeeded == 2 * nfaulty + 1

Needed == IF reconfig_client THEN 2 * nfaulty ELSE nfaulty

(***************************************************************************)
(* The client.                                                             *)
(***************************************************************************)

\* How many commands while (try_send()) sends when w are waiting: try_send of the
\* reconfiguration client sends one in its life, and ends the loop.
Burst(w) ==
  IF reconfig_client THEN IF reconfig_done \/ iter = 0 \/ w >= max_async_num THEN 0 ELSE 1
  ELSE IF w >= max_async_num THEN 0
       ELSE IF iter < max_async_num - w THEN iter ELSE max_async_num - w

SendBurst(w) ==
  LET k == Burst(Cardinality(DOMAIN w))
      new == (cnt + 1)..(cnt + k)
  IN /\ cnt' = cnt + k /\ iter' = iter - k
     /\ reconfig_done' = (reconfig_done \/ (reconfig_client /\ k > 0))
     /\ waiting' = [c \in DOMAIN w \cup new |-> IF c \in new THEN 0 ELSE w[c]]
     /\ requests' = [r \in Replicas |->
                       IF stopping[r] = "no" THEN requests[r] \o [i \in 1..k |-> cnt + i] ELSE requests[r]]

ClientInit ==
  /\ waiting = [c \in {} |-> 0] /\ cnt = 0 /\ iter = max_iter_num /\ reconfig_done = FALSE
  /\ requests = [r \in Replicas |-> <<>>] /\ responses = requests /\ resp_queue = requests
  /\ cmd_pending = [r \in Replicas |-> {}]
  /\ stopping = [r \in Replicas |-> "no"]
  /\ answered = [c \in Cmds |-> {}] /\ finished = {}

\* main: the first burst, after connect_all.
Start ==
  /\ cnt = 0 /\ SendBurst(waiting)
  /\ UNCHANGED <<server, responses, answered, finished>>

\* client_resp_cmd_handler.
Respond(r) ==
  /\ responses[r] # <<>> /\ responses' = [responses EXCEPT ![r] = Tail(@)]
  /\ LET c == Head(responses[r])
         left == [d \in DOMAIN waiting \ {c} |-> waiting[d]]
     IN /\ answered' = [answered EXCEPT ![c] = @ \cup {r}]
        /\ IF c \notin DOMAIN waiting
           THEN UNCHANGED <<waiting, cnt, iter, reconfig_done, requests, finished>>
           ELSE IF waiting[c] + 1 <= Needed
           THEN /\ waiting' = [waiting EXCEPT ![c] = @ + 1]
                /\ UNCHANGED <<cnt, iter, reconfig_done, requests, finished>>
           ELSE finished' = finished \cup {c} /\ SendBurst(left)
  /\ UNCHANGED server

(***************************************************************************)
(* A replica.                                                              *)
(***************************************************************************)
\* client_request_cmd_handler, in the request thread.
Request(r) ==
  /\ stopping[r] = "no" /\ requests[r] # <<>>
  /\ requests' = [requests EXCEPT ![r] = Tail(@)]
  /\ cmd_pending' = [cmd_pending EXCEPT ![r] = @ \cup {Head(requests[r])}]
  /\ UNCHANGED <<waiting, cnt, iter, reconfig_done, resp_queue, responses, stopping, answered, finished>>

\* The callback is kept, and can be called again.
MutExecute(r, c) ==
  /\ stopping[r] \notin {"resp", "joined"} /\ c \in cmd_pending[r]
  /\ resp_queue' = [resp_queue EXCEPT ![r] = Append(@, c)]
  /\ UNCHANGED <<waiting, cnt, iter, reconfig_done, requests, cmd_pending, responses, stopping, answered, finished>>

\* The callback given to exec_command, in the main thread.
Execute(r, c) ==
  /\ stopping[r] \notin {"resp", "joined"} /\ c \in cmd_pending[r]
  /\ cmd_pending' = [cmd_pending EXCEPT ![r] = @ \ {c}]
  /\ resp_queue' = [resp_queue EXCEPT ![r] = Append(@, c)]
  /\ UNCHANGED <<waiting, cnt, iter, reconfig_done, requests, responses, stopping, answered, finished>>

\* The handler of resp_queue, in the response thread: all answers are sent.
SendResponses(r) ==
  /\ stopping[r] \in {"no", "req"} /\ resp_queue[r] # <<>>
  /\ responses' = [responses EXCEPT ![r] = @ \o resp_queue[r]]
  /\ resp_queue' = [resp_queue EXCEPT ![r] = <<>>]
  /\ UNCHANGED <<waiting, cnt, iter, reconfig_done, requests, cmd_pending, stopping, answered, finished>>

\* stop(): the loops of the two threads end when they come to the closure, the
\* main thread waits for them.  The connections go down with the process.
Stop(r) ==
  /\ \/ /\ stopping[r] = "no" /\ stopping' = [stopping EXCEPT ![r] = "req"]
        /\ Cardinality({q \in Replicas : stopping[q] # "no"}) < MaxStops
        /\ UNCHANGED <<requests, responses>>
     \/ /\ stopping[r] = "req" /\ stopping' = [stopping EXCEPT ![r] = "resp"]
        /\ UNCHANGED <<requests, responses>>
     \/ /\ stopping[r] = "resp" /\ stopping' = [stopping EXCEPT ![r] = "joined"]
        /\ requests' = [requests EXCEPT ![r] = <<>>]
        /\ \E k \in 0..Len(responses[r]) : responses' = [responses EXCEPT ![r] = SubSeq(@, 1, k)]
  /\ UNCHANGED <<waiting, cnt, iter, reconfig_done, cmd_pending, resp_queue, answered, finished>>

Serve(r) == Request(r) \/ SendResponses(r) \/ \E c \in Cmds : Execute(r, c)
ClientNext == Start \/ \E r \in Replicas : Respond(r) \/ Serve(r) \/ Stop(r)

ClientSpec == ClientInit /\ [][ClientNext]_clientVars
-----------------------------------------------------------------------------
\* A command is taken as done after answers of more replicas than may be faulty,
\* although answers are counted and not the replicas they come from
\* (hotstuff_client.cpp:355-363).
DoneByEnough ==
  \A c \in finished : Cardinality(answered[c]) > (IF reconfig_client THEN 2 * nfaulty ELSE nfaulty)

\* The client never has more commands waiting than it may, and while it has
\* commands to make it keeps as many waiting (266, 394-395).
Window ==
  /\ Cardinality(DOMAIN waiting) <= max_async_num
  /\ cnt > 0 /\ iter > 0 /\ ~reconfig_client => Cardinality(DOMAIN waiting) = max_async_num

\* Every command is answered: the client has come to the end of its run.
AllDone == finished = 1..(IF reconfig_client THEN 1 ELSE max_iter_num)
-----------------------------------------------------------------------------
\* What the proofs assume of the constants.
ClientAssumptions ==
  {nfaulty, max_iter_num, max_async_num} \subseteq Nat /\ reconfig_client \in BOOLEAN

(***************************************************************************)
(* What keeps the count right: at each replica a command is in one place   *)
(* at a time, and once, on its way from the client's request to the answer *)
(* the client has handled.                                                 *)
(***************************************************************************)
Elems(s) == {s[i] : i \in DOMAIN s}
NoTwice(s) == \A i, j \in DOMAIN s : s[i] = s[j] => i = j

ClientTypeOK ==
  /\ cnt \in Nat /\ iter \in Nat /\ cnt + iter = max_iter_num
  /\ waiting = [c \in DOMAIN waiting |-> waiting[c]] /\ DOMAIN waiting \subseteq 1..cnt
  /\ requests \in [Replicas -> Seq(Cmds)] /\ responses \in [Replicas -> Seq(Cmds)]
  /\ resp_queue \in [Replicas -> Seq(Cmds)] /\ cmd_pending \in [Replicas -> SUBSET Cmds]
  /\ answered \in [Cmds -> SUBSET Replicas] /\ finished \subseteq Cmds

\* What there is at a replica of n commands made: the sequences q, e and s of the
\* commands requested, executed and answered, the set p of those pending, and the
\* set A of those whose answer the client has handled.
Once(n, q, p, e, s, A) ==
  /\ NoTwice(q) /\ NoTwice(e) /\ NoTwice(s)
  /\ Elems(q) \cap p = {} /\ Elems(q) \cap Elems(e) = {} /\ Elems(q) \cap Elems(s) = {} /\ Elems(q) \cap A = {}
  /\ p \cap Elems(e) = {} /\ p \cap Elems(s) = {} /\ p \cap A = {}
  /\ Elems(e) \cap Elems(s) = {} /\ Elems(e) \cap A = {} /\ Elems(s) \cap A = {}
  /\ Elems(q) \cup p \cup Elems(e) \cup Elems(s) \cup A \subseteq 1..n
Handled(a, r) == {c \in Cmds : r \in a[c]}
OnePlace ==
  \A r \in Replicas :
    Once(cnt, requests[r], cmd_pending[r], resp_queue[r], responses[r], Handled(answered, r))

Counted ==
  /\ \A c \in Cmds : IsFiniteSet(answered[c])
  /\ \A c \in DOMAIN waiting : waiting[c] = Cardinality(answered[c])

ClientInv == ClientTypeOK /\ OnePlace /\ Counted /\ DoneByEnough /\ Window
=============================================================================
