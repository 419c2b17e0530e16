------------------------------ MODULE ConnPool -------------------------------
(***************************************************************************)
(* The life of the connections of a ConnPool: the dispatcher's thread      *)
(* (which is worker 1) accepts and connects, workers own the sockets, the  *)
(* user's thread is told.  The threads call each other through ThreadCall  *)
(* queues, here one sequence of calls per thread.                          *)
(***************************************************************************)
EXTENDS Naturals, Sequences, FiniteSets

CONSTANTS
  Conns, Fds,
  Workers,            \* worker threads; 1 is also the dispatcher
  EnableTls,
  MayTerminate,       \* who terminates connections: subset of {"user", "timer"}
  MaxStrikes          \* bound on the errors of one connection

VARIABLES
  conn,       \* conn -> its fields
  pool,       \* fd -> conn
  open,       \* the file descriptors the process has open
  nconn,      \* worker -> its count of connections
  q,          \* thread -> calls waiting, with User for the thread of the user
  listening, running,
  fatal       \* on_fatal_error was called
vars == <<conn, pool, open, nconn, q, listening, running, fatal>>

Dispatcher == 1
SizeMax == 2^16 - 1   \* stands for the greatest size_t
None == 0
User == 0      \* the thread of the user, which is no worker
Blank == [made |-> FALSE, active |-> FALSE, fd |-> None, worker |-> None, terminated |-> FALSE,
          evsock |-> "none",   \* ev_socket: none, handshake, idle or polling
          evconn |-> FALSE,    \* ev_connect waits
          failed |-> FALSE,    \* the attempt to connect has failed
          told |-> <<>>,       \* what conn_cb was called with
          crossed |-> FALSE,   \* it got a worker while a call that ends it without one waited
          strikes |-> 0]

Init ==
  /\ conn = [c \in Conns |-> Blank] /\ pool = [f \in {} |-> None] /\ open = {}
  /\ nconn = [w \in Workers |-> 0] /\ q = [t \in Workers \cup {User} |-> <<>>]
  /\ listening = TRUE /\ running = TRUE /\ fatal = FALSE

Call(t, f, c) == [q EXCEPT ![t] = Append(@, <<f, c>>)]
\* disp_terminate and worker_terminate, as the call they make.
Terminating(c) ==
  IF conn[c].worker # None THEN Call(conn[c].worker, "wterm", c) ELSE Call(Dispatcher, "dterm", c)

\* select_worker: the first with the fewest connections.
Selected == CHOOSE w \in Workers : \A v \in Workers : nconn[w] < nconn[v] \/ (nconn[w] = nconn[v] /\ w <= v)

\* An event of the dispatcher's loop; a burst of calls may end after any of them.
DispEvent == running /\ ~fatal

AcceptClient ==
  /\ DispEvent /\ listening
  /\ \E c \in Conns, f \in Fds \ open :
       /\ ~conn[c].made /\ open' = open \cup {f}
       /\ pool' = [g \in DOMAIN pool \cup {f} |-> IF g = f THEN c ELSE pool[g]]
       /\ conn' = [conn EXCEPT ![c] = [@ EXCEPT !.made = TRUE, !.fd = f, !.worker = Selected]]
       /\ q' = Call(Selected, "feed", c)
  /\ UNCHANGED <<nconn, listening, running, fatal>>

\* accept fails: the listener is taken out of the event loop.
AcceptFails == DispEvent /\ listening /\ listening' = FALSE
               /\ UNCHANGED <<conn, pool, open, nconn, q, running, fatal>>

\* _connect: the attempt fails at once, or ev_connect waits for its outcome.
Connect ==
  /\ DispEvent
  /\ \E c \in Conns, f \in Fds \ open, ok \in BOOLEAN :
       /\ ~conn[c].made /\ open' = open \cup {f}
       /\ pool' = [g \in DOMAIN pool \cup {f} |-> IF g = f THEN c ELSE pool[g]]
       /\ conn' = [conn EXCEPT ![c] = [@ EXCEPT !.made = TRUE, !.active = TRUE, !.fd = f, !.evconn = ok]]
       /\ q' = IF ok THEN q ELSE Call(Dispatcher, "dterm", c)
  /\ UNCHANGED <<nconn, listening, running, fatal>>

\* conn_server: connected, or failed or timed out; ev_connect is deleted only
\* when connected.
ConnServer(c) ==
  /\ DispEvent /\ conn[c].evconn
  /\ \/ /\ ~conn[c].failed
        /\ conn' = [conn EXCEPT ![c].evconn = FALSE, ![c].worker = Selected] /\ q' = Call(Selected, "feed", c)
     \/ /\ conn[c].strikes < MaxStrikes /\ conn' = [conn EXCEPT ![c].strikes = @ + 1, ![c].failed = TRUE]
        /\ q' = Terminating(c)
  /\ UNCHANGED <<pool, open, nconn, listening, running, fatal>>

\* A timer of the derived class gives an attempt up (start_active_conn).
TimerTerminate(c) ==
  /\ "timer" \in MayTerminate /\ DispEvent /\ conn[c].made /\ conn[c].active /\ ~conn[c].terminated
  /\ conn[c].strikes < MaxStrikes /\ conn' = [conn EXCEPT ![c].strikes = @ + 1]
  /\ q' = Terminating(c) /\ UNCHANGED <<pool, open, nconn, listening, running, fatal>>

\* The user's terminate.
UserTerminate(c) ==
  /\ "user" \in MayTerminate /\ running /\ conn[c].made
  /\ conn[c].strikes < MaxStrikes /\ conn' = [conn EXCEPT ![c].strikes = @ + 1]
  /\ q' = Call(Dispatcher, "term", c) /\ UNCHANGED <<pool, open, nconn, listening, running, fatal>>

\* The worker's socket callback finds an error or the end of the stream.
IoError(c) ==
  /\ running /\ conn[c].evsock \in {"handshake", "polling"}
  /\ conn[c].strikes < MaxStrikes /\ conn' = [conn EXCEPT ![c].strikes = @ + 1]
  /\ q' = Call(conn[c].worker, "wterm", c)
  /\ UNCHANGED <<pool, open, nconn, listening, running, fatal>>

\* do_handshake is complete: the socket rests until the user has been told.
Handshake(c) ==
  /\ running /\ conn[c].evsock = "handshake"
  /\ conn' = [conn EXCEPT ![c].evsock = "idle"] /\ q' = Call(Dispatcher, "setup", c)
  /\ UNCHANGED <<pool, open, nconn, listening, running, fatal>>

-----------------------------------------------------------------------------
\* Calls, run by thread t from the head of its queue.
Took(t, f, c) == running /\ ~fatal /\ q[t] # <<>> /\ Head(q[t]) = <<f, c>>
Rest(t) == [q EXCEPT ![t] = Tail(@)]
On(qs, t, f, c) == [qs EXCEPT ![t] = Append(@, <<f, c>>)]

\* on_worker_teardown, and its effect on the counts.
TornDown(c) ==
  [conn EXCEPT ![c] = [@ EXCEPT !.terminated = TRUE, !.evsock = "none"]]
\* nconn is a size_t and wraps around.
Unfed(c) == IF conn[c].worker = None THEN nconn
            ELSE [nconn EXCEPT ![conn[c].worker] = (@ + SizeMax) % (SizeMax + 1)]

\* feed: the worker takes the socket over.  A descriptor that is closed, or
\* that another connection has by now, cannot be polled: a fatal error.
Feed(t, c) ==
  /\ Took(t, "feed", c)
  /\ LET usable == conn[c].fd \in open /\ conn[c].fd \in DOMAIN pool /\ pool[conn[c].fd] = c IN
     IF ~usable THEN fatal' = TRUE /\ q' = Rest(t) /\ UNCHANGED <<conn, nconn>>
     ELSE /\ conn' = [conn EXCEPT ![c].evsock = IF EnableTls THEN "handshake" ELSE "idle"]
          /\ nconn' = [nconn EXCEPT ![t] = (@ + 1) % (SizeMax + 1)]
          /\ q' = (IF EnableTls THEN Rest(t) ELSE On(Rest(t), Dispatcher, "setup", c))
          /\ UNCHANGED fatal
  /\ UNCHANGED <<pool, open, listening, running>>

WorkerTerminate(t, c) ==
  /\ Took(t, "wterm", c)
  /\ IF conn[c].terminated THEN q' = Rest(t) /\ UNCHANGED <<conn, nconn>>
     ELSE conn' = TornDown(c) /\ nconn' = Unfed(c) /\ q' = On(Rest(t), Dispatcher, "del", c)
  /\ UNCHANGED <<pool, open, listening, running, fatal>>

\* del_conn and release_conn: out of the pool, the user is told, the socket closed.
Deleted(c, cs) ==
  /\ pool' = [f \in DOMAIN pool \ {conn[c].fd} |-> pool[f]]
  /\ open' = open \ {conn[c].fd}
  /\ conn' = [cs EXCEPT ![c].evconn = FALSE, ![c].evsock = "none"]

DelConn(c) ==
  /\ Took(Dispatcher, "del", c) /\ Deleted(c, conn)
  /\ q' = On(Rest(Dispatcher), User, "down", c)
  /\ UNCHANGED <<nconn, listening, running, fatal>>

\* The call of disp_terminate for a connection that had no worker.
DispTerminate(c) ==
  /\ Took(Dispatcher, "dterm", c)
  /\ IF conn[c].terminated THEN q' = Rest(Dispatcher) /\ UNCHANGED <<conn, nconn, pool, open>>
     ELSE /\ Deleted(c, [TornDown(c) EXCEPT ![c].crossed = conn[c].worker # None]) /\ nconn' = Unfed(c)
          /\ q' = On(Rest(Dispatcher), User, "down", c)
  /\ UNCHANGED <<listening, running, fatal>>

Terminate(c) ==
  /\ Took(Dispatcher, "term", c)
  /\ q' = (IF conn[c].worker # None THEN On(Rest(Dispatcher), conn[c].worker, "wterm", c)
           ELSE On(Rest(Dispatcher), Dispatcher, "dterm", c))
  /\ UNCHANGED <<conn, pool, open, nconn, listening, running, fatal>>

\* on_dispatcher_setup and update_conn(conn, true); when the former throws, the
\* connection is ended.
Setup(c) ==
  /\ Took(Dispatcher, "setup", c)
  /\ \/ q' = On(Rest(Dispatcher), User, "up", c) /\ UNCHANGED conn
     \/ /\ conn[c].strikes < MaxStrikes /\ conn' = [conn EXCEPT ![c].strikes = @ + 1]
        /\ q' = On(Rest(Dispatcher), conn[c].worker, "wterm", c)
  /\ UNCHANGED <<pool, open, nconn, listening, running, fatal>>

\* The user's thread runs conn_cb; its answer is heeded with TLS only.
ConnCallback(c) ==
  \/ /\ Took(User, "up", c) /\ conn' = [conn EXCEPT ![c].told = Append(@, "up")]
     /\ \E ret \in BOOLEAN : q' = On(Rest(User), conn[c].worker, IF ret \/ ~EnableTls THEN "enable" ELSE "refuse", c)
     /\ UNCHANGED <<pool, open, nconn, listening, running, fatal>>
  \/ /\ Took(User, "down", c) /\ conn' = [conn EXCEPT ![c].told = Append(@, "down")]
     /\ q' = Rest(User) /\ UNCHANGED <<pool, open, nconn, listening, running, fatal>>

\* The connection is polled without a look at terminated.
MutEnable(t, c) ==
  \/ /\ Took(t, "enable", c) /\ conn' = [conn EXCEPT ![c].evsock = "polling"] /\ q' = Rest(t)
     /\ UNCHANGED <<pool, open, nconn, listening, running, fatal>>
  \/ /\ Took(t, "refuse", c) /\ q' = (IF conn[c].terminated THEN Rest(t) ELSE On(Rest(t), t, "wterm", c))
     /\ UNCHANGED <<conn, pool, open, nconn, listening, running, fatal>>

Enable(t, c) ==
  \/ /\ Took(t, "enable", c)
     /\ conn' = (IF conn[c].terminated THEN conn ELSE [conn EXCEPT ![c].evsock = "polling"]) /\ q' = Rest(t)
     /\ UNCHANGED <<pool, open, nconn, listening, running, fatal>>
  \/ /\ Took(t, "refuse", c) /\ q' = (IF conn[c].terminated THEN Rest(t) ELSE On(Rest(t), t, "wterm", c))
     /\ UNCHANGED <<conn, pool, open, nconn, listening, running, fatal>>

\* stop_workers: the threads end, then what is in the pool is torn down.
StopWorkers ==
  LET live == {c \in Conns : \E f \in DOMAIN pool : pool[f] = c} IN
  /\ running /\ running' = FALSE /\ open' = open \ {conn[c].fd : c \in live}
  /\ conn' = [c \in Conns |-> IF c \in live THEN [conn[c] EXCEPT !.terminated = TRUE, !.evsock = "none", !.evconn = FALSE] ELSE conn[c]]
  /\ UNCHANGED <<pool, nconn, q, listening, fatal>>

Next ==
  \/ AcceptClient \/ AcceptFails \/ Connect \/ StopWorkers
  \/ \E c \in Conns :
       \/ ConnServer(c) \/ TimerTerminate(c) \/ UserTerminate(c) \/ IoError(c) \/ Handshake(c)
       \/ DelConn(c) \/ DispTerminate(c) \/ Terminate(c) \/ Setup(c) \/ ConnCallback(c)
       \/ \E t \in Workers : Feed(t, c) \/ WorkerTerminate(t, c) \/ Enable(t, c)
Spec == Init /\ [][Next]_vars

-----------------------------------------------------------------------------
\* The pool is what the process has open, and a connection is deleted when it
\* is in the pool: the asserts of add_conn and del_conn (conn.cpp:473-494).
PoolIsOpen ==
  running => /\ DOMAIN pool = open /\ \A f \in open : conn[pool[f]].fd = f
             /\ \A c \in Conns : Took(Dispatcher, "del", c) => conn[c].fd \in open /\ pool[conn[c].fd] = c

(***************************************************************************)
(* disp_terminate looks at the worker when it is called, and ends a        *)
(* connection without one in a later call of the dispatcher (conn.cpp:295- *)
(* 317).  If conn_server gives the connection a worker in between, it is   *)
(* deleted under that worker: crossed.  The next three properties say that *)
(* nothing else goes wrong, and nothing at all while no two have crossed.  *)
(***************************************************************************)
Crossed == \E c \in Conns : conn[c].crossed

\* A socket event exists only for a live connection whose descriptor is still
\* its own, and no worker is fed another one (conn.h:287-333, 218-233), save for
\* the connections that crossed.
EventsOfLive ==
  /\ fatal => Crossed
  /\ \A c \in Conns : conn[c].evsock # "none" /\ ~conn[c].crossed =>
       ~conn[c].terminated /\ conn[c].fd \in open /\ pool[conn[c].fd] = c

\* select_worker compares the numbers of connections the workers really have
\* (conn.h:331-336, 370-383), as long as no connection has crossed.
CountsAreFed ==
  running /\ ~Crossed =>
    \A w \in Workers : nconn[w] = Cardinality({c \in Conns : conn[c].worker = w /\ conn[c].evsock # "none"})

\* The user hears of a connection that it is up before it hears that it is
\* down, and each at most once (conn.h:211-236), but of one that crossed it may
\* hear that it is up after it was down.
ToldInOrder ==
  \A c \in Conns :
    conn[c].told \in {<<>>, <<"up">>, <<"down">>, <<"up", "down">>}
                      \cup IF conn[c].crossed THEN {<<"down", "up">>} ELSE {}

\* stop leaves no descriptor open (conn.h:558-579).
StopCloses == ~running => open = {}

\* The user has heard of the end of connection c (conn.cpp:282-319).
EndTold(c) == "down" \in {conn[c].told[i] : i \in DOMAIN conn[c].told}
=============================================================================
