------------------------------- MODULE PeerNet -------------------------------
(***************************************************************************)
(* PeerNetwork between two nodes: either side opens TCP connections, the   *)
(* handshake of a ping and a pong with nonces chooses one of them, broken  *)
(* ones are replaced by a retry timer.  A step is a callback of one node's *)
(* dispatcher, or of the worker that owns a connection; a message is in    *)
(* its channel until the dispatcher runs its handler.                      *)
(***************************************************************************)
EXTENDS Naturals, Integers, Sequences, FiniteSets

CONSTANTS
  Nodes,
  MaxActive,      \* node -> bound on the connections it opens
  Nonces,         \* node -> the nonces it may draw, up to Passive + 1
  CalmCalls,      \* the user calls conn_peer again only when no handshake goes on
  NTry,           \* the ntry of conn_peer, -1 for ever
  MaxLate,        \* bound on the handshakes that take longer than the retry timer
  MaxBreaks, MaxCrashes, MaxConnPeer, MaxDelPeer  \* bounds on faults and calls

VARIABLES
  peer,       \* node -> its Peer of the other node
  end,        \* connection -> node -> the node's Conn
  chan,       \* connection -> node -> handshake messages on their way to it
  replay,     \* node -> pings to be handled again, through the user's thread
  assertion,  \* the assertion that failed and ended the node, or "none"
  faults      \* how many of each kind there have been
vars == <<peer, end, chan, replay, assertion, faults>>

Conns == UNION {{n} \X (1 .. MaxActive[n]) : n \in Nodes}
Active(c) == c[1]           \* the end in mode ACTIVE
NoConn == <<>>
Unset == 0                  \* a nonce not drawn yet
Passive == 9                \* passive_nonce
Other(n) == CHOOSE m \in Nodes : m # n

\* st: none, connecting, fed (a worker has it), up (set up by the dispatcher),
\* terminated, gone (torn down and closed).  ask: disp_terminate was called.
NoEnd == [st |-> "none", ask |-> FALSE, peer |-> FALSE]
\* A Peer after add_peer, set_peer_addr and conn_peer.
NewPeer == [known |-> TRUE, state |-> "DISCONNECTED", nonce |-> Unset, conn |-> NoConn, inb |-> NoConn,
            outb |-> NoConn, preempt |-> Unset, retry |-> NTry # 0, left |-> NTry,
            wait |-> {}]   \* what went on when the retry timer was armed

Init ==
  /\ peer = [n \in Nodes |-> NewPeer] /\ end = [c \in Conns |-> [n \in Nodes |-> NoEnd]]
  /\ chan = [c \in Conns |-> [n \in Nodes |-> <<>>]] /\ replay = [n \in Nodes |-> {}]
  /\ assertion = "none" /\ faults = [late |-> 0, missed |-> FALSE, breaks |-> 0, crashes |-> 0, conns |-> 0, dels |-> 0]

Running == assertion = "none"
Live(c, n) == end[c][n].st \in {"fed", "up"}
Terminated(c, n) == end[c][n].st \in {"terminated", "gone"}
\* disp_terminate, if there is a connection to terminate.
Ask(e, c, n) == IF c = NoConn \/ e[c][n].st = "gone" THEN e ELSE [e EXCEPT ![c][n].ask = TRUE]
SetPeer(e, c, n, b) == IF c = NoConn THEN e ELSE [e EXCEPT ![c][n].peer = b]
\* get_nonce: the nonces p may have after it.
GetNonce(n, p) == IF p.nonce = Unset THEN Nonces[n] ELSE {p.nonce}
Send(c, n, m) == [chan EXCEPT ![c][Other(n)] = Append(@, m)]

\* Nothing goes on on the connection.
Settled(c) ==
  \A n \in Nodes : chan[c][n] = <<>> /\ ~end[c][n].ask /\ end[c][n].st \in {"none", "up", "gone"}
                  /\ ~(end[c][n].st = "up" /\ end[c][Other(n)].st = "gone")
                  /\ ~(peer[n].preempt # Unset /\ peer[n].inb = c) /\ \A r \in replay[n] : r[2] # c
\* What is still going on, with c, when the retry timer is armed.
Armed(c) == {c} \cup {d \in Conns : ~Settled(d)}

-----------------------------------------------------------------------------
\* The retry timer: start_active_conn, and the timer is added again.  Nothing but
\* its delay makes it wait for a handshake that goes on.
Late(n) == \E c \in peer[n].wait : ~Settled(c)
Retry(n) ==
  /\ Running /\ peer[n].known /\ peer[n].retry
  /\ Late(n) => faults.late < MaxLate
  /\ faults' = [faults EXCEPT !.late = IF Late(n) THEN @ + 1 ELSE @]
  /\ \E c \in Conns :
       /\ Active(c) = n /\ end[c][n].st = "none" /\ (c[2] > 1 => end[<<n, c[2] - 1>>][n].st # "none")
       /\ end' = [Ask(end, peer[n].outb, n) EXCEPT ![c][n] = [st |-> "connecting", ask |-> FALSE, peer |-> TRUE]]
       /\ peer' = [peer EXCEPT ![n].outb = c, ![n].wait = Armed(c)]
  /\ UNCHANGED <<chan, replay, assertion>>

\* TCP connects, and the listener of the other side accepts.
Connected(c) ==
  LET n == Active(c) IN
  /\ Running /\ end[c][n].st = "connecting" /\ ~end[c][n].ask
  /\ end' = [end EXCEPT ![c][n].st = "fed", ![c][Other(n)].st = "fed"]
  /\ UNCHANGED <<peer, chan, replay, assertion, faults>>

\* on_dispatcher_setup: the active side sends its nonce; it throws for a peer that
\* was deleted, which ends the connection.
Setup(c, n) ==
  /\ Running /\ end[c][n].st = "fed"
  /\ end' = [end EXCEPT ![c][n].st = "up", ![c][n].ask = @ \/ (Active(c) = n /\ ~peer[n].known)]
  /\ IF Active(c) # n \/ ~peer[n].known THEN UNCHANGED <<peer, chan>>
     ELSE \E v \in GetNonce(n, peer[n]) :
            peer' = [peer EXCEPT ![n].nonce = v] /\ chan' = Send(c, n, <<"ping", v>>)
  /\ UNCHANGED <<replay, assertion, faults>>

\* The call of worker_terminate.
WorkerTerminate(c, n) ==
  /\ Running /\ Live(c, n) /\ end[c][n].ask /\ end' = [end EXCEPT ![c][n].st = "terminated"]
  /\ UNCHANGED <<peer, chan, replay, assertion, faults>>

\* Only the chosen connection has a heartbeat; any other one ends when ev_timeout fires.
Orphan(c, n) == end[c][n].st = "up" /\ ~end[c][n].ask /\ ~(peer[n].state = "CONNECTED" /\ peer[n].conn = c)
\* A handshake that outlasts conn_timeout counts as broken.
Timeout(c, n) ==
  /\ Running /\ Orphan(c, n) /\ (~Settled(c) => faults.breaks < MaxBreaks)
  /\ faults' = [faults EXCEPT !.breaks = IF Settled(c) THEN @ ELSE @ + 1]
  /\ end' = Ask(end, c, n) /\ UNCHANGED <<peer, chan, replay, assertion>>

\* The other end has closed the connection, or it is silent for conn_timeout.
Eof(c, n) ==
  /\ Running /\ Live(c, n) /\ end[c][Other(n)].st = "gone" /\ ~end[c][n].ask
  /\ end' = Ask(end, c, n) /\ UNCHANGED <<peer, chan, replay, assertion, faults>>

\* No retry timer after a teardown.
MutTeardown(c, n) ==
  LET p == peer[n]
      q == [p EXCEPT !.state = "DISCONNECTED", !.outb = IF p.state # "DISCONNECTED" THEN NoConn ELSE @, !.inb = NoConn]
      gone == [end EXCEPT ![c][n].st = "gone", ![c][n].ask = FALSE]
  IN
  /\ Running /\ (end[c][n].st = "terminated" \/ (end[c][n].st = "connecting" /\ end[c][n].ask))
  /\ IF ~end[c][n].peer THEN end' = gone /\ UNCHANGED <<peer, replay, assertion>>
     ELSE IF p.state # "DISCONNECTED" /\ p.conn # c
     THEN assertion' = "teardown" /\ UNCHANGED <<peer, end, replay>>
     ELSE /\ end' = gone /\ UNCHANGED <<replay, assertion>> /\ peer' = [peer EXCEPT ![n] = q]
  /\ UNCHANGED <<chan, faults>>

\* del_conn with on_dispatcher_teardown; for a connection that is still
\* connecting, the call of disp_terminate.
Teardown(c, n) ==
  LET p == peer[n]
      q == [p EXCEPT !.state = "DISCONNECTED", !.outb = IF p.state # "DISCONNECTED" THEN NoConn ELSE @, !.inb = NoConn]
      left == IF p.left > 0 THEN p.left - 1 ELSE p.left
      gone == [end EXCEPT ![c][n].st = "gone", ![c][n].ask = FALSE]
  IN
  /\ Running /\ (end[c][n].st = "terminated" \/ (end[c][n].st = "connecting" /\ end[c][n].ask))
  /\ IF ~end[c][n].peer THEN end' = gone /\ UNCHANGED <<peer, replay, assertion>>
     ELSE IF ~p.known THEN assertion' = "dangling" /\ UNCHANGED <<peer, end, replay>>
     ELSE IF p.state # "DISCONNECTED" /\ p.conn # c
     THEN assertion' = "teardown" /\ UNCHANGED <<peer, end, replay>>
     ELSE /\ end' = gone /\ UNCHANGED assertion
          /\ IF p.preempt # Unset
             THEN /\ replay' = [replay EXCEPT ![n] = @ \cup {<<p.preempt, p.inb>>}]
                  /\ peer' = [peer EXCEPT ![n] = [q EXCEPT !.preempt = Unset]]
             ELSE /\ peer' = [peer EXCEPT ![n] = [q EXCEPT !.left = left, !.retry = p.retry \/ left # 0, !.wait = Armed(c),
                                                            !.nonce = IF left # 0 THEN Unset ELSE Passive]]
                  /\ UNCHANGED replay
  /\ UNCHANGED <<chan, faults>>

-----------------------------------------------------------------------------
\* finish_handshake for the chosen connection c, from the Peer p and the
\* connections e; the caller tests its two assertions.
Finished(p, c) == [p EXCEPT !.state = "CONNECTED", !.conn = c, !.inb = NoConn, !.outb = NoConn,
                            !.retry = FALSE, !.left = NTry, !.wait = {}]
FinishedEnds(e, p, c, n) == SetPeer(SetPeer(SetPeer(e, p.outb, n, FALSE), p.conn, n, FALSE), c, n, TRUE)
MayFinish(p, n) == p.state = "DISCONNECTED" /\ (p.conn = NoConn \/ Terminated(p.conn, n))

\* The nonces are not compared.
MutChosen(v, w) == TRUE
\* Of the nonces of the active and of the passive side, the smaller one wins.
Chosen(v, w) == v < w

\* A handshake ping with nonce v is handled; chans is chan without it.
PingHandler(c, n, v, chans) ==
  LET p == peer[n] IN
  IF Terminated(c, n) THEN UNCHANGED <<peer, end, assertion>> /\ chan' = chans
  ELSE IF ~p.known THEN end' = Ask(end, c, n) /\ chan' = chans /\ UNCHANGED <<peer, assertion>>
  ELSE IF p.state = "CONNECTED"
  THEN /\ peer' = [peer EXCEPT ![n].preempt = v, ![n].inb = c, ![n].nonce = Passive]
       /\ end' = Ask(end, p.conn, n) /\ chan' = chans /\ UNCHANGED assertion
  ELSE IF p.state = "RESET" THEN UNCHANGED <<peer, end, assertion>> /\ chan' = chans
  ELSE IF p.inb \notin {NoConn, c} /\ end[p.inb][n].peer
  THEN assertion' = "stale inbound" /\ UNCHANGED <<peer, end>> /\ chan' = chans
  ELSE \E w \in GetNonce(n, p) :
         LET e == IF p.inb = c THEN end ELSE Ask(end, p.inb, n)
             q == [p EXCEPT !.nonce = w, !.inb = c]
         IN
         /\ chan' = [chans EXCEPT ![c][Other(n)] = Append(@, <<"pong", w>>)]
         /\ IF ~Chosen(v, w)
            THEN end' = Ask(e, c, n) /\ peer' = [peer EXCEPT ![n] = q] /\ UNCHANGED assertion
            ELSE IF ~MayFinish(p, n) THEN assertion' = "finish" /\ UNCHANGED <<peer, end>>
            ELSE end' = FinishedEnds(e, q, c, n) /\ peer' = [peer EXCEPT ![n] = Finished(q, c)] /\ UNCHANGED assertion

PongHandler(c, n, w, chans) ==
  LET p == peer[n] IN
  /\ chan' = chans
  /\ IF Terminated(c, n) THEN UNCHANGED <<peer, end, assertion>>
     ELSE IF ~p.known THEN end' = Ask(end, c, n) /\ UNCHANGED <<peer, assertion>>
     ELSE IF p.state # "DISCONNECTED" THEN UNCHANGED <<peer, end, assertion>>
     ELSE IF p.outb \notin {NoConn, c} /\ end[p.outb][n].peer
     THEN assertion' = "stale outbound" /\ UNCHANGED <<peer, end>>
     ELSE \E v \in GetNonce(n, p) :
            LET e == IF p.outb = c THEN end ELSE Ask(end, p.outb, n)
                q == [p EXCEPT !.nonce = v, !.outb = c]
            IN
            IF ~Chosen(v, w)
            THEN end' = Ask(e, c, n) /\ peer' = [peer EXCEPT ![n] = q] /\ UNCHANGED assertion
            ELSE IF ~MayFinish(p, n) THEN assertion' = "finish" /\ UNCHANGED <<peer, end>>
            ELSE end' = FinishedEnds(e, q, c, n) /\ peer' = [peer EXCEPT ![n] = Finished(q, c)] /\ UNCHANGED assertion

\* The message at the head of the channel; what comes after termination is lost.
Handle(c, n) ==
  /\ Running /\ chan[c][n] # <<>> /\ end[c][n].st \in {"up", "terminated", "gone"}
  /\ LET m == Head(chan[c][n])  rest == [chan EXCEPT ![c][n] = Tail(@)] IN
     IF m[1] = "ping" THEN PingHandler(c, n, m[2], rest) ELSE PongHandler(c, n, m[2], rest)
  /\ UNCHANGED <<replay, faults>>

\* The preempting ping again; faults.missed: it did not connect the nodes after all.
Replay(n) ==
  /\ Running /\ \E r \in replay[n] :
       /\ replay' = [replay EXCEPT ![n] = @ \ {r}] /\ PingHandler(r[2], n, r[1], chan)
  /\ faults' = [faults EXCEPT !.missed = @ \/ (peer[n].known /\ peer'[n].state # "CONNECTED")]

-----------------------------------------------------------------------------
\* The network breaks a connection, or refuses it.
Break(c) ==
  /\ Running /\ faults.breaks < MaxBreaks /\ faults' = [faults EXCEPT !.breaks = @ + 1]
  /\ end[c][Active(c)].st \in {"connecting", "fed", "up"} /\ ~end[c][Active(c)].ask
  /\ end' = [c2 \in Conns |-> [n \in Nodes |->
               IF c2 = c /\ end[c][n].st \in {"connecting", "fed", "up"} THEN [end[c][n] EXCEPT !.ask = TRUE]
               ELSE end[c2][n]]]
  /\ UNCHANGED <<peer, chan, replay, assertion>>

\* A node is restarted; its connections are closed.
Crash(n) ==
  /\ Running /\ faults.crashes < MaxCrashes /\ faults' = [faults EXCEPT !.crashes = @ + 1]
  /\ end' = [c \in Conns |-> [m \in Nodes |->
               IF m = n /\ end[c][n].st # "none" THEN [NoEnd EXCEPT !.st = "gone"]
               ELSE IF m # n /\ end[c][m].st = "connecting" /\ end[c][n].st = "none" THEN [end[c][m] EXCEPT !.ask = TRUE]
               ELSE end[c][m]]]
  /\ peer' = [peer EXCEPT ![n] = NewPeer] /\ replay' = [replay EXCEPT ![n] = {}]
  /\ UNCHANGED <<chan, assertion>>

\* The user calls conn_peer again.
ConnPeer(n) ==
  /\ Running /\ peer[n].known /\ faults.conns < MaxConnPeer /\ faults' = [faults EXCEPT !.conns = @ + 1]
  /\ CalmCalls => \A c \in Conns : Settled(c)
  /\ LET p == [peer[n] EXCEPT !.left = NTry, !.inb = NoConn, !.outb = NoConn, !.nonce = Unset, !.retry = FALSE] IN
     IF p.state = "CONNECTED"
     THEN peer' = [peer EXCEPT ![n] = [p EXCEPT !.state = "RESET"]] /\ end' = Ask(end, p.conn, n)
     ELSE /\ peer' = [peer EXCEPT ![n] = [p EXCEPT !.retry = p.state = "DISCONNECTED" /\ NTry # 0]] /\ UNCHANGED end
  /\ UNCHANGED <<chan, replay, assertion>>

\* The user calls del_peer.
DelPeer(n) ==
  /\ Running /\ peer[n].known /\ faults.dels < MaxDelPeer /\ faults' = [faults EXCEPT !.dels = @ + 1]
  /\ LET p == peer[n]
         off(e, c) == SetPeer(Ask(e, c, n), c, n, FALSE)
     IN end' = off(off(off(end, p.conn), p.inb), p.outb)
  /\ peer' = [peer EXCEPT ![n] = [NewPeer EXCEPT !.known = FALSE, !.retry = FALSE]]
  /\ UNCHANGED <<chan, replay, assertion>>

-----------------------------------------------------------------------------
Next ==
  \/ \E n \in Nodes : Retry(n) \/ Replay(n) \/ Crash(n) \/ ConnPeer(n) \/ DelPeer(n)
  \/ \E c \in Conns : Connected(c) \/ Break(c)
                      \/ \E n \in Nodes : Setup(c, n) \/ WorkerTerminate(c, n) \/ Timeout(c, n) \/ Eof(c, n) \/ Teardown(c, n) \/ Handle(c, n)

Spec == Init /\ [][Next]_vars

-----------------------------------------------------------------------------
\* No assertion of the handshake fails: assert(p->conn == conn) in
\* on_dispatcher_teardown, assert(old_conn->peer == nullptr) in both handlers,
\* assert(p->conn->is_terminated()) in finish_handshake; and no connection
\* points to a Peer that del_peer has freed.  Once a retry timer has overtaken a
\* handshake, start_active_conn has put another connection in p->outbound_conn,
\* and the assertions of pong_handler and on_dispatcher_teardown may fail.
NoAssertionFails ==
  assertion = "none" \/ (faults.late > 0 /\ assertion \in {"stale outbound", "teardown"})

\* Nothing is in progress between the nodes.
Quiet == (\A n \in Nodes : replay[n] = {} /\ ~peer[n].retry) /\ \A c \in Conns : Settled(c)

\* When nothing is in progress and both nodes hold the other for connected,
\* they have chosen the same connection, and it is open at both ends.
SameConnection ==
  Quiet /\ Running /\ (\A n \in Nodes : peer[n].state = "CONNECTED") =>
    \E c \in Conns : \A n \in Nodes : peer[n].conn = c /\ end[c][n].st = "up"

\* "exactly one underlying bi-directional connection is established per added
\* peer" (salticidae/README.rst): when nothing is in progress, no connection
\* but the chosen one is open.
ExactlyOne ==
  Quiet /\ Running => \A c \in Conns, n \in Nodes : end[c][n].st = "up" => peer[n].conn = c

\* Whenever everything is settled and conn_timeout has ended the connections
\* nobody has chosen, both nodes are connected, or the retry timer of one of them
\* is armed: neither waits for the other for ever.  A preempting ping arms none
\* when it is handled again; after a restart or a retry that overtook a handshake
\* it may come to nothing (its connection is gone, or its nonce loses).
NeverStuck ==
  (\A n \in Nodes : replay[n] = {} /\ peer[n].known) /\ Running
  /\ (\A c \in Conns : Settled(c) /\ \A n \in Nodes : ~Orphan(c, n))
  /\ ~(faults.missed /\ faults.crashes + faults.late > 0) =>
    (\A n \in Nodes : peer[n].state = "CONNECTED") \/ \E n \in Nodes : peer[n].retry

\* The nodes are connected; they have used up the connections that the instance
\* allows.
Linked == \E c \in Conns : \A n \in Nodes : peer[n].state = "CONNECTED" /\ peer[n].conn = c /\ end[c][n].st = "up"
OutOfConns == \E n \in Nodes : peer[n].retry /\ \A c \in Conns : Active(c) = n => end[c][n].st # "none"
=============================================================================
