------------------------------ MODULE Heartbeat ------------------------------
(***************************************************************************)
(* The heartbeat of an established PeerNetwork connection, as one node     *)
(* sees it, in discrete time: a ping is sent when the ping timer has fired *)
(* and the pong to the last one has come, in either order; each ping sets  *)
(* back the timer that ends the connection.                                *)
(***************************************************************************)
EXTENDS Naturals, Sequences

CONSTANTS
  PingPeriod,   \* ping_period
  ConnTimeout,  \* conn_timeout
  MaxDelay      \* ticks a message is on its way at most

\* A ping period and a round trip are shorter than conn_timeout.
BeatAssumptions ==
  /\ PingPeriod \in Nat \ {0} /\ ConnTimeout \in Nat /\ MaxDelay \in Nat
  /\ PingPeriod + PingPeriod \div 2 < ConnTimeout /\ 2 * MaxDelay < ConnTimeout

VARIABLES
  ping_timer_ok, pong_msg_ok,
  timer,     \* ticks until ev_ping_timer fires, or Off
  timeout,   \* ticks until ev_timeout fires
  wire,      \* the ages of the messages on their way, each "ping" or "pong"
  alive,     \* the peer is alive
  ended      \* the connection was ended by its timeout
beatVars == <<ping_timer_ok, pong_msg_ok, timer, timeout, wire, alive, ended>>

Off == ConnTimeout + 2 * PingPeriod + 1
\* gen_rand_timeout: the base and up to half of it more.
RandTimeout(base) == base .. base + base \div 2
Aged(w) == [i \in DOMAIN w |-> [w[i] EXCEPT !.age = @ + 1]]

\* reset_ping_timer and send_ping, with the messages w on their way before it.
SendPing(w) ==
  /\ ping_timer_ok' = FALSE /\ pong_msg_ok' = FALSE /\ timeout' = ConnTimeout
  /\ timer' \in RandTimeout(PingPeriod) /\ wire' = Append(w, [msg |-> "ping", age |-> 0])

\* finish_handshake sends the first ping.
BeatInit ==
  /\ ping_timer_ok = FALSE /\ pong_msg_ok = FALSE /\ timer \in RandTimeout(PingPeriod)
  /\ timeout = ConnTimeout /\ wire = <<[msg |-> "ping", age |-> 0]>> /\ alive = TRUE /\ ended = FALSE

\* That the timer fired before the pong came is not remembered.
MutPingTimer ==
  /\ ~ended /\ timer = 0
  /\ IF pong_msg_ok THEN SendPing(wire)
     ELSE timer' = Off /\ UNCHANGED <<ping_timer_ok, pong_msg_ok, timeout, wire>>
  /\ UNCHANGED <<alive, ended>>

PingTimer ==
  /\ ~ended /\ timer = 0
  /\ IF pong_msg_ok THEN SendPing(wire)
     ELSE ping_timer_ok' = TRUE /\ timer' = Off /\ UNCHANGED <<pong_msg_ok, timeout, wire>>
  /\ UNCHANGED <<alive, ended>>

\* ping_handler of the peer: a heartbeat ping is answered.
PeerPong ==
  /\ ~ended /\ wire # <<>> /\ Head(wire).msg = "ping"
  /\ wire' = (IF alive THEN Append(Tail(wire), [msg |-> "pong", age |-> 0]) ELSE Tail(wire))
  /\ UNCHANGED <<ping_timer_ok, pong_msg_ok, timer, timeout, alive, ended>>

\* pong_handler.
PongHandler ==
  /\ ~ended /\ wire # <<>> /\ Head(wire).msg = "pong"
  /\ IF ping_timer_ok THEN SendPing(Tail(wire))
     ELSE pong_msg_ok' = TRUE /\ wire' = Tail(wire) /\ UNCHANGED <<ping_timer_ok, timer, timeout>>
  /\ UNCHANGED <<alive, ended>>

\* ev_timeout: worker_terminate.
Timeout == ~ended /\ timeout = 0 /\ ended' = TRUE
           /\ UNCHANGED <<ping_timer_ok, pong_msg_ok, timer, timeout, wire, alive>>

\* The peer falls silent.
PeerDies == alive /\ alive' = FALSE /\ UNCHANGED <<ping_timer_ok, pong_msg_ok, timer, timeout, wire, ended>>

\* Time goes on when no timer is due and no message is late.
Tick ==
  /\ ~ended /\ timer # 0 /\ timeout > 0 /\ \A i \in DOMAIN wire : wire[i].age < MaxDelay
  /\ timer' = (IF timer = Off THEN Off ELSE timer - 1) /\ timeout' = timeout - 1 /\ wire' = Aged(wire)
  /\ UNCHANGED <<ping_timer_ok, pong_msg_ok, alive, ended>>

BeatNext == PingTimer \/ PeerPong \/ PongHandler \/ Timeout \/ PeerDies \/ Tick
BeatSpec == BeatInit /\ [][BeatNext]_beatVars

-----------------------------------------------------------------------------
\* A peer that answers is never given up, however the pong and the ping timer
\* race, if a ping period and a round trip are shorter than conn_timeout.
NoFalseTimeout == ended => ~alive

\* At most one ping of a node is unanswered.
OneOutstanding == Len(wire) <= 1 /\ (pong_msg_ok => wire = <<>>)

-----------------------------------------------------------------------------
BeatTypeOK ==
  /\ ping_timer_ok \in BOOLEAN /\ pong_msg_ok \in BOOLEAN /\ alive \in BOOLEAN /\ ended \in BOOLEAN
  /\ timer \in Nat /\ timeout \in 0 .. ConnTimeout

OnWire(m, a) == wire = <<[msg |-> m, age |-> a]>>

\* Both timers were set with the last ping.  ev_ping_timer is pending until it
\* has been noted; the ping is as old as they are, its pong older by at most
\* the delay of the ping; and an answering peer has its ping, or sent its pong.
InStep ==
  /\ IF ping_timer_ok THEN timer = Off /\ ~pong_msg_ok
     ELSE timer + ConnTimeout <= timeout + PingPeriod + PingPeriod \div 2
  /\ \/ wire = <<>> /\ (alive => pong_msg_ok)
     \/ ~pong_msg_ok /\ \E a \in 0 .. MaxDelay : OnWire("ping", a) /\ a + timeout = ConnTimeout
     \/ ~pong_msg_ok /\ \E a \in 0 .. MaxDelay : OnWire("pong", a) /\ ConnTimeout <= timeout + MaxDelay + a
  /\ ended => ~alive
=============================================================================
