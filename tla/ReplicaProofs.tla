---------------------------- MODULE ReplicaProofs ---------------------------
(***************************************************************************)
(* Proofs about the parts of a replica beside its core.                    *)
(*                                                                         *)
(* Heartbeat, for any periods and delays; ProposerQueue, for any commands, *)
(* block size and number of rotations; ClientServer, for any replicas,     *)
(* commands and stops.  Each has its inductive invariant, in its own       *)
(* module or here, and the lemmas on what the operators of its handlers    *)
(* make of the state.                                                      *)
(***************************************************************************)
EXTENDS Heartbeat, ProposerQueue, ClientServer, SequenceTheorems, FiniteSetTheorems, TLAPS

(***************************************************************************)
(* Heartbeat.                                                              *)
(*                                                                         *)
(* The timers and the one message on its way stay InStep.                  *)
(***************************************************************************)
LEMMA OneMessage ==
  ASSUME NEW m, NEW a \in Nat, OnWire(m, a)
  PROVE  /\ wire # <<>> /\ Head(wire).msg = m /\ Tail(wire) = <<>> /\ Len(wire) = 1
         /\ Aged(wire) = <<[msg |-> m, age |-> a + 1]>>
         /\ (\A i \in DOMAIN wire : wire[i].age < MaxDelay) => a < MaxDelay
<1> USE DEF OnWire
<1>1. wire # <<>> /\ Head(wire).msg = m /\ Tail(wire) = <<>> /\ Len(wire) = 1
  OBVIOUS
<1>2. DOMAIN wire = {1} /\ wire[1] = [msg |-> m, age |-> a]
  OBVIOUS
<1>3. Aged(wire) = <<[msg |-> m, age |-> a + 1]>>
  BY <1>2 DEF Aged
<1> QED
  BY <1>1, <1>2, <1>3

LEMMA NoMessage ==
  ASSUME wire = <<>>
  PROVE  Aged(wire) = <<>>
BY DEF Aged

LEMMA Drawn ==
  ASSUME BeatAssumptions, NEW t \in RandTimeout(PingPeriod)
  PROVE  /\ t \in Nat /\ ConnTimeout \in 0 .. ConnTimeout
         /\ t + ConnTimeout <= ConnTimeout + PingPeriod + PingPeriod \div 2
<1>1. PingPeriod \div 2 \in Nat
  BY DEF BeatAssumptions
<1> QED
  BY <1>1 DEF BeatAssumptions, RandTimeout

LEMMA PingSent ==
  ASSUME BeatAssumptions, BeatTypeOK, SendPing(<<>>), UNCHANGED <<alive, ended>>, ~ended
  PROVE  BeatTypeOK' /\ InStep'
<1>1. timer' \in RandTimeout(PingPeriod) /\ timeout' = ConnTimeout
  BY DEF SendPing
<1>2. timer' \in Nat /\ timeout' \in 0 .. ConnTimeout /\ timer' + ConnTimeout <= timeout' + PingPeriod + PingPeriod \div 2
  BY <1>1, Drawn, Zenon
<1>3. BeatTypeOK'
  BY Zenon, <1>2 DEF BeatTypeOK, SendPing
<1>4. OnWire("ping", 0)'
  BY DEF SendPing, OnWire
<1>5. 0 \in 0 .. MaxDelay /\ 0 + timeout' = ConnTimeout
  BY <1>1 DEF BeatAssumptions
<1> QED
  BY <1>2, <1>3, <1>4, <1>5 DEF SendPing, InStep

LEMMA InitInStep == ASSUME BeatAssumptions, BeatInit PROVE BeatTypeOK /\ InStep
<1>1. timer \in RandTimeout(PingPeriod) /\ timeout = ConnTimeout
  BY DEF BeatInit
<1>2. timer \in Nat /\ timeout \in 0 .. ConnTimeout /\ timer + ConnTimeout <= timeout + PingPeriod + PingPeriod \div 2
  BY <1>1, Drawn, Zenon
<1>3. BeatTypeOK
  BY Zenon, <1>2 DEF BeatTypeOK, BeatInit
<1>4. OnWire("ping", 0)
  BY DEF BeatInit, OnWire
<1> QED
  BY <1>2, <1>3, <1>4 DEF BeatAssumptions, BeatInit, InStep

LEMMA StepInStep ==
  ASSUME BeatAssumptions, BeatTypeOK, InStep, [BeatNext]_beatVars
  PROVE  BeatTypeOK' /\ InStep'
<1>h. PingPeriod \div 2 \in Nat
  BY DEF BeatAssumptions
<1>1. CASE PingTimer
  <2>1. ~ping_timer_ok /\ timer = 0 /\ ~ended
    BY <1>1 DEF PingTimer, InStep, Off, BeatAssumptions
  <2>2. CASE pong_msg_ok
    <3>1. wire = <<>>
      BY <2>2 DEF InStep
    <3> QED
      BY <1>1, <2>1, <2>2, <3>1, PingSent DEF PingTimer
  <2>3. CASE ~pong_msg_ok
    BY <1>1, <2>1, <2>3 DEF PingTimer, BeatTypeOK, InStep, Off, OnWire, BeatAssumptions
  <2> QED
    BY <2>2, <2>3
<1>2. CASE PeerPong
  <2>1. PICK a \in 0 .. MaxDelay : OnWire("ping", a) /\ a + timeout = ConnTimeout /\ ~pong_msg_ok
    BY <1>2, OneMessage DEF PeerPong, InStep
  <2>2. Tail(wire) = <<>>
    BY <2>1, OneMessage
  <2>3. IF alive THEN OnWire("pong", 0)' ELSE wire' = <<>>
    <3>1. \A x : Append(<<>>, x) = <<x>>
      OBVIOUS
    <3> QED
      BY Zenon, <1>2, <2>2, <3>1 DEF PeerPong, OnWire
  <2> QED
    BY <1>2, <2>1, <2>3 DEF PeerPong, BeatTypeOK, InStep, Off, BeatAssumptions
<1>3. CASE PongHandler
  <2>1. PICK a \in 0 .. MaxDelay : OnWire("pong", a)
    BY <1>3, OneMessage DEF PongHandler, InStep
  <2>2. Tail(wire) = <<>>
    BY <2>1, OneMessage
  <2>3. CASE ping_timer_ok
    BY Zenon, <1>3, <2>2, <2>3, PingSent DEF PongHandler
  <2>4. CASE ~ping_timer_ok
    BY Zenon, <1>3, <2>2, <2>4 DEF PongHandler, BeatTypeOK, InStep
  <2> QED
    BY <2>3, <2>4
<1>4. CASE Timeout
  <2>1. ~alive
    <3> SUFFICES ASSUME alive PROVE FALSE
      OBVIOUS
    <3>1. timeout = 0 /\ timer \in Nat
      BY <1>4 DEF Timeout, BeatTypeOK
    <3>2. ping_timer_ok
      BY <1>h, <3>1 DEF InStep, BeatAssumptions
    <3>3. ~pong_msg_ok
      BY <3>2 DEF InStep
    <3> QED
      BY <3>1, <3>3 DEF InStep, BeatAssumptions
  <2> QED
    BY <1>4, <2>1 DEF Timeout, BeatTypeOK, InStep, Off, OnWire
<1>5. CASE PeerDies
  BY Zenon, <1>5 DEF PeerDies, BeatTypeOK, InStep, Off, OnWire
<1>6. CASE Tick
  <2>1. BeatTypeOK'
    BY <1>6 DEF Tick, BeatTypeOK, Off, BeatAssumptions
  <2>2. IF ping_timer_ok' THEN timer' = Off /\ ~pong_msg_ok'
        ELSE timer' + ConnTimeout <= timeout' + PingPeriod + PingPeriod \div 2
    <3>1. CASE ping_timer_ok
      BY <1>6, <3>1 DEF Tick, InStep
    <3>2. CASE ~ping_timer_ok
      <4>1. timer + ConnTimeout <= timeout + PingPeriod + PingPeriod \div 2 /\ timer \in Nat /\ timeout \in 0 .. ConnTimeout
        BY <3>2 DEF InStep, BeatTypeOK
      <4>2. timer # Off
        BY <4>1, <1>h DEF Off, BeatAssumptions
      <4>3. timer' = timer - 1 /\ timeout' = timeout - 1 /\ timer # 0 /\ timeout > 0
        BY <1>6, <4>2 DEF Tick
      <4>4. timer' + ConnTimeout <= timeout' + PingPeriod + PingPeriod \div 2
        BY <4>1, <4>3, <1>h DEF BeatAssumptions
      <4> QED
        BY <1>6, <3>2, <4>4 DEF Tick
    <3> QED
      BY <3>1, <3>2
  <2>3. CASE wire = <<>>
    BY SMTT(30), <1>6, <2>1, <2>2, <2>3, NoMessage DEF Tick, InStep, OnWire
  <2>4. ASSUME NEW a \in 0 .. MaxDelay, NEW m, OnWire(m, a)
        PROVE  a + 1 \in 0 .. MaxDelay /\ OnWire(m, a + 1)'
    BY <1>6, <2>4, OneMessage DEF Tick, OnWire, BeatAssumptions
  <2> QED
    BY SMTT(30), <1>6, <2>1, <2>2, <2>3, <2>4 DEF Tick, BeatTypeOK, InStep, BeatAssumptions
<1>7. CASE UNCHANGED beatVars
  BY <1>7 DEF beatVars, BeatTypeOK, InStep, Off, OnWire
<1> QED
  BY <1>1, <1>2, <1>3, <1>4, <1>5, <1>6, <1>7 DEF BeatNext

\* A peer that answers is not given up, for any periods in which a ping period
\* with its random part, and a round trip, are shorter than conn_timeout.
THEOREM NeverGivenUp == ASSUME BeatAssumptions PROVE BeatSpec => []NoFalseTimeout
<1>1. InStep => NoFalseTimeout
  BY DEF InStep, NoFalseTimeout
<1> QED
  BY <1>1, InitInStep, StepInStep, PTL DEF BeatSpec

\* pong_msg_ok and ping_timer_ok keep a second ping back until the pong is there.
THEOREM OnePing == ASSUME BeatAssumptions PROVE BeatSpec => []OneOutstanding
<1>1. BeatTypeOK /\ InStep => OneOutstanding
  <2>1. Len(<<>>) = 0 /\ \A m, a : OnWire(m, a) => Len(wire) = 1
    BY DEF OnWire
  <2>2. InStep => wire = <<>> \/ \E m, a : OnWire(m, a)
    BY DEF InStep
  <2>3. InStep /\ pong_msg_ok => wire = <<>>
    BY DEF InStep
  <2>4. InStep => Len(wire) \in {0, 1}
    BY <2>1, <2>2
  <2> QED
    BY <2>3, <2>4 DEF OneOutstanding
<1> QED
  BY <1>1, InitInStep, StepInStep, PTL DEF BeatSpec

(***************************************************************************)
(* ProposerQueue.                                                          *)
(*                                                                         *)
(* The pacemaker's state is handled as the record Pace: what Arm, Resolve  *)
(* and Beat make of it is stated once, as lemmas, and the handlers only    *)
(* say which of them they call.                                            *)
(***************************************************************************)
PaceState == [beats : Seq(Batch), armed : Seq(Cmd), locked : BOOLEAN,
              blocks : Seq(Batch), lost : Seq(Batch)]

\* Arming the next beat, when a beat that waits is not replaced by it.
LEMMA ArmInTurn ==
  ASSUME NEW p \in PaceState,
         p.locked => p.armed # << >> \/ p.lost # << >>,
         p.armed # << >> => p.locked
  PROVE  Arm(p) \in PaceState /\ InTurn(Arm(p)) /\ Arm(p).blocks = p.blocks
<1>1. CASE p.beats # << >> /\ ~p.locked
  <2>1. Head(p.beats) \in Batch /\ Tail(p.beats) \in Seq(Batch)
    BY <1>1, HeadTailProperties DEF PaceState
  <2>2. Arm(p) = [p EXCEPT !.beats = Tail(@), !.armed = Head(p.beats), !.locked = TRUE]
    BY <1>1 DEF Arm
  <2> QED
    BY Zenon, <2>1, <2>2 DEF PaceState, InTurn, Batch
<1>2. CASE ~(p.beats # << >> /\ ~p.locked)
  <2>1. Arm(p) = p
    BY <1>2 DEF Arm
  <2> QED
    BY <1>2, <2>1 DEF InTurn
<1> QED
  BY <1>1, <1>2

\* The turn of a beat ends with its block and the next beat, or with its loss.
LEMMA ResolveInTurn ==
  ASSUME NEW p \in PaceState, p.armed = << >>, p.locked = TRUE, NEW batch \in Batch, NEW throws
  PROVE  LET q == Resolve(p, batch, throws)
         IN  q \in PaceState /\ InTurn(q) /\ q.blocks \in {p.blocks, Append(p.blocks, batch)}
<1>1. Append(p.blocks, batch) \in Seq(Batch) /\ Append(p.lost, batch) \in Seq(Batch) /\ Append(p.lost, batch) # << >>
  BY SMTT(30), AppendProperties DEF PaceState
<1>2. CASE leads /\ ~throws
  <2> DEFINE r == [p EXCEPT !.blocks = Append(@, batch), !.locked = FALSE]
  <2>1. r \in PaceState /\ r.armed = << >> /\ r.locked = FALSE /\ r.blocks = Append(p.blocks, batch)
    BY Zenon, <1>1 DEF PaceState
  <2>2. Resolve(p, batch, throws) = Arm(r)
    BY <1>2 DEF Resolve
  <2> HIDE DEF r
  <2> QED
    BY <2>1, <2>2, ArmInTurn
<1>3. CASE ~(leads /\ ~throws)
  <2>1. Resolve(p, batch, throws) = [p EXCEPT !.lost = Append(@, batch)]
    BY <1>3 DEF Resolve
  <2> QED
    BY Zenon, <1>1, <2>1 DEF PaceState, InTurn
<1> QED
  BY <1>2, <1>3

\* A new block is made only when the last one has its majority here.
LEMMA BeatInTurn ==
  ASSUME NEW p \in PaceState, InTurn(p), NEW batch \in Batch, NEW throws
  PROVE  LET q == Beat(p, batch, throws)
         IN  /\ q \in PaceState /\ InTurn(q)
             /\ q.blocks = p.blocks \/ (last_proposed \in full /\ q.blocks = Append(p.blocks, batch))
<1>0. p.beats \in Seq(Batch)
  BY DEF PaceState
<1>1. Append(p.beats, batch) \in Seq(Batch) /\ Append(p.beats, batch) # << >>
  BY <1>0, AppendProperties
<1> DEFINE q == [p EXCEPT !.beats = Append(@, batch)]
<1>2. q \in PaceState /\ q.beats = Append(p.beats, batch) /\ q.armed = p.armed /\ q.locked = p.locked
      /\ q.blocks = p.blocks /\ q.lost = p.lost
  BY Zenon, <1>1 DEF PaceState
<1>3. CASE ~p.locked /\ last_proposed \in full
  <2> DEFINE r == [q EXCEPT !.beats = Tail(@), !.locked = TRUE]
  <2>1. Head(q.beats) \in Batch /\ Tail(q.beats) \in Seq(Batch)
    BY <1>1, <1>2, HeadTailProperties
  <2>2. p.armed = << >>
    BY <1>3 DEF InTurn
  <2>3. r \in PaceState /\ r.armed = << >> /\ r.locked = TRUE /\ r.blocks = p.blocks
    BY Zenon, <1>2, <2>1, <2>2 DEF PaceState
  <2>4. Beat(p, batch, throws) = Resolve(r, Head(q.beats), throws)
    BY <1>3 DEF Beat
  <2>5. Head(q.beats) = batch
    <3>1. p.beats = << >>
      BY <1>3 DEF InTurn
    <3>2. \A x : Head(Append(<< >>, x)) = x
      OBVIOUS
    <3> QED
      BY <1>2, <3>1, <3>2
  <2> HIDE DEF q, r
  <2>6. LET z == Resolve(r, batch, throws)
        IN  z \in PaceState /\ InTurn(z) /\ z.blocks \in {r.blocks, Append(r.blocks, batch)}
    BY Zenon, <2>3, ResolveInTurn
  <2>7. Beat(p, batch, throws) = Resolve(r, batch, throws)
    BY Zenon, <2>4, <2>5
  <2> QED
    BY Zenon, <1>3, <2>3, <2>6, <2>7
<1>4. CASE ~(~p.locked /\ last_proposed \in full)
  <2>1. Beat(p, batch, throws) = Arm(q)
    BY <1>4 DEF Beat
  <2> HIDE DEF q
  <2>2. q.locked => q.armed # << >> \/ q.lost # << >>
    BY <1>2 DEF InTurn
  <2>3. q.armed # << >> => q.locked
    BY <1>2 DEF InTurn
  <2> QED
    BY <1>2, <2>1, <2>2, <2>3, ArmInTurn
<1> QED
  BY <1>3, <1>4

LEMMA PaceTyped == ASSUME TypeOK PROVE Pace \in PaceState
BY DEF TypeOK, Pace, PaceState

\* What a handler does to the pacemaker, whichever of the above it calls.
LEMMA PaceSet ==
  ASSUME TypeOK, OneUncertified, NEW q \in PaceState, InTurn(q), SetPace(q),
         known \subseteq known', known' \subseteq 0 .. last_proposed,
         q.blocks = blocks \/ (last_proposed \in known' /\ \E batch \in Batch : q.blocks = Append(blocks, batch))
  PROVE  /\ {pending_beats', blocks', lost'} \subseteq Seq(Batch) /\ armed' \in Seq(Cmd) /\ locked' \in BOOLEAN
         /\ InTurn(Pace)' /\ OneUncertified'
         /\ last_proposed' \in Nat /\ last_proposed <= last_proposed'
<1>1. {pending_beats', blocks', lost'} \subseteq Seq(Batch) /\ armed' \in Seq(Cmd) /\ locked' \in BOOLEAN
  BY DEF SetPace, PaceState
<1>2. InTurn(Pace)'
  BY DEF SetPace, InTurn, Pace
<1>3. last_proposed \in Nat
  BY LenProperties DEF TypeOK, last_proposed
<1>4. CASE q.blocks = blocks
  <2>1. last_proposed' = last_proposed
    BY <1>4 DEF SetPace, last_proposed
  <2>2. OneUncertified'
    BY <2>1 DEF OneUncertified
  <2> QED
    BY <1>1, <1>2, <1>3, <2>1, <2>2
<1>5. ASSUME last_proposed \in known', NEW batch \in Batch, q.blocks = Append(blocks, batch)
      PROVE  OneUncertified' /\ last_proposed' = last_proposed + 1
  <2>1. last_proposed' = last_proposed + 1
    BY <1>5, AppendProperties DEF SetPace, TypeOK, last_proposed
  <2>2. \A b \in 1 .. last_proposed : b \in known'
    BY <1>3, <1>5 DEF OneUncertified
  <2> QED
    BY <1>3, <2>1, <2>2 DEF OneUncertified
<1> QED
  BY <1>1, <1>2, <1>3, <1>4, <1>5

LEMMA Grown ==
  ASSUME NEW m, NEW n \in Nat, m <= n, m \in Nat
  PROVE  \A S : /\ S \subseteq 0 .. m => S \subseteq 0 .. n
               /\ S \subseteq 1 .. m => S \subseteq 1 .. n
OBVIOUS

Inv == TypeOK /\ InTurn(Pace) /\ OneUncertified /\ AnsweredOnce

LEMMA InitInv == ASSUME Assumptions, Init PROVE Inv
<1>1. last_proposed = 0
  BY DEF Init, last_proposed
<1>2. TypeOK
  <2>1. \A S : << >> \in Seq(S)
    OBVIOUS
  <2>2. Len(buffer) < blk_size
    BY DEF Init, Assumptions
  <2>3. rotations \in 0 .. MaxRotate /\ known \subseteq 0 .. last_proposed
    BY <1>1 DEF Init, Assumptions
  <2>4. {locked, leads, up} \subseteq BOOLEAN
    BY Zenon DEF Init
  <2> QED
    BY <2>1, <2>2, <2>3, <2>4 DEF Init, TypeOK
<1>3. InTurn(Pace)
  BY DEF Init, InTurn, Pace
<1> QED
  BY <1>1, <1>2, <1>3 DEF Init, Inv, OneUncertified, AnsweredOnce

LEMMA ExecCommandInv ==
  ASSUME Assumptions, Inv, NEW c \in Cmd, NEW throws \in Throws, ExecCommand(c, throws)
  PROVE  Inv'
<1> DEFINE buffered == IF leads /\ c \notin Reads THEN Append(buffer, c) ELSE buffer
           beat == leads /\ BlockWorth(buffered)
           batch == SubSeq(buffered, 1, blk_size)
           q == IF beat THEN Beat(Pace, batch, throws) ELSE Pace
           atOnce == c \in Reads \cup Reconfigs
<1>1. buffered \in Seq(Cmd) /\ Len(buffered) \in Nat /\ Len(buffered) <= blk_size
  <2>1. Append(buffer, c) \in Seq(Cmd) /\ Len(Append(buffer, c)) = Len(buffer) + 1
    BY AppendProperties DEF Inv, TypeOK
  <2>2. Len(buffer) \in Nat /\ Len(buffer) < blk_size
    BY LenProperties DEF Inv, TypeOK
  <2> QED
    BY SMTT(30), <2>1, <2>2 DEF Assumptions, Inv, TypeOK
<1>2. buffer' \in Seq(Cmd) /\ Len(buffer') < blk_size
  <2> HIDE DEF buffered
  <2>1. CASE beat
    <3>1. SubSeq(buffered, blk_size + 1, Len(buffered)) = << >>
      BY <1>1, SubSeqEmpty DEF Assumptions
    <3>2. buffer' = << >>
      BY <2>1, <3>1 DEF ExecCommand, buffered
    <3> QED
      BY <3>2 DEF Assumptions
  <2>2. CASE ~beat
    <3>1. buffer' = buffered
      BY <2>2 DEF ExecCommand, buffered
    <3>2. CASE ~leads
      BY <3>1, <3>2 DEF Inv, TypeOK, buffered
    <3>3. CASE leads
      BY <1>1, <2>2, <3>1, <3>3 DEF BlockWorth, Assumptions
    <3> QED
      BY <3>2, <3>3
  <2> QED
    BY <2>1, <2>2
<1>3. ASSUME beat PROVE batch \in Batch
  <2>1. Len(buffered) = blk_size
    BY <1>1, <1>3 DEF BlockWorth, Assumptions
  <2>2. batch = buffered
    BY <1>1, <2>1, SubSeqFull
  <2> HIDE DEF buffered, batch
  <2>3. buffered # << >>
    BY SMTT(30), <2>1, EmptySeq DEF Assumptions
  <2> QED
    BY <1>1, <2>2, <2>3 DEF Batch
<1>4. q \in PaceState /\ InTurn(q)
      /\ (q.blocks = blocks \/ (last_proposed \in known /\ \E x \in Batch : q.blocks = Append(blocks, x)))
  <2>1. Pace \in PaceState /\ InTurn(Pace) /\ Pace.blocks = blocks /\ full \subseteq known
    BY SMTT(30), PaceTyped DEF Inv, Pace, TypeOK
  <2>2. CASE beat
    <3> HIDE DEF batch, buffered, beat
    <3> QED
      BY <1>3, <2>1, <2>2, BeatInTurn
  <2>3. CASE ~beat
    BY <2>1, <2>3
  <2> QED
    BY <2>2, <2>3
<1>5. SetPace(q) /\ known' = known
  BY DEF ExecCommand
<1>6. /\ {pending_beats', blocks', lost'} \subseteq Seq(Batch) /\ armed' \in Seq(Cmd) /\ locked' \in BOOLEAN
      /\ InTurn(Pace)' /\ OneUncertified' /\ last_proposed' \in Nat /\ last_proposed <= last_proposed'
  <2> HIDE DEF q
  <2> QED
    BY SMTT(30), <1>4, <1>5, PaceSet DEF Inv, TypeOK
<1>7. /\ submitted' \in [Cmd -> Nat] /\ answers' \in [Cmd -> Nat] /\ decision_waiting' \subseteq Cmd
      /\ AnsweredOnce'
  <2>1. /\ submitted' = [submitted EXCEPT ![c] = @ + 1]
        /\ answers' = [answers EXCEPT ![c] = @ + (IF c \in decision_waiting THEN 1 ELSE 0) + (IF atOnce THEN 1 ELSE 0)]
        /\ decision_waiting' = IF atOnce THEN decision_waiting \ {c} ELSE decision_waiting \cup {c}
    BY DEF ExecCommand, AnsweredAtOnce
  <2> HIDE DEF atOnce
  <2>2. submitted \in [Cmd -> Nat] /\ answers \in [Cmd -> Nat] /\ decision_waiting \subseteq Cmd
    BY DEF Inv, TypeOK
  <2> QED
    BY <2>1, <2>2 DEF Inv, AnsweredOnce
<1>8. up' \in BOOLEAN /\ UNCHANGED <<full, known, decided, elsewhere, leads, rotations>>
  BY DEF ExecCommand
<1>9. TypeOK'
  <2>1. known' \subseteq 0 .. last_proposed' /\ decided' \subseteq 1 .. last_proposed'
    <3>1. last_proposed \in Nat
      BY LenProperties DEF Inv, TypeOK, last_proposed
    <3> QED
      BY SMTT(30), <1>6, <1>8, <3>1, Grown DEF Inv, TypeOK
  <2>2. {locked, leads, up}' \subseteq BOOLEAN
    BY SMTT(30), <1>6, <1>8 DEF Inv, TypeOK
  <2> QED
    BY ZenonT(40), <1>2, <1>6, <1>7, <1>8, <2>1, <2>2 DEF Inv, TypeOK
<1> QED
  BY <1>6, <1>7, <1>9 DEF Inv

LEMMA OnQcFinishInv ==
  ASSUME Assumptions, Inv, NEW b \in 1 .. last_proposed, NEW counted \in BOOLEAN, NEW throws,
         OnQcFinish(b, counted, throws)
  PROVE  Inv'
<1> DEFINE r == [Pace EXCEPT !.armed = << >>]
           q == IF Awaits(b) THEN Resolve(r, armed, throws) ELSE Pace
<1>1. last_proposed \in Nat
  BY LenProperties DEF Inv, TypeOK, last_proposed
<1>2. /\ full' = (IF counted THEN full \cup {b} ELSE full) /\ known' = known \cup {b} /\ SetPace(q)
      /\ UNCHANGED <<submitted, answers, decision_waiting, buffer, decided, elsewhere, leads, rotations, up>>
  BY DEF OnQcFinish
<1>3. known \subseteq known' /\ known' \subseteq 0 .. last_proposed /\ b \in known'
  BY <1>1, <1>2 DEF Inv, TypeOK
<1>4. q \in PaceState /\ InTurn(q)
      /\ (q.blocks = blocks \/ (last_proposed \in known' /\ \E x \in Batch : q.blocks = Append(blocks, x)))
  <2>1. Pace \in PaceState /\ InTurn(Pace)
    BY PaceTyped DEF Inv
  <2>2. CASE Awaits(b)
    <3>1. armed \in Batch /\ locked = TRUE /\ b = last_proposed
      BY <2>2 DEF Awaits, Inv, InTurn, Pace, TypeOK, Batch
    <3>2. r \in PaceState /\ r.armed = << >> /\ r.locked = TRUE /\ r.blocks = blocks
      <4>1. Pace.locked = locked /\ Pace.blocks = blocks
        BY DEF Pace
      <4>2. r \in PaceState /\ r.armed = << >> /\ r.locked = Pace.locked /\ r.blocks = Pace.blocks
        BY Zenon, <2>1, EmptySeq DEF PaceState
      <4> QED
        BY <3>1, <4>1, <4>2, Zenon
    <3>3. q = Resolve(r, armed, throws)
      BY <2>2
    <3> HIDE DEF r, q
    <3> QED
      BY ZenonT(40), <1>3, <3>1, <3>2, <3>3, ResolveInTurn
  <2>3. CASE ~Awaits(b)
    <3>1. q = Pace /\ Pace.blocks = blocks
      BY <2>3 DEF Pace
    <3> HIDE DEF q
    <3> QED
      BY <2>1, <3>1
  <2> QED
    BY SMTT(30), <2>2, <2>3
<1> HIDE DEF q
<1>5. /\ {pending_beats', blocks', lost'} \subseteq Seq(Batch) /\ armed' \in Seq(Cmd) /\ locked' \in BOOLEAN
      /\ InTurn(Pace)' /\ OneUncertified' /\ last_proposed' \in Nat /\ last_proposed <= last_proposed'
  BY SMTT(30), <1>2, <1>3, <1>4, PaceSet DEF Inv
<1>6. known' \subseteq 0 .. last_proposed' /\ decided' \subseteq 1 .. last_proposed'
  BY SMTT(30), <1>1, <1>2, <1>3, <1>5, Grown DEF Inv, TypeOK
<1>7. 0 \in full' /\ full' \subseteq known'
  BY <1>2 DEF Inv, TypeOK
<1>8. {locked, leads, up}' \subseteq BOOLEAN
  BY SMTT(30), <1>2, <1>5 DEF Inv, TypeOK
<1>9. TypeOK'
  BY SMTT(30), <1>2, <1>5, <1>6, <1>7, <1>8 DEF Inv, TypeOK
<1> QED
  BY <1>2, <1>5, <1>9 DEF Inv, AnsweredOnce

\* A callback that is called is erased: the answers and the commands that wait add
\* up to the same number.
LEMMA DecideInv ==
  ASSUME Inv, NEW b \in 1 .. last_proposed, Decide(b)
  PROVE  Inv'
<1> DEFINE S == Answered({blocks[b][i] : i \in DOMAIN blocks[b]})
<1>1. /\ decided' = decided \cup {b} /\ decision_waiting' = decision_waiting \ S
      /\ answers' = [c \in Cmd |-> answers[c] + IF c \in S THEN 1 ELSE 0]
      /\ S \subseteq decision_waiting
      /\ UNCHANGED <<submitted, buffer, pending_beats, armed, locked, blocks, full,
                     known, elsewhere, lost, leads, rotations, up>>
  BY DEF Decide, Answered
<1> HIDE DEF S
<1>2. answers \in [Cmd -> Nat] /\ submitted \in [Cmd -> Nat] /\ decision_waiting \subseteq Cmd
  BY DEF Inv, TypeOK
<1>3. answers' \in [Cmd -> Nat] /\ decision_waiting' \subseteq Cmd /\ AnsweredOnce'
  BY <1>1, <1>2 DEF Inv, AnsweredOnce
<1>4. last_proposed' = last_proposed /\ Pace' = Pace
  BY <1>1 DEF last_proposed, Pace
<1>5. TypeOK'
  BY SMTT(30), <1>1, <1>3, <1>4 DEF Inv, TypeOK
<1> QED
  BY <1>1, <1>3, <1>4, <1>5 DEF Inv, OneUncertified

LEMMA DecideElsewhereInv ==
  ASSUME Inv, NEW c \in Cmd, DecideElsewhere(c)
  PROVE  Inv'
<1>1. Cardinality(Answered({c})) = IF c \in decision_waiting THEN 1 ELSE 0
  <2>1. CASE c \in decision_waiting
    <3>1. Answered({c}) = {c}
      BY <2>1 DEF Answered
    <3> QED
      BY Zenon, <2>1, <3>1, FS_Singleton
  <2>2. CASE c \notin decision_waiting
    <3>1. Answered({c}) = {}
      BY <2>2 DEF Answered
    <3> QED
      BY <2>2, <3>1, FS_EmptySet
  <2> QED
    BY <2>1, <2>2
<1>2. /\ elsewhere' = [elsewhere EXCEPT ![c] = @ + 1] /\ decision_waiting' = decision_waiting \ {c}
      /\ answers' = [answers EXCEPT ![c] = @ + IF c \in decision_waiting THEN 1 ELSE 0]
      /\ UNCHANGED <<submitted, buffer, pending_beats, armed, locked, blocks, full,
                     known, decided, lost, leads, rotations, up>>
  BY Zenon, <1>1 DEF DecideElsewhere, Answered
<1>3. answers \in [Cmd -> Nat] /\ submitted \in [Cmd -> Nat] /\ decision_waiting \subseteq Cmd
      /\ elsewhere \in [Cmd -> Nat]
  BY DEF Inv, TypeOK
<1>4. answers' \in [Cmd -> Nat] /\ decision_waiting' \subseteq Cmd /\ elsewhere' \in [Cmd -> Nat] /\ AnsweredOnce'
  BY SMTT(30), <1>2, <1>3 DEF Inv, AnsweredOnce
<1>5. last_proposed' = last_proposed /\ Pace' = Pace
  BY SMTT(30), <1>2 DEF last_proposed, Pace
<1>6. TypeOK'
  BY SMTT(30), <1>2, <1>4, <1>5 DEF Inv, TypeOK
<1> QED
  BY <1>2, <1>4, <1>5, <1>6 DEF Inv, OneUncertified

LEMMA StepInv == ASSUME Assumptions, Inv, [Next]_vars PROVE Inv'
<1>1. CASE Rotate
  <2>1. rotations' \in 0 .. MaxRotate
    BY <1>1 DEF Rotate, Inv, TypeOK, Assumptions
  <2>2. {locked, leads, up}' \subseteq BOOLEAN
    BY <1>1 DEF Rotate, Inv, TypeOK
  <2>3. last_proposed' = last_proposed /\ Pace' = Pace
    BY SMTT(30), <1>1 DEF Rotate, last_proposed, Pace
  <2>4. TypeOK'
    BY SMTT(30), <1>1, <2>1, <2>2, <2>3 DEF Rotate, Inv, TypeOK
  <2> QED
    BY ZenonT(40), <1>1, <2>3, <2>4 DEF Rotate, Inv, OneUncertified, AnsweredOnce
<1>2. CASE UNCHANGED vars
  <2>1. last_proposed' = last_proposed /\ Pace' = Pace
    BY <1>2 DEF vars, last_proposed, Pace
  <2> QED
    BY SMTT(30), <1>2, <2>1 DEF vars, Inv, TypeOK, OneUncertified, AnsweredOnce
<1> QED
  BY <1>1, <1>2, ExecCommandInv, OnQcFinishInv, DecideInv, DecideElsewhereInv DEF Next

\* The beats of the pacemaker take turns, own blocks wait for the certificate of
\* the one before, and the callbacks match the commands that arrived, in every
\* state of a replica and for every block size.
THEOREM QueueInv == ASSUME Assumptions PROVE Spec => []Inv
<1>1. Init => Inv
  BY InitInv
<1>2. Inv /\ [Next]_vars => Inv'
  BY StepInv
<1> QED
  BY <1>1, <1>2, PTL DEF Spec

\* PMWaitQC::beat never lets a replica have two blocks of its own without a
\* certificate, whatever queues up and whoever the proposer becomes in between.
THEOREM BeatsWaitForCertificate == ASSUME Assumptions PROVE Spec => []OneUncertified
<1>1. Inv => OneUncertified
  BY SMTT(30) DEF Inv
<1> QED
  BY <1>1, QueueInv, PTL

\* A beat in pending_beats has one before it that waits for a certificate, unless
\* a beat was resolved without a proposal.
THEOREM BeatsGetTheirTurn == ASSUME Assumptions PROVE Spec => []NoStrandedBeat
<1>1. Inv => NoStrandedBeat
  BY DEF Inv, InTurn, Pace, NoStrandedBeat
<1> QED
  BY <1>1, QueueInv, PTL

\* exec_command and do_decide call each command's callback once per arrival of
\* the command, or keep it in decision_waiting.
THEOREM CallbacksMatch == ASSUME Assumptions PROVE Spec => []AnsweredOnce
<1>1. Inv => AnsweredOnce
  BY DEF Inv
<1> QED
  BY <1>1, QueueInv, PTL

(***************************************************************************)
(* ClientServer.                                                           *)
(*                                                                         *)
(* What the places of a command are is stated for any of them, and a step  *)
(* of a replica or of the client moves one command from one place to the   *)
(* next.                                                                   *)
(***************************************************************************)
\* Taking the first element of a sequence without repetitions.
LEMMA TailOnce ==
  ASSUME NEW S, NEW s \in Seq(S), s # << >>, NoTwice(s)
  PROVE  /\ Tail(s) \in Seq(S) /\ NoTwice(Tail(s))
         /\ Head(s) \in Elems(s) /\ Elems(Tail(s)) = Elems(s) \ {Head(s)}
<1>1. Head(s) = s[1] /\ 1 \in DOMAIN s /\ Len(s) \in Nat /\ DOMAIN s = 1..Len(s) /\ Len(s) > 0
  BY HeadTailProperties, LenProperties, EmptySeq
<1>2. Tail(s) \in Seq(S) /\ DOMAIN Tail(s) = 1..(Len(s) - 1) /\ \A i \in 1..(Len(s) - 1) : Tail(s)[i] = s[i + 1]
  BY <1>1, HeadTailProperties, LenProperties
<1>3. NoTwice(Tail(s))
  BY <1>1, <1>2 DEF NoTwice
<1>4. Elems(Tail(s)) \subseteq Elems(s) \ {Head(s)}
  <2> SUFFICES ASSUME NEW i \in 1..(Len(s) - 1)
               PROVE  s[i + 1] \in Elems(s) /\ s[i + 1] # s[1]
    BY <1>1, <1>2 DEF Elems
  <2> QED
    BY <1>1 DEF Elems, NoTwice
<1>5. ASSUME NEW x \in Elems(s), x # Head(s)
      PROVE  x \in Elems(Tail(s))
  <2>1. PICK i \in DOMAIN s : x = s[i]
    BY <1>5 DEF Elems
  <2>2. i - 1 \in 1..(Len(s) - 1) /\ (i - 1) + 1 = i
    BY SMTT(30), <1>1, <1>5, <2>1
  <2> QED
    BY <1>2, <2>1, <2>2 DEF Elems
<1> QED
  BY Zenon, <1>1, <1>2, <1>3, <1>4, <1>5 DEF Elems

\* One sequence without repetitions behind another, with nothing in common.
LEMMA ConcatOnce ==
  ASSUME NEW S, NEW s \in Seq(S), NEW t \in Seq(S), NoTwice(s), NoTwice(t),
         \A x \in Elems(s) : x \notin Elems(t)
  PROVE  /\ s \o t \in Seq(S) /\ NoTwice(s \o t)
         /\ Elems(s \o t) = Elems(s) \cup Elems(t)
<1> DEFINE m == Len(s)  n == Len(t)  u == s \o t
<1>1. m \in Nat /\ n \in Nat /\ DOMAIN s = 1..m /\ DOMAIN t = 1..n
  BY SMTT(30), LenProperties
<1>2. /\ u \in Seq(S) /\ DOMAIN u = 1..(m + n)
      /\ \A i \in 1..(m + n) : u[i] = IF i <= m THEN s[i] ELSE t[i - m]
  BY SMTT(30), ConcatProperties, LenProperties
<1> HIDE DEF m, n, u
<1>3. ASSUME NEW i \in 1..(m + n)
      PROVE  \/ i \in 1..m /\ u[i] = s[i] /\ u[i] \in Elems(s)
             \/ i - m \in 1..n /\ u[i] = t[i - m] /\ u[i] \in Elems(t)
  <2>1. CASE i <= m
    BY SMTT(30), <1>1, <1>2, <2>1 DEF Elems
  <2>2. CASE ~(i <= m)
    <3>1. i - m \in 1..n /\ u[i] = t[i - m]
      BY SMTT(30), <1>1, <1>2, <2>2
    <3> QED
      BY <1>1, <3>1 DEF Elems
  <2> QED
    BY SMTT(30), <2>1, <2>2
<1>4. NoTwice(u)
  <2> SUFFICES ASSUME NEW i \in 1..(m + n), NEW j \in 1..(m + n), u[i] = u[j]
               PROVE  i = j
    BY <1>2 DEF NoTwice
  <2>1. CASE i \in 1..m /\ j \in 1..m
    <3>1. u[i] = s[i] /\ u[j] = s[j]
      BY <1>1, <1>2, <2>1
    <3> QED
      BY ZenonT(40), <1>1, <2>1, <3>1 DEF NoTwice
  <2>2. CASE i - m \in 1..n /\ j - m \in 1..n
    <3>1. u[i] = t[i - m] /\ u[j] = t[j - m]
      BY <1>1, <1>2, <2>2
    <3>2. i - m = j - m
      BY ZenonT(40), <1>1, <2>2, <3>1 DEF NoTwice
    <3> QED
      BY SMTT(30), <1>1, <3>2
  <2> QED
    BY SMTT(30), <1>1, <1>3, <2>1, <2>2
<1>5. Elems(u) \subseteq Elems(s) \cup Elems(t)
  BY SMTT(30), <1>2, <1>3 DEF Elems
<1>6. ASSUME NEW x \in Elems(s)
      PROVE  x \in Elems(u)
  <2>1. PICK i \in 1..m : x = s[i]
    BY <1>1 DEF Elems
  <2>2. i \in 1..(m + n) /\ u[i] = s[i]
    BY <1>1, <1>2
  <2> QED
    BY SMTT(30), <1>2, <2>1, <2>2 DEF Elems
<1>7. ASSUME NEW x \in Elems(t)
      PROVE  x \in Elems(u)
  <2>1. PICK i \in 1..n : x = t[i]
    BY SMTT(30), <1>1 DEF Elems
  <2>2. m + i \in 1..(m + n) /\ u[m + i] = t[i]
    BY <1>1, <1>2
  <2> QED
    BY SMTT(30), <1>2, <2>1, <2>2 DEF Elems
<1> QED
  BY <1>2, <1>4, <1>5, <1>6, <1>7 DEF u

\* Adding one element that is new, at the end.
LEMMA AppendOnce ==
  ASSUME NEW S, NEW s \in Seq(S), NEW c \in S, NoTwice(s), c \notin Elems(s)
  PROVE  /\ Append(s, c) \in Seq(S) /\ NoTwice(Append(s, c))
         /\ Elems(Append(s, c)) = Elems(s) \cup {c}
<1> DEFINE t == <<c>>
<1>1. t \in Seq(S) /\ NoTwice(t) /\ Elems(t) = {c} /\ Append(s, c) = s \o t
  BY DEF NoTwice, Elems
<1> HIDE DEF t
<1> QED
  BY <1>1, ConcatOnce

\* What is left of a sequence when its end is cut off.
LEMMA PrefixOnce ==
  ASSUME NEW S, NEW s \in Seq(S), NoTwice(s), NEW k \in 0..Len(s)
  PROVE  /\ SubSeq(s, 1, k) \in Seq(S) /\ NoTwice(SubSeq(s, 1, k))
         /\ Elems(SubSeq(s, 1, k)) \subseteq Elems(s)
<1> DEFINE t == SubSeq(s, 1, k)
<1>1. Len(s) \in Nat /\ DOMAIN s = 1..Len(s) /\ k \in Nat /\ k <= Len(s)
  BY LenProperties
<1>2. t \in Seq(S) /\ DOMAIN t = 1..k /\ \A i \in 1..k : t[i] = s[i]
  BY SMTT(30), <1>1, SubSeqProperties, LenProperties
<1> HIDE DEF t
<1>3. NoTwice(t) /\ Elems(t) \subseteq Elems(s)
  BY <1>1, <1>2 DEF NoTwice, Elems
<1> QED
  BY <1>2, <1>3 DEF t

\* The commands of a burst are new ones, each once.
LEMMA BurstOnce ==
  ASSUME NEW n \in Nat, NEW k \in Nat, NEW m \in Nat, n + k <= m
  PROVE  LET s == [i \in 1..k |-> n + i]
         IN  s \in Seq(1..m) /\ NoTwice(s) /\ Elems(s) = (n + 1)..(n + k)
<1> DEFINE s == [i \in 1..k |-> n + i]
<1>1. s \in Seq(1..m)
  <2>1. s \in [1..k -> 1..m]
    OBVIOUS
  <2> QED
    BY <2>1, SeqDef
<1>2. NoTwice(s)
  BY DEF NoTwice
<1>3. ASSUME NEW x \in (n + 1)..(n + k)
      PROVE  x \in Elems(s)
  <2>1. x - n \in 1..k /\ n + (x - n) = x
    OBVIOUS
  <2>2. x - n \in DOMAIN s /\ s[x - n] = x
    BY <2>1
  <2> QED
    BY <2>2 DEF Elems
<1>4. Elems(s) \subseteq (n + 1)..(n + k)
  BY DEF Elems
<1> QED
  BY Zenon, <1>1, <1>2, <1>3, <1>4

\* What while (try_send()) does to the commands that are under way.
LEMMA BurstKeeps ==
  ASSUME ClientAssumptions, ClientTypeOK, OnePlace,
         NEW w, w = [c \in DOMAIN w |-> w[c]], DOMAIN w \subseteq 1..cnt,
         Cardinality(DOMAIN w) <= max_async_num, SendBurst(w)
  PROVE  /\ cnt' \in Nat /\ iter' \in Nat /\ cnt' + iter' = max_iter_num /\ cnt <= cnt'
         /\ waiting' = [c \in DOMAIN waiting' |-> waiting'[c]]
         /\ DOMAIN waiting' = DOMAIN w \cup (cnt + 1)..cnt'
         /\ \A c \in DOMAIN w : waiting'[c] = w[c]
         /\ \A c \in (cnt + 1)..cnt' : waiting'[c] = 0
         /\ requests' \in [Replicas -> Seq(1..max_iter_num)]
         /\ \A r \in Replicas :
              /\ NoTwice(requests'[r])
              /\ Elems(requests'[r]) \subseteq Elems(requests[r]) \cup (cnt + 1)..cnt'
         /\ Window'
<1> DEFINE n == Cardinality(DOMAIN w)  k == Burst(n)  new == (cnt + 1)..(cnt + k)
<1>1. /\ cnt' = cnt + k /\ iter' = iter - k
      /\ waiting' = [c \in DOMAIN w \cup new |-> IF c \in new THEN 0 ELSE w[c]]
      /\ requests' = [r \in Replicas |->
                        IF stopping[r] = "no" THEN requests[r] \o [i \in 1..k |-> cnt + i] ELSE requests[r]]
  BY DEF SendBurst
<1>2. cnt \in Nat /\ iter \in Nat /\ cnt + iter = max_iter_num /\ max_iter_num \in Nat /\ max_async_num \in Nat
  BY DEF ClientAssumptions, ClientTypeOK
<1>3. IsFiniteSet(DOMAIN w) /\ n \in Nat /\ n <= max_async_num
  <2>1. IsFiniteSet(1..cnt)
    <3>1. 1 \in Int /\ cnt \in Int
      BY <1>2
    <3> QED
      BY Zenon, <3>1, FS_Interval
  <2>2. IsFiniteSet(DOMAIN w)
    BY ZenonT(40), <2>1, FS_Subset
  <2> QED
    BY Zenon, <2>2, FS_CardinalityType
<1>4. /\ k \in Nat /\ k <= iter /\ n + k <= max_async_num
      /\ ~reconfig_client => k = iter \/ n + k = max_async_num
  BY <1>2, <1>3 DEF Burst
<1> HIDE DEF n, k
<1>5. cnt' \in Nat /\ iter' \in Nat /\ cnt' + iter' = max_iter_num /\ cnt <= cnt' /\ cnt + k <= max_iter_num
  BY <1>1, <1>2, <1>4
<1>6. new = (cnt + 1)..cnt' /\ \A c \in DOMAIN w : c \notin new
  BY <1>1, <1>2, <1>4
<1>7. DOMAIN waiting' = DOMAIN w \cup new
  BY <1>1
<1>8. /\ waiting' = [c \in DOMAIN waiting' |-> waiting'[c]]
      /\ \A c \in DOMAIN w : waiting'[c] = w[c]
      /\ \A c \in new : waiting'[c] = 0
  BY <1>1, <1>6
<1> DEFINE C == 1..max_iter_num  new1 == [i \in 1..k |-> cnt + i]
<1>9. ASSUME NEW r \in Replicas
      PROVE  /\ requests'[r] \in Seq(C) /\ NoTwice(requests'[r])
             /\ Elems(requests'[r]) \subseteq Elems(requests[r]) \cup new
  <2>1. requests[r] \in Seq(C)
    BY SMTT(30) DEF ClientTypeOK, Cmds
  <2>2. NoTwice(requests[r]) /\ Elems(requests[r]) \subseteq 1..cnt
    BY DEF OnePlace, Once
  <2>3. new1 \in Seq(C) /\ NoTwice(new1) /\ Elems(new1) = new
    BY Zenon, <1>2, <1>4, <1>5, BurstOnce
  <2>4. requests'[r] = requests[r] \o new1 \/ requests'[r] = requests[r]
    BY Zenon, <1>1
  <2>5. \A x \in 1..cnt : x \notin new
    BY <1>2
  <2> HIDE DEF C, new, new1
  <2>6. \A x \in Elems(requests[r]) : x \notin Elems(new1)
    BY Zenon, <2>2, <2>3, <2>5
  <2>7. /\ requests[r] \o new1 \in Seq(C) /\ NoTwice(requests[r] \o new1)
        /\ Elems(requests[r] \o new1) = Elems(requests[r]) \cup Elems(new1)
    BY <2>1, <2>2, <2>3, <2>6, ConcatOnce
  <2>8. CASE requests'[r] = requests[r] \o new1
    BY Zenon, <2>3, <2>7, <2>8
  <2>9. CASE requests'[r] = requests[r]
    BY Zenon, <2>1, <2>2, <2>9
  <2> QED
    BY Zenon, <2>4, <2>8, <2>9
<1>10. requests' \in [Replicas -> Seq(1..max_iter_num)]
  <2>1. requests' = [r \in Replicas |-> requests'[r]]
    BY <1>1
  <2> QED
    BY <1>9, <2>1
<1>11. Cardinality(DOMAIN waiting') = n + k
  <2>1. IsFiniteSet(new) /\ Cardinality(new) = k
    <3>1. cnt + 1 \in Int /\ cnt + k \in Int /\ (cnt + 1 > cnt + k => k = 0) /\ (cnt + k) - (cnt + 1) + 1 = k
      BY <1>2, <1>4
    <3> QED
      BY <3>1, FS_Interval
  <2>2. DOMAIN w \cap new = {}
    BY <1>6
  <2> QED
    <3>1. Cardinality(DOMAIN w \cup new) = Cardinality(DOMAIN w) + Cardinality(new) - Cardinality(DOMAIN w \cap new)
      BY Zenon, <1>3, <2>1, FS_Union
    <3>2. Cardinality(DOMAIN w \cap new) = 0
      BY Zenon, <2>2, FS_EmptySet
    <3> QED
      BY <1>3, <1>4, <1>7, <2>1, <3>1, <3>2 DEF n
<1>12. Window'
  <2>1. /\ Cardinality(DOMAIN waiting') <= max_async_num
        /\ cnt' > 0 /\ iter' > 0 /\ ~reconfig_client => Cardinality(DOMAIN waiting') = max_async_num
    BY <1>1, <1>2, <1>4, <1>11
  <2> QED
    BY <2>1 DEF Window
<1> QED
  BY ZenonT(40), <1>5, <1>6, <1>7, <1>8, <1>9, <1>10, <1>12

(***************************************************************************)
(* What each step makes of the places of the commands at a replica.        *)
(***************************************************************************)
\* New commands on the connection.
LEMMA BurstPlaces ==
  ASSUME NEW n \in Nat, NEW m \in Nat, n <= m, NEW q, NEW p, NEW e, NEW s, NEW A, Once(n, q, p, e, s, A),
         NEW q1, NoTwice(q1), Elems(q1) \subseteq Elems(q) \cup (n + 1)..m
  PROVE  Once(m, q1, p, e, s, A)
<1>1. \A x \in 1..n : x \notin (n + 1)..m /\ x \in 1..m
  OBVIOUS
<1>2. (n + 1)..m \subseteq 1..m
  OBVIOUS
<1>3. Elems(q1) \cap p = {} /\ Elems(q1) \cap Elems(e) = {} /\ Elems(q1) \cap Elems(s) = {} /\ Elems(q1) \cap A = {}
  BY Zenon, <1>1 DEF Once
<1>4. Elems(q1) \cup p \cup Elems(e) \cup Elems(s) \cup A \subseteq 1..m
  BY Zenon, <1>1, <1>2 DEF Once
<1> QED
  BY Zenon, <1>3, <1>4 DEF Once

\* A request is taken by the replica.
LEMMA RequestPlaces ==
  ASSUME NEW n, NEW S, NEW q \in Seq(S), q # << >>, NEW p, NEW e, NEW s, NEW A, Once(n, q, p, e, s, A)
  PROVE  Once(n, Tail(q), p \cup {Head(q)}, e, s, A)
<1>1. NoTwice(Tail(q)) /\ Head(q) \in Elems(q) /\ Elems(Tail(q)) = Elems(q) \ {Head(q)}
  BY Zenon, TailOnce DEF Once
<1> QED
  BY Zenon, <1>1 DEF Once

\* A pending command is executed.
LEMMA ExecutePlaces ==
  ASSUME NEW n, NEW S, NEW q, NEW p, NEW e \in Seq(S), NEW s, NEW A, Once(n, q, p, e, s, A), NEW c \in p, c \in S
  PROVE  Once(n, q, p \ {c}, Append(e, c), s, A)
<1>1. NoTwice(Append(e, c)) /\ Elems(Append(e, c)) = Elems(e) \cup {c}
  BY ZenonT(40), AppendOnce DEF Once
<1> QED
  BY Zenon, <1>1 DEF Once

\* The answers in the queue are sent.
LEMMA SendPlaces ==
  ASSUME NEW n, NEW S, NEW q, NEW p, NEW e \in Seq(S), NEW s \in Seq(S), NEW A, Once(n, q, p, e, s, A)
  PROVE  Once(n, q, p, << >>, s \o e, A)
<1>1. NoTwice(s \o e) /\ Elems(s \o e) = Elems(s) \cup Elems(e)
  <2>1. (\A x \in Elems(s) : x \notin Elems(e)) /\ NoTwice(s) /\ NoTwice(e)
    BY Zenon DEF Once
  <2> QED
    BY <2>1, ConcatOnce
<1>2. NoTwice(<< >>) /\ Elems(<< >>) = {}
  BY DEF NoTwice, Elems
<1> QED
  BY Zenon, <1>1, <1>2 DEF Once

\* The client handles an answer: the first one to this command from the replica.
LEMMA RespondPlaces ==
  ASSUME NEW n, NEW S, NEW q, NEW p, NEW e, NEW s \in Seq(S), s # << >>, NEW A, Once(n, q, p, e, s, A)
  PROVE  Head(s) \notin A /\ Head(s) \in 1..n /\ Once(n, q, p, e, Tail(s), A \cup {Head(s)})
<1>1. NoTwice(Tail(s)) /\ Head(s) \in Elems(s) /\ Elems(Tail(s)) = Elems(s) \ {Head(s)}
  BY Zenon, TailOnce DEF Once
<1> QED
  BY Zenon, <1>1 DEF Once

\* The connections of a replica go down.
LEMMA StopPlaces ==
  ASSUME NEW n, NEW S, NEW q, NEW p, NEW e, NEW s \in Seq(S), NEW k \in 0..Len(s), NEW A, Once(n, q, p, e, s, A)
  PROVE  Once(n, << >>, p, e, SubSeq(s, 1, k), A)
<1>1. NoTwice(SubSeq(s, 1, k)) /\ Elems(SubSeq(s, 1, k)) \subseteq Elems(s)
  BY Zenon, PrefixOnce DEF Once
<1>2. NoTwice(<< >>) /\ Elems(<< >>) = {}
  BY DEF NoTwice, Elems
<1> QED
  BY Zenon, <1>1, <1>2 DEF Once

-----------------------------------------------------------------------------
\* A command that has not been made has no answer.
LEMMA NoAnswerYet ==
  ASSUME ClientTypeOK, OnePlace, NEW c \in Cmds, c \notin 1..cnt
  PROVE  answered[c] = {}
<1>1. answered[c] \subseteq Replicas
  BY DEF ClientTypeOK
<1>2. ASSUME NEW r \in Replicas
      PROVE  r \notin answered[c]
  <2>1. Handled(answered, r) \subseteq 1..cnt
    BY Zenon DEF OnePlace, Once
  <2> QED
    BY Zenon, <2>1 DEF Handled
<1> QED
  BY Zenon, <1>1, <1>2

\* The commands of a burst are counted from nothing, and found in one place.
LEMMA BurstInv ==
  ASSUME ClientAssumptions, ClientTypeOK, OnePlace,
         NEW w, w = [c \in DOMAIN w |-> w[c]], DOMAIN w \subseteq 1..cnt,
         Cardinality(DOMAIN w) <= max_async_num, SendBurst(w),
         responses' \in [Replicas -> Seq(Cmds)], answered' \in [Cmds -> SUBSET Replicas],
         \A r \in Replicas : Once(cnt, requests[r], cmd_pending[r], resp_queue[r], responses'[r], Handled(answered', r)),
         \A c \in Cmds : IsFiniteSet(answered'[c]), \A c \in DOMAIN w : w[c] = Cardinality(answered'[c]),
         \A c \in Cmds : c \notin 1..cnt => answered'[c] = {},
         finished' \subseteq Cmds, UNCHANGED server
  PROVE  ClientTypeOK' /\ OnePlace' /\ Counted' /\ Window'
<1>1. /\ cnt' \in Nat /\ iter' \in Nat /\ cnt' + iter' = max_iter_num /\ cnt <= cnt'
      /\ waiting' = [c \in DOMAIN waiting' |-> waiting'[c]]
      /\ DOMAIN waiting' = DOMAIN w \cup (cnt + 1)..cnt'
      /\ \A c \in DOMAIN w : waiting'[c] = w[c]
      /\ \A c \in (cnt + 1)..cnt' : waiting'[c] = 0
      /\ requests' \in [Replicas -> Seq(1..max_iter_num)]
      /\ \A r \in Replicas : NoTwice(requests'[r]) /\ Elems(requests'[r]) \subseteq Elems(requests[r]) \cup (cnt + 1)..cnt'
      /\ Window'
  BY Zenon, BurstKeeps
<1>2. cnt \in Nat /\ resp_queue \in [Replicas -> Seq(Cmds)] /\ cmd_pending \in [Replicas -> SUBSET Cmds]
  BY Zenon DEF ClientTypeOK
<1>3. UNCHANGED <<resp_queue, cmd_pending>>
  BY Zenon DEF server
<1>4. DOMAIN waiting' \subseteq 1..cnt'
  <2>1. 1..cnt \subseteq 1..cnt' /\ (cnt + 1)..cnt' \subseteq 1..cnt'
    BY <1>1, <1>2
  <2> QED
    BY ZenonT(40), <1>1, <2>1
<1>5. ClientTypeOK'
  BY Zenon, <1>1, <1>2, <1>3, <1>4 DEF ClientTypeOK, Cmds
<1>6. ASSUME NEW r \in Replicas
      PROVE  Once(cnt', requests'[r], cmd_pending[r], resp_queue[r], responses'[r], Handled(answered', r))
  <2>1. Once(cnt, requests[r], cmd_pending[r], resp_queue[r], responses'[r], Handled(answered', r))
    OBVIOUS
  <2>2. NoTwice(requests'[r]) /\ Elems(requests'[r]) \subseteq Elems(requests[r]) \cup (cnt + 1)..cnt'
    BY Zenon, <1>1
  <2> QED
    BY ZenonT(40), <1>1, <1>2, <2>1, <2>2, BurstPlaces
<1>7. OnePlace'
  BY Zenon, <1>3, <1>6 DEF OnePlace, Handled, Cmds
<1>8. ASSUME NEW c \in DOMAIN waiting'
      PROVE  waiting'[c] = Cardinality(answered'[c])
  <2>1. CASE c \in DOMAIN w
    BY Zenon, <1>1, <2>1
  <2>2. CASE c \in (cnt + 1)..cnt'
    <3>1. c \in Cmds /\ c \notin 1..cnt
      BY <1>1, <1>2, <2>2 DEF Cmds
    <3> QED
      BY ZenonT(40), <1>1, <2>2, <3>1, FS_EmptySet
  <2> QED
    BY Zenon, <1>1, <1>8, <2>1, <2>2
<1>9. Counted'
  BY Zenon, <1>8 DEF Counted, Cmds
<1> QED
  BY ZenonT(40), <1>1, <1>5, <1>7, <1>9

\* The first burst.
LEMMA StartKeeps ==
  ASSUME ClientAssumptions, ClientInv, Start
  PROVE  ClientInv'
<1>1. /\ SendBurst(waiting) /\ UNCHANGED server /\ responses' = responses /\ answered' = answered
      /\ finished' = finished
  BY Zenon DEF Start
<1>2. /\ ClientTypeOK /\ OnePlace /\ Counted /\ DoneByEnough /\ Window
  BY Zenon DEF ClientInv
<1>3. /\ waiting = [c \in DOMAIN waiting |-> waiting[c]] /\ DOMAIN waiting \subseteq 1..cnt
      /\ responses \in [Replicas -> Seq(Cmds)] /\ answered \in [Cmds -> SUBSET Replicas] /\ finished \subseteq Cmds
  BY Zenon, <1>2 DEF ClientTypeOK
<1>4. Cardinality(DOMAIN waiting) <= max_async_num
  BY Zenon, <1>2 DEF Window
<1>5. \A r \in Replicas : Once(cnt, requests[r], cmd_pending[r], resp_queue[r], responses[r], Handled(answered, r))
  BY Zenon, <1>2 DEF OnePlace
<1>6. /\ \A c \in Cmds : IsFiniteSet(answered[c])
      /\ \A c \in DOMAIN waiting : waiting[c] = Cardinality(answered[c])
  BY Zenon, <1>2 DEF Counted
<1>7. \A c \in Cmds : c \notin 1..cnt => answered[c] = {}
  BY Zenon, <1>2, NoAnswerYet
<1>8. /\ responses' \in [Replicas -> Seq(Cmds)] /\ answered' \in [Cmds -> SUBSET Replicas] /\ finished' \subseteq Cmds
      /\ \A r \in Replicas : Once(cnt, requests[r], cmd_pending[r], resp_queue[r], responses'[r], Handled(answered', r))
      /\ \A c \in Cmds : IsFiniteSet(answered'[c])
      /\ \A c \in DOMAIN waiting : waiting[c] = Cardinality(answered'[c])
      /\ \A c \in Cmds : c \notin 1..cnt => answered'[c] = {}
  BY Zenon, <1>1, <1>3, <1>5, <1>6, <1>7
<1>9. ClientTypeOK' /\ OnePlace' /\ Counted' /\ Window'
  BY ZenonT(40), <1>1, <1>2, <1>3, <1>4, <1>8, BurstInv
<1>10. DoneByEnough'
  BY Zenon, <1>1, <1>2 DEF DoneByEnough
<1> QED
  BY Zenon, <1>9, <1>10 DEF ClientInv

\* An answer is handled: the replica had not answered this command before.
LEMMA AnswerHandled ==
  ASSUME ClientInv, NEW r \in Replicas, responses[r] # << >>, NEW c, c = Head(responses[r]),
         responses' = [responses EXCEPT ![r] = Tail(@)],
         answered' = [answered EXCEPT ![c] = @ \cup {r}]
  PROVE  /\ c \in Cmds /\ c \in 1..cnt
         /\ responses' \in [Replicas -> Seq(Cmds)] /\ answered' \in [Cmds -> SUBSET Replicas]
         /\ \A q \in Replicas : Once(cnt, requests[q], cmd_pending[q], resp_queue[q], responses'[q], Handled(answered', q))
         /\ \A d \in Cmds : IsFiniteSet(answered'[d])
         /\ Cardinality(answered[c]) \in Nat /\ Cardinality(answered'[c]) = Cardinality(answered[c]) + 1
         /\ \A d \in Cmds : d # c => answered'[d] = answered[d]
         /\ \A d \in Cmds : d \notin 1..cnt => answered'[d] = {}
<1>1. ClientTypeOK /\ OnePlace /\ Counted
  BY Zenon DEF ClientInv
<1>2. responses \in [Replicas -> Seq(Cmds)] /\ answered \in [Cmds -> SUBSET Replicas]
  BY Zenon, <1>1 DEF ClientTypeOK
<1>3. c \in Cmds /\ Tail(responses[r]) \in Seq(Cmds)
  BY <1>2, HeadTailProperties
<1>4. responses'[r] = Tail(responses[r]) /\ \A q \in Replicas : q # r => responses'[q] = responses[q]
  BY Zenon, <1>2
<1>5. answered'[c] = answered[c] \cup {r} /\ \A d \in Cmds : d # c => answered'[d] = answered[d]
  BY ZenonT(40), <1>2, <1>3
<1>6. responses' \in [Replicas -> Seq(Cmds)] /\ answered' \in [Cmds -> SUBSET Replicas]
  BY <1>2, <1>3
<1>7. Once(cnt, requests[r], cmd_pending[r], resp_queue[r], responses[r], Handled(answered, r))
  BY Zenon, <1>1 DEF OnePlace
<1>8. /\ c \notin Handled(answered, r) /\ c \in 1..cnt
      /\ Once(cnt, requests[r], cmd_pending[r], resp_queue[r], responses'[r], Handled(answered, r) \cup {c})
  BY ZenonT(40), <1>2, <1>4, <1>7, RespondPlaces
<1>9. r \notin answered[c]
  BY ZenonT(40), <1>3, <1>8 DEF Handled
<1>10. ASSUME NEW q \in Replicas
       PROVE  Once(cnt, requests[q], cmd_pending[q], resp_queue[q], responses'[q], Handled(answered', q))
  <2>1. CASE q = r
    <3>1. Handled(answered', r) = Handled(answered, r) \cup {c}
      BY Zenon, <1>3, <1>5 DEF Handled
    <3> QED
      BY Zenon, <1>8, <2>1, <3>1
  <2>2. CASE q # r
    <3>1. Handled(answered', q) = Handled(answered, q)
      BY Zenon, <1>3, <1>5, <2>2 DEF Handled
    <3> QED
      BY Zenon, <1>1, <1>4, <2>2, <3>1 DEF OnePlace
  <2> QED
    BY <2>1, <2>2
<1>11. /\ IsFiniteSet(answered[c]) /\ Cardinality(answered[c]) \in Nat /\ IsFiniteSet(answered'[c])
       /\ Cardinality(answered'[c]) = Cardinality(answered[c]) + 1
  <2>1. IsFiniteSet(answered[c])
    BY Zenon, <1>1, <1>3 DEF Counted
  <2>2. /\ IsFiniteSet(answered[c] \cup {r})
        /\ Cardinality(answered[c] \cup {r}) = IF r \in answered[c] THEN Cardinality(answered[c]) ELSE Cardinality(answered[c]) + 1
    BY Zenon, <2>1, FS_AddElement
  <2>3. Cardinality(answered[c]) \in Nat
    BY Zenon, <2>1, FS_CardinalityType
  <2> QED
    BY Zenon, <1>5, <1>9, <2>1, <2>2, <2>3
<1>12. \A d \in Cmds : IsFiniteSet(answered'[d])
  BY Zenon, <1>1, <1>5, <1>11 DEF Counted
<1>13. \A d \in Cmds : d \notin 1..cnt => answered'[d] = {}
  BY Zenon, <1>1, <1>5, <1>8, NoAnswerYet
<1> QED
  BY ZenonT(40), <1>3, <1>5, <1>6, <1>8, <1>10, <1>11, <1>12, <1>13

\* An answer is counted, or is one too many, or is the last one needed.
LEMMA RespondKeeps ==
  ASSUME ClientAssumptions, ClientInv, NEW r \in Replicas, Respond(r)
  PROVE  ClientInv'
<1> DEFINE c == Head(responses[r])  left == [d \in DOMAIN waiting \ {c} |-> waiting[d]]
<1>1. /\ responses[r] # << >> /\ responses' = [responses EXCEPT ![r] = Tail(@)]
      /\ answered' = [answered EXCEPT ![c] = @ \cup {r}]
      /\ UNCHANGED server
  BY Zenon DEF Respond
<1>2. \/ /\ c \notin DOMAIN waiting /\ UNCHANGED <<waiting, cnt, iter, reconfig_done, requests, finished>>
      \/ /\ c \in DOMAIN waiting /\ waiting[c] + 1 <= Needed
         /\ waiting' = [waiting EXCEPT ![c] = @ + 1]
         /\ UNCHANGED <<cnt, iter, reconfig_done, requests, finished>>
      \/ /\ c \in DOMAIN waiting /\ ~(waiting[c] + 1 <= Needed)
         /\ finished' = finished \cup {c} /\ SendBurst(left)
  BY Zenon DEF Respond
<1>3. /\ c \in Cmds /\ c \in 1..cnt
      /\ responses' \in [Replicas -> Seq(Cmds)] /\ answered' \in [Cmds -> SUBSET Replicas]
      /\ \A q \in Replicas : Once(cnt, requests[q], cmd_pending[q], resp_queue[q], responses'[q], Handled(answered', q))
      /\ \A d \in Cmds : IsFiniteSet(answered'[d])
      /\ Cardinality(answered[c]) \in Nat /\ Cardinality(answered'[c]) = Cardinality(answered[c]) + 1
      /\ \A d \in Cmds : d # c => answered'[d] = answered[d]
      /\ \A d \in Cmds : d \notin 1..cnt => answered'[d] = {}
  <2> HIDE DEF c
  <2>1. c = Head(responses[r])
    BY DEF c
  <2> QED
    BY Zenon, <1>1, <2>1, AnswerHandled
<1>4a. Cardinality(answered[c]) \in Nat /\ Cardinality(answered'[c]) = Cardinality(answered[c]) + 1
  BY Zenon, <1>3
<1>4. ClientTypeOK /\ Counted /\ DoneByEnough /\ Window /\ OnePlace
  BY Zenon DEF ClientInv
<1>5. /\ cnt \in Nat /\ max_iter_num \in Nat /\ max_async_num \in Nat /\ nfaulty \in Nat
      /\ waiting = [d \in DOMAIN waiting |-> waiting[d]] /\ DOMAIN waiting \subseteq 1..cnt /\ finished \subseteq Cmds
      /\ 1..cnt \subseteq Cmds
  BY <1>4 DEF ClientTypeOK, ClientAssumptions, Cmds
<1>6. \A d \in DOMAIN waiting : waiting[d] = Cardinality(answered[d])
  BY Zenon, <1>4 DEF Counted
<1>7. resp_queue' = resp_queue /\ cmd_pending' = cmd_pending
  BY Zenon, <1>1 DEF server
<1> DEFINE enough == IF reconfig_client THEN 2 * nfaulty ELSE nfaulty
<1>8. enough \in Nat /\ enough = Needed
  BY <1>5 DEF Needed
<1> HIDE DEF c, left
<1>9. \A d \in finished : Cardinality(answered'[d]) > enough
  <2> SUFFICES ASSUME NEW d \in finished
               PROVE  Cardinality(answered'[d]) > enough
    OBVIOUS
  <2>1. d \in Cmds /\ Cardinality(answered[d]) > enough
    BY ZenonT(40), <1>4, <1>5 DEF DoneByEnough
  <2>2. CASE d = c
    BY <1>4a, <1>8, <2>1, <2>2
  <2>3. CASE d # c
    BY Zenon, <1>3, <2>1, <2>3
  <2> QED
    BY <2>2, <2>3
<1>10. ASSUME UNCHANGED <<cnt, iter, requests, finished>>, DOMAIN waiting' = DOMAIN waiting,
              waiting' = [d \in DOMAIN waiting' |-> waiting'[d]],
              \A d \in DOMAIN waiting : waiting'[d] = Cardinality(answered'[d])
       PROVE  ClientInv'
  <2>1. ClientTypeOK'
    BY ZenonT(40), <1>3, <1>4, <1>5, <1>7, <1>10 DEF ClientTypeOK, Cmds
  <2>2. OnePlace'
    BY Zenon, <1>3, <1>7, <1>10 DEF OnePlace, Handled, Cmds
  <2>3. Counted'
    BY Zenon, <1>3, <1>10 DEF Counted, Cmds
  <2>4. Window'
    BY Zenon, <1>4, <1>10 DEF Window
  <2>5. DoneByEnough'
    BY Zenon, <1>9, <1>10 DEF DoneByEnough
  <2> QED
    BY ZenonT(40), <2>1, <2>2, <2>3, <2>4, <2>5 DEF ClientInv
<1>11. CASE c \notin DOMAIN waiting /\ UNCHANGED <<waiting, cnt, iter, reconfig_done, requests, finished>>
  <2>1. \A d \in DOMAIN waiting : waiting'[d] = Cardinality(answered'[d])
    BY Zenon, <1>3, <1>5, <1>6, <1>11
  <2> QED
    BY Zenon, <1>5, <1>10, <1>11, <2>1
<1>12. CASE /\ c \in DOMAIN waiting /\ waiting' = [waiting EXCEPT ![c] = @ + 1]
            /\ UNCHANGED <<cnt, iter, reconfig_done, requests, finished>>
  <2>1. /\ DOMAIN waiting' = DOMAIN waiting /\ waiting' = [d \in DOMAIN waiting' |-> waiting'[d]]
        /\ waiting'[c] = waiting[c] + 1 /\ \A d \in DOMAIN waiting : d # c => waiting'[d] = waiting[d]
    BY Zenon, <1>12
  <2>2. \A d \in DOMAIN waiting : waiting'[d] = Cardinality(answered'[d])
    BY ZenonT(40), <1>3, <1>5, <1>6, <1>12, <2>1
  <2> QED
    BY Zenon, <1>10, <1>12, <2>1, <2>2
<1>13. CASE c \in DOMAIN waiting /\ ~(waiting[c] + 1 <= Needed) /\ finished' = finished \cup {c} /\ SendBurst(left)
  <2>1. left = [d \in DOMAIN left |-> left[d]] /\ DOMAIN left = DOMAIN waiting \ {c} /\ \A d \in DOMAIN left : left[d] = waiting[d]
    BY DEF left
  <2>2. DOMAIN left \subseteq 1..cnt
    BY Zenon, <1>5, <2>1
  <2>3. Cardinality(DOMAIN left) <= max_async_num
    <3>1. 1 \in Int /\ cnt \in Int
      BY <1>5
    <3>2. IsFiniteSet(1..cnt)
      BY Zenon, <3>1, FS_Interval
    <3>3. IsFiniteSet(DOMAIN waiting)
      BY Zenon, <1>5, <3>2, FS_Subset
    <3>4. Cardinality(DOMAIN left) \in Nat /\ Cardinality(DOMAIN waiting) \in Nat /\ Cardinality(DOMAIN left) <= Cardinality(DOMAIN waiting)
      BY Zenon, <2>1, <3>3, FS_Subset, FS_CardinalityType
    <3>5. Cardinality(DOMAIN waiting) <= max_async_num
      BY Zenon, <1>4 DEF Window
    <3> QED
      BY <1>5, <3>4, <3>5
  <2>4. \A d \in DOMAIN left : left[d] = Cardinality(answered'[d])
    BY Zenon, <1>3, <1>5, <1>6, <2>1
  <2>5. finished' \subseteq Cmds
    BY Zenon, <1>3, <1>5, <1>13
  <2>6. ClientTypeOK' /\ OnePlace' /\ Counted' /\ Window'
    BY ZenonT(40), <1>1, <1>3, <1>4, <1>13, <2>1, <2>2, <2>3, <2>4, <2>5, BurstInv
  <2>7. Cardinality(answered'[c]) > enough
    <3>1. waiting[c] = Cardinality(answered[c]) /\ ~(waiting[c] + 1 <= Needed)
      BY Zenon, <1>6, <1>13
    <3> QED
      BY <1>4a, <1>8, <3>1
  <2>8. DoneByEnough'
    BY Zenon, <1>9, <1>13, <2>7 DEF DoneByEnough
  <2> QED
    BY Zenon, <2>6, <2>8 DEF ClientInv
<1> QED
  BY Zenon, <1>2, <1>11, <1>12, <1>13

\* A step of replica r that passes its commands on, and leaves the client alone.
LEMMA ServerKeeps ==
  ASSUME ClientInv, NEW r \in Replicas, UNCHANGED <<waiting, cnt, iter, answered, finished>>,
         NEW q \in Seq(Cmds), requests' = [requests EXCEPT ![r] = q],
         NEW p \in SUBSET Cmds, cmd_pending' = [cmd_pending EXCEPT ![r] = p],
         NEW e \in Seq(Cmds), resp_queue' = [resp_queue EXCEPT ![r] = e],
         NEW s \in Seq(Cmds), responses' = [responses EXCEPT ![r] = s],
         Once(cnt, q, p, e, s, Handled(answered, r))
  PROVE  ClientInv'
<1>1. ClientTypeOK /\ OnePlace /\ Counted /\ DoneByEnough /\ Window
  BY Zenon DEF ClientInv
<1>2. /\ requests \in [Replicas -> Seq(Cmds)] /\ responses \in [Replicas -> Seq(Cmds)]
      /\ resp_queue \in [Replicas -> Seq(Cmds)] /\ cmd_pending \in [Replicas -> SUBSET Cmds]
  BY ZenonT(40), <1>1 DEF ClientTypeOK
<1>3. requests' \in [Replicas -> Seq(Cmds)] /\ requests'[r] = q /\ \A x \in Replicas : x # r => requests'[x] = requests[x]
  BY SMTT(30), <1>2
<1>4. cmd_pending' \in [Replicas -> SUBSET Cmds] /\ cmd_pending'[r] = p /\ \A x \in Replicas : x # r => cmd_pending'[x] = cmd_pending[x]
  BY SMTT(30), <1>2
<1>5. resp_queue' \in [Replicas -> Seq(Cmds)] /\ resp_queue'[r] = e /\ \A x \in Replicas : x # r => resp_queue'[x] = resp_queue[x]
  BY SMTT(30), <1>2
<1>6. responses' \in [Replicas -> Seq(Cmds)] /\ responses'[r] = s /\ \A x \in Replicas : x # r => responses'[x] = responses[x]
  BY SMTT(30), <1>2
<1>7. ClientTypeOK'
  <2>1. /\ cnt \in Nat /\ iter \in Nat /\ cnt + iter = max_iter_num
        /\ waiting = [c \in DOMAIN waiting |-> waiting[c]] /\ DOMAIN waiting \subseteq 1..cnt
        /\ answered \in [Cmds -> SUBSET Replicas] /\ finished \subseteq Cmds
    BY ZenonT(40), <1>1 DEF ClientTypeOK
  <2> QED
    BY SMTT(30), <1>3, <1>4, <1>5, <1>6, <2>1 DEF ClientTypeOK, Cmds
<1>8. ASSUME NEW x \in Replicas
      PROVE  Once(cnt, requests'[x], cmd_pending'[x], resp_queue'[x], responses'[x], Handled(answered, x))
  <2>1. Once(cnt, requests[x], cmd_pending[x], resp_queue[x], responses[x], Handled(answered, x))
    BY Zenon, <1>1 DEF OnePlace
  <2>2. CASE x = r
    BY ZenonT(40), <1>3, <1>4, <1>5, <1>6, <2>2
  <2>3. CASE x # r
    BY ZenonT(40), <1>3, <1>4, <1>5, <1>6, <2>1, <2>3
  <2> QED
    BY <2>2, <2>3
<1>9. OnePlace'
  BY Zenon, <1>8 DEF OnePlace, Handled, Cmds
<1>10. Counted' /\ DoneByEnough' /\ Window'
  BY Zenon, <1>1 DEF Counted, DoneByEnough, Window, Cmds
<1> QED
  BY Zenon, <1>7, <1>9, <1>10 DEF ClientInv

\* The steps of a replica, and its end.
LEMMA ReplicaKeeps ==
  ASSUME ClientInv, NEW r \in Replicas, Serve(r) \/ Stop(r)
  PROVE  ClientInv'
<1> DEFINE A == Handled(answered, r)
<1>1. ClientTypeOK /\ OnePlace
  BY Zenon DEF ClientInv
<1>2. /\ requests \in [Replicas -> Seq(Cmds)] /\ responses \in [Replicas -> Seq(Cmds)]
      /\ resp_queue \in [Replicas -> Seq(Cmds)] /\ cmd_pending \in [Replicas -> SUBSET Cmds]
  BY Zenon, <1>1 DEF ClientTypeOK
<1>3. requests[r] \in Seq(Cmds) /\ responses[r] \in Seq(Cmds) /\ resp_queue[r] \in Seq(Cmds) /\ cmd_pending[r] \in SUBSET Cmds
  BY Zenon, <1>2
<1>4. /\ requests = [requests EXCEPT ![r] = requests[r]] /\ responses = [responses EXCEPT ![r] = responses[r]]
      /\ resp_queue = [resp_queue EXCEPT ![r] = resp_queue[r]] /\ cmd_pending = [cmd_pending EXCEPT ![r] = cmd_pending[r]]
  BY <1>2
<1>5. Once(cnt, requests[r], cmd_pending[r], resp_queue[r], responses[r], A)
  BY Zenon, <1>1 DEF OnePlace
<1>6. << >> \in Seq(Cmds)
  OBVIOUS
<1>7. CASE Request(r)
  <2>1. Head(requests[r]) \in Cmds /\ Tail(requests[r]) \in Seq(Cmds) /\ requests[r] # << >>
    BY <1>3, <1>7, HeadTailProperties DEF Request
  <2>2. cmd_pending[r] \cup {Head(requests[r])} \in SUBSET Cmds
    BY Zenon, <1>3, <2>1
  <2>3. Once(cnt, Tail(requests[r]), cmd_pending[r] \cup {Head(requests[r])}, resp_queue[r], responses[r], A)
    BY Zenon, <1>3, <1>5, <2>1, RequestPlaces
  <2>4. /\ requests' = [requests EXCEPT ![r] = Tail(requests[r])]
        /\ cmd_pending' = [cmd_pending EXCEPT ![r] = cmd_pending[r] \cup {Head(requests[r])}]
        /\ UNCHANGED <<waiting, cnt, iter, answered, finished>> /\ resp_queue' = resp_queue /\ responses' = responses
    BY Zenon, <1>7 DEF Request
  <2> QED
    BY ZenonT(40), <1>3, <1>4, <2>1, <2>2, <2>3, <2>4, ServerKeeps
<1>8. ASSUME NEW c \in Cmds, Execute(r, c)
      PROVE  ClientInv'
  <2>1. c \in cmd_pending[r]
    BY ZenonT(40), <1>8 DEF Execute
  <2>2. cmd_pending[r] \ {c} \in SUBSET Cmds /\ Append(resp_queue[r], c) \in Seq(Cmds)
    BY <1>3, AppendProperties
  <2>3. Once(cnt, requests[r], cmd_pending[r] \ {c}, Append(resp_queue[r], c), responses[r], A)
    BY Zenon, <1>3, <1>5, <2>1, ExecutePlaces
  <2>4. /\ cmd_pending' = [cmd_pending EXCEPT ![r] = cmd_pending[r] \ {c}]
        /\ resp_queue' = [resp_queue EXCEPT ![r] = Append(resp_queue[r], c)]
        /\ UNCHANGED <<waiting, cnt, iter, answered, finished>> /\ requests' = requests /\ responses' = responses
    BY Zenon, <1>8 DEF Execute
  <2> QED
    BY ZenonT(40), <1>3, <1>4, <2>2, <2>3, <2>4, ServerKeeps
<1>9. CASE SendResponses(r)
  <2> DEFINE s == responses[r] \o resp_queue[r]
  <2>1. s \in Seq(Cmds)
    BY SMTT(30), <1>3, ConcatProperties
  <2>2. Once(cnt, requests[r], cmd_pending[r], << >>, s, A)
    BY <1>3, <1>5, SendPlaces
  <2>3. /\ responses' = [responses EXCEPT ![r] = s] /\ resp_queue' = [resp_queue EXCEPT ![r] = << >>]
        /\ UNCHANGED <<waiting, cnt, iter, answered, finished>> /\ requests' = requests /\ cmd_pending' = cmd_pending
    BY Zenon, <1>9 DEF SendResponses
  <2> HIDE DEF s
  <2> QED
    BY ZenonT(40), <1>3, <1>4, <1>6, <2>1, <2>2, <2>3, ServerKeeps
<1>10. CASE Stop(r) /\ UNCHANGED <<requests, responses>>
  <2>1. UNCHANGED <<waiting, cnt, iter, answered, finished>> /\ cmd_pending' = cmd_pending /\ resp_queue' = resp_queue
    BY Zenon, <1>10 DEF Stop
  <2> QED
    BY ZenonT(40), <1>3, <1>4, <1>5, <1>10, <2>1, ServerKeeps
<1>11. CASE Stop(r) /\ ~UNCHANGED <<requests, responses>>
  <2>1. UNCHANGED <<waiting, cnt, iter, answered, finished>> /\ cmd_pending' = cmd_pending /\ resp_queue' = resp_queue
    BY Zenon, <1>11 DEF Stop
  <2>2. PICK k \in 0..Len(responses[r]) : responses' = [responses EXCEPT ![r] = SubSeq(responses[r], 1, k)]
    BY Zenon, <1>11 DEF Stop
  <2>3. requests' = [requests EXCEPT ![r] = << >>]
    BY Zenon, <1>11 DEF Stop
  <2>4. NoTwice(responses[r])
    BY Zenon, <1>5 DEF Once
  <2>5. SubSeq(responses[r], 1, k) \in Seq(Cmds)
    BY Zenon, <1>3, <2>4, PrefixOnce
  <2>6. Once(cnt, << >>, cmd_pending[r], resp_queue[r], SubSeq(responses[r], 1, k), A)
    BY Zenon, <1>3, <1>5, StopPlaces
  <2> QED
    BY ZenonT(40), <1>3, <1>4, <1>6, <2>1, <2>2, <2>3, <2>5, <2>6, ServerKeeps
<1> QED
  BY ZenonT(40), <1>7, <1>8, <1>9, <1>10, <1>11 DEF Serve

\* Whatever the numbers of replicas, faults, commands and commands under way, and
\* whichever replicas stop: a command is taken as done after answers of more
\* replicas than may be faulty, although client_resp_cmd_handler counts answers
\* and not replicas; and the client has max_async_num commands under way for as
\* long as it has commands to make, and never more.
THEOREM ClientCountsReplicas ==
  ASSUME ClientAssumptions
  PROVE  ClientSpec => [](DoneByEnough /\ Window)
<1>1. ClientInit => ClientInv
  <2> SUFFICES ASSUME ClientInit
               PROVE  ClientInv
    OBVIOUS
  <2>1. /\ waiting = [c \in {} |-> 0] /\ cnt = 0 /\ iter = max_iter_num
        /\ requests = [r \in Replicas |-> << >>] /\ responses = [r \in Replicas |-> << >>]
        /\ resp_queue = [r \in Replicas |-> << >>] /\ cmd_pending = [r \in Replicas |-> {}]
        /\ answered = [c \in Cmds |-> {}] /\ finished = {}
    BY Zenon DEF ClientInit
  <2>2. DOMAIN waiting = {} /\ waiting = [c \in DOMAIN waiting |-> waiting[c]]
    BY <2>1
  <2>3. Cardinality({}) = 0 /\ IsFiniteSet({})
    BY Zenon, FS_EmptySet
  <2>4. max_iter_num \in Nat /\ max_async_num \in Nat
    BY DEF ClientAssumptions
  <2>5. ClientTypeOK
    BY <2>1, <2>2, <2>4 DEF ClientTypeOK
  <2>6. OnePlace
    <3> SUFFICES ASSUME NEW r \in Replicas
                 PROVE  Once(0, << >>, {}, << >>, << >>, Handled(answered, r))
      BY Zenon, <2>1 DEF OnePlace
    <3>1. NoTwice(<< >>) /\ Elems(<< >>) = {}
      BY DEF NoTwice, Elems
    <3>2. Handled(answered, r) = {}
      BY <2>1 DEF Handled
    <3> QED
      BY ZenonT(40), <3>1, <3>2 DEF Once
  <2>7. Counted
    BY Zenon, <2>1, <2>2, <2>3 DEF Counted
  <2>8. DoneByEnough
    BY Zenon, <2>1 DEF DoneByEnough
  <2>9. Window
    BY <2>1, <2>2, <2>3, <2>4 DEF Window
  <2> QED
    BY Zenon, <2>5, <2>6, <2>7, <2>8, <2>9 DEF ClientInv
<1>2. ClientInv /\ [ClientNext]_clientVars => ClientInv'
  <2> SUFFICES ASSUME ClientInv, [ClientNext]_clientVars
               PROVE  ClientInv'
    OBVIOUS
  <2>1. CASE Start
    BY Zenon, <2>1, StartKeeps
  <2>2. ASSUME NEW r \in Replicas, Respond(r) \/ Serve(r) \/ Stop(r)
        PROVE  ClientInv'
    BY Zenon, <2>2, RespondKeeps, ReplicaKeeps
  <2>3. CASE UNCHANGED clientVars
    BY Zenon, <2>3 DEF clientVars, ClientInv, ClientTypeOK, OnePlace, Handled, Counted, DoneByEnough, Window, Cmds
  <2> QED
    BY Zenon, <2>1, <2>2, <2>3 DEF ClientNext
<1>3. ClientInv => DoneByEnough /\ Window
  BY Zenon DEF ClientInv
<1> QED
  BY <1>1, <1>2, <1>3, PTL DEF ClientSpec
=============================================================================
