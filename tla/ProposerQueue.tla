--------------------------- MODULE ProposerQueue ----------------------------
(***************************************************************************)
(* How one replica turns client commands into blocks and answers: the      *)
(* command queue handler of HotStuffBase::start_mc, the pacemaker          *)
(* PaceMakerDummyFixed (PMWaitQC::beat) and the decisions.  Consensus      *)
(* appears through its effects on this replica: a block of its own gets    *)
(* its certificate, by the votes counted here or in the proposal of        *)
(* another replica, and blocks are decided.                                *)
(*                                                                         *)
(* A command is handled when it arrives.  The handler takes all commands   *)
(* in the queue in one call, but the queue is filled by another thread, so *)
(* any of them might as well have arrived a moment later.  The cluster has *)
(* more than one replica: the own vote does not certify a block.           *)
(*                                                                         *)
(* A definition named Mut... is a faulty variant of the definition that    *)
(* follows it; nothing uses it but the mutation runs.                      *)
(***************************************************************************)
EXTENDS Integers, Sequences, FiniteSets

CONSTANTS
    Cmd,        \* commands (cmd_hash)
    Reads,      \* commands with key % 100 > 15
    Reconfigs,  \* commands with reconfig_mode >= 0
    blk_size,   \* commands in a block
    Throws,     \* whether on_propose may throw: a set of Booleans
    MaxSubmit,  \* bound: how often a command is sent to this replica
    MaxElsewhere, \* bound: how often a command is decided in blocks of other replicas
    MaxRotate   \* bound: rotations to or from this replica

\* What the proofs assume of the constants.
Assumptions ==
    /\ IsFiniteSet(Cmd) /\ Reads \subseteq Cmd /\ Reconfigs \subseteq Cmd
    /\ blk_size \in Nat \ {0}
    /\ Throws \subseteq BOOLEAN /\ FALSE \in Throws
    /\ {MaxSubmit, MaxElsewhere, MaxRotate} \subseteq Nat

VARIABLES
    submitted,     \* command -> how often it has arrived
    answers,       \* command -> how often its callback has been called
    decision_waiting,
    buffer,        \* cmd_pending_buffer
    pending_beats, \* the batches of the beats that wait for their turn
    armed,         \* the batch of the beat that waits for a certificate, or << >>
    locked,        \* PMWaitQC::locked
    blocks,        \* the batches proposed; last_proposed is the last, or genesis
    full,          \* own blocks with voted.size() >= nmajority
    known,         \* own blocks whose certificate has been seen
    decided,       \* own blocks decided
    elsewhere,     \* command -> decisions of it in blocks of other replicas
    lost,          \* the batches whose beat was resolved and that were not proposed
    leads,         \* the pacemaker's proposer is this replica
    rotations,
    up             \* no exception has ended the process

vars == <<submitted, answers, decision_waiting, buffer, pending_beats, armed, locked, blocks,
          full, known, decided, elsewhere, lost, leads, rotations, up>>

last_proposed == Len(blocks)

Init ==
    /\ submitted = [c \in Cmd |-> 0] /\ answers = [c \in Cmd |-> 0]
    /\ elsewhere = [c \in Cmd |-> 0]
    /\ decision_waiting = {} /\ decided = {}
    /\ buffer = << >> /\ pending_beats = << >> /\ armed = << >>
    /\ blocks = << >> /\ lost = << >>
    /\ locked = FALSE
    /\ full = {0} /\ known = {0}
    /\ leads \in BOOLEAN
    /\ rotations = 0
    /\ up = TRUE

---------------------------------------------------------------------------
\* The state of PMWaitQC and what has become of the batches given to it.
Pace == [beats |-> pending_beats, armed |-> armed, locked |-> locked,
         blocks |-> blocks, lost |-> lost]

SetPace(p) ==
    /\ pending_beats' = p.beats /\ armed' = p.armed /\ locked' = p.locked
    /\ blocks' = p.blocks /\ lost' = p.lost

\* schedule_next when the last own block has no certificate here yet: the next
\* beat waits for it (async_qc_finish).
Arm(p) == IF p.beats # << >> /\ ~p.locked
          THEN [p EXCEPT !.beats = Tail(@), !.armed = Head(p.beats), !.locked = TRUE]
          ELSE p

\* The beat's promise is resolved.  If this replica is the proposer, on_propose
\* makes the batch a block, and update_last_proposed arms the next beat, unless
\* it throws before that.
Resolve(p, batch, throws) ==
    IF leads /\ ~throws
    THEN Arm([p EXCEPT !.blocks = Append(@, batch), !.locked = FALSE])
    ELSE [p EXCEPT !.lost = Append(@, batch)]

\* beat() for a batch: it is resolved at once when no other beat is on its way
\* and the last own block has its majority of votes here.
Beat(p, batch, throws) ==
    LET q == [p EXCEPT !.beats = Append(@, batch)]
    IN  IF ~p.locked /\ last_proposed \in full
        THEN Resolve([q EXCEPT !.beats = Tail(@), !.locked = TRUE], Head(q.beats), throws)
        ELSE Arm(q)

\* cmd_pending_buffer holds a block's worth of commands.
BlockWorth(pending) == Len(pending) >= blk_size

\* The commands of S whose callback is called by a decision, and is then erased.
MutAnswered(S) == S
Answered(S) == S \cap decision_waiting

\* Its callback is called and erased by do_decide_read_only or send_reconfig_ack.
AnsweredAtOnce(c) == c \in Reads \cup Reconfigs

---------------------------------------------------------------------------
\* A command arrives and is handled.  A duplicate of a waiting command is
\* answered and handled like any other; a reconfiguration is answered by
\* send_reconfig_ack, a read by do_decide_read_only, and a write is buffered if
\* this replica is the proposer, and forgotten otherwise.
ExecCommand(c, throws) ==
    LET buffered == IF leads /\ c \notin Reads THEN Append(buffer, c) ELSE buffer
        beat == leads /\ BlockWorth(buffered)
        atOnce == AnsweredAtOnce(c)
    IN  /\ up
        /\ submitted[c] < MaxSubmit /\ (throws => beat)
        /\ submitted' = [submitted EXCEPT ![c] = @ + 1]
        /\ answers' = [answers EXCEPT ![c] = @ + (IF c \in decision_waiting THEN 1 ELSE 0)
                                               + (IF atOnce THEN 1 ELSE 0)]
        /\ decision_waiting' = IF atOnce THEN decision_waiting \ {c} ELSE decision_waiting \cup {c}
        /\ buffer' = IF beat THEN SubSeq(buffered, blk_size + 1, Len(buffered)) ELSE buffered
        /\ SetPace(IF beat THEN Beat(Pace, SubSeq(buffered, 1, blk_size), throws) ELSE Pace)
        /\ up' = ~(beat /\ ~locked /\ last_proposed \in full /\ throws)
        /\ UNCHANGED <<full, known, decided, elsewhere, leads, rotations>>

\* The armed beat waits in qc_waiting for the certificate of b.
MutAwaits(b) == armed # << >>
Awaits(b) == armed # << >> /\ b = last_proposed

\* on_qc_finish for the own block b, in on_receive_vote (the majority is reached
\* here) or in on_receive_proposal of a block that carries b's certificate.  An
\* exception of on_propose ends the message handler only.
OnQcFinish(b, counted, throws) ==
    /\ up
    /\ b \in 1 .. last_proposed
    /\ (counted => b \notin full) /\ (throws => Awaits(b))
    /\ full' = IF counted THEN full \cup {b} ELSE full
    /\ known' = known \cup {b}
    /\ SetPace(IF Awaits(b)
               THEN Resolve([Pace EXCEPT !.armed = << >>], armed, throws)
               ELSE Pace)
    /\ UNCHANGED <<submitted, answers, decision_waiting, buffer, decided, elsewhere, leads,
                   rotations, up>>

\* do_decide for every command of own block b.  decide_after_mc may run for one
\* height before it runs for a lower one, and it takes the block this replica was
\* first delivered at the height, so neither the order nor a certificate is certain.
Decide(b) ==
    LET S == Answered({blocks[b][i] : i \in DOMAIN blocks[b]})
    IN  /\ up
        /\ b \in (1 .. last_proposed) \ decided
        /\ decided' = decided \cup {b}
        /\ answers' = [c \in Cmd |-> answers[c] + IF c \in S THEN 1 ELSE 0]
        /\ decision_waiting' = decision_waiting \ S
        /\ UNCHANGED <<submitted, buffer, pending_beats, armed, locked, blocks, full,
                       known, elsewhere, lost, leads, rotations, up>>

\* do_decide for a command in the block of another replica, to which the client
\* has sent it too.
DecideElsewhere(c) ==
    LET S == Answered({c})
    IN  /\ up
        /\ c \notin Reads
        /\ elsewhere[c] < MaxElsewhere
        /\ elsewhere' = [elsewhere EXCEPT ![c] = @ + 1]
        /\ answers' = [answers EXCEPT ![c] = @ + Cardinality(S)]
        /\ decision_waiting' = decision_waiting \ S
        /\ UNCHANGED <<submitted, buffer, pending_beats, armed, locked, blocks, full,
                       known, decided, lost, leads, rotations, up>>

\* PaceMakerDummyFixed::rotate, when it changes whether this replica proposes.
Rotate ==
    /\ up
    /\ rotations < MaxRotate
    /\ rotations' = rotations + 1
    /\ leads' = ~leads
    /\ UNCHANGED <<submitted, answers, decision_waiting, buffer, pending_beats, armed, locked,
                   blocks, full, known, decided, elsewhere, lost, up>>

Next ==
    \/ \E c \in Cmd, throws \in Throws : ExecCommand(c, throws)
    \/ \E b \in 1 .. last_proposed, counted \in BOOLEAN, throws \in Throws :
          OnQcFinish(b, counted, throws)
    \/ \E b \in 1 .. last_proposed : Decide(b)
    \/ \E c \in Cmd : DecideElsewhere(c)
    \/ Rotate

Spec == Init /\ [][Next]_vars

---------------------------------------------------------------------------
(***************************************************************************)
(* Properties                                                              *)
(***************************************************************************)
Batch == Seq(Cmd) \ {<< >>}

\* The type of the state.
TypeOK ==
    /\ submitted \in [Cmd -> Nat] /\ elsewhere \in [Cmd -> Nat] /\ answers \in [Cmd -> Nat]
    /\ decision_waiting \subseteq Cmd
    /\ buffer \in Seq(Cmd) /\ Len(buffer) < blk_size
    /\ pending_beats \in Seq(Batch) /\ blocks \in Seq(Batch) /\ lost \in Seq(Batch)
    /\ armed \in Seq(Cmd)
    /\ {locked, leads, up} \subseteq BOOLEAN
    /\ 0 \in full /\ full \subseteq known /\ known \subseteq 0 .. last_proposed
    /\ decided \subseteq 1 .. last_proposed
    /\ rotations \in 0 .. MaxRotate

\* A replica never has two blocks of its own without a certificate: PMWaitQC beats
\* only when the last block proposed by itself has its QC, whatever queues up and
\* whoever the proposer becomes in between.
OneUncertified == \A b \in 1 .. last_proposed - 1 : b \in known

\* A beat that waits its turn has another one before it that waits for a
\* certificate; without one it would wait for ever.  Only a beat that was resolved
\* without a proposal leaves pending_beats stranded.
NoStrandedBeat == pending_beats # << >> => armed # << >> \/ lost # << >>

\* Every command sent to the replica is answered exactly once, or is waiting:
\* duplicates, decisions of one command in several blocks, reads and
\* reconfigurations neither miss a callback nor call one twice.
AnsweredOnce ==
    \A c \in Cmd : answers[c] + (IF c \in decision_waiting THEN 1 ELSE 0) = submitted[c]

\* The beats of PMWaitQC take turns: one waits only behind a locked pacemaker, the
\* pacemaker is locked for the beat that waits for a certificate or for one that
\* was resolved without a proposal, and no beat can replace one that waits.
InTurn(p) ==
    /\ p.beats # << >> => p.locked
    /\ p.locked => p.armed # << >> \/ p.lost # << >>
    /\ p.armed # << >> => p.locked

\* "When promise is resolved, the replica should propose the command" (beat).
ResolvedIsProposed == lost = << >>
=============================================================================
