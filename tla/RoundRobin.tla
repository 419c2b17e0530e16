----------------------------- MODULE RoundRobin ------------------------------
(***************************************************************************)
(* The pacemaker PMRoundRobinProposer of one replica: beats, impeachment,  *)
(* rotation of the proposer, and the end of a rotation.  Other replicas    *)
(* and consensus appear through what they call here: proposals received,   *)
(* certificates for own blocks, decisions.                                 *)
(*                                                                         *)
(* The state is the record s: one call runs through several of the         *)
(* pacemaker's functions, and each of them is an operator on s.  Blocks    *)
(* are numbered as this replica sees them; 0 is genesis, or no block.      *)
(***************************************************************************)
EXTENDS Integers, Sequences, FiniteSets, SequencesExt

CONSTANTS
  nreplicas, me,
  Throws,       \* whether on_propose and do_new_consensus may throw: a set of Booleans
  MaxBlocks, MaxBeats, MaxRotations   \* bounds

VARIABLE s
  \* proposer, rotating, timer ("none", "exp", "prop"), prop_blk,
  \* plist, rlist      callbacks of reg_proposal and reg_receive_proposal
  \* beats             pending_beats, by number
  \* last, locked      last_proposed
  \* fin, man          blocks whose promise pm_qc_finish, pm_qc_manual are
  \* waits             pm_wait_propose is registered
  \* cbs               block -> callbacks of its promise in qc_waiting
  \* rejected, full    blocks whose promise was rejected; with a majority of votes
  \* stale             blocks whose resolved promise an exception left in qc_waiting
  \* blocks            the proposers of the blocks seen
  \* decided, since    last block decided; blocks seen before the last rotate
  \* elected           closures queued by stop_rotate
  \* given, dropped    beats given out; beats whose promise will not be resolved
  \* lost              since the lock was last opened, its beat was lost to an exception
  \* rotations, up
vars == <<s>>

Replicas == 0..(nreplicas - 1)

Init == s = [proposer |-> 0, rotating |-> FALSE, timer |-> "none",
             prop_blk |-> [r \in Replicas |-> 0], plist |-> 0, rlist |-> 0,
             beats |-> <<>>, last |-> 0, locked |-> FALSE, fin |-> 0, man |-> 0, waits |-> TRUE,
             cbs |-> [b \in 0..MaxBlocks |-> <<>>], rejected |-> {}, full |-> {0}, stale |-> {},
             blocks |-> <<>>, decided |-> 0, since |-> 0,
             elected |-> IF me = 0 THEN 1 ELSE 0, given |-> 0, dropped |-> {}, lost |-> FALSE,
             rotations |-> 0, up |-> TRUE]

\* The beats among callbacks that will not run.
Drop(t, cs) == [t EXCEPT !.dropped = @ \cup {c[2] : c \in {d \in cs : d[1] = "beat"}}]

\* Blocks for which async_qc_finish gives a promise that is resolved.
Resolved(t) == t.full \cup t.stale

\* reject() of the promise that a block has in qc_waiting: its callbacks are gone.
Reject(t, b) ==
  IF b \in Resolved(t) THEN t
  ELSE [Drop(t, ToSet(t.cbs[b])) EXCEPT !.cbs[b] = <<>>, !.rejected = @ \cup {b}]

\* async_qc_finish(b).then(c), where b has no majority yet.
Await(t, b, c) ==
  IF b \in t.rejected
  THEN Drop(t, {c})
  ELSE [t EXCEPT !.cbs[b] = Append(@, c)]

\* proposer_schedule_next when the last block has no majority.
ScheduleNext(t) ==
  IF t.beats = <<>> \/ t.locked THEN t
  ELSE LET u == [Reject(t, t.fin) EXCEPT !.beats = Tail(@), !.fin = t.last, !.locked = TRUE]
       IN Await(u, t.last, <<"beat", Head(t.beats)>>)

\* What waits for an own proposal n: proposer_update_last_proposed, reg_proposal.
UpdateLastProposed(t, n) ==
  IF t.waits THEN ScheduleNext([t EXCEPT !.last = n, !.locked = FALSE, !.lost = FALSE]) ELSE t
RegProposal(t, n) ==
  [t EXCEPT !.prop_blk[me] = IF t.plist > 0 /\ @ = 0 THEN n ELSE @,
            !.plist = IF t.rotating THEN @ ELSE 0]

\* on_propose.  It throws when the new block is no higher than vheight, before
\* any of what waits for a proposal is told.  Out of the queue, a timer or a
\* queued closure the exception ends the process.
Propose(t, throws) ==
  LET n == Len(t.blocks) + 1
  IN IF throws THEN [t EXCEPT !.up = FALSE]
     ELSE UpdateLastProposed(RegProposal([t EXCEPT !.blocks = Append(@, me)], n), n)

\* do_new_consensus(x, ..).  Its vals is built from its own size before it has
\* one: that yields some vector, or throws, as the on_propose after it may.
DoNewConsensus(t, x, throws) ==
  LET u == Propose(t, throws)
      n == Len(u.blocks)
  IN IF throws THEN u ELSE Await([Reject(u, u.man) EXCEPT !.man = n], n, <<"manual", x>>)

\* rotate, with the blocks of the last rotation kept.
MutRotate(t) ==
  [Reject(Reject(t, t.fin), t.man) EXCEPT
     !.plist = @ + 1, !.rlist = @ + 1, !.rotating = TRUE,
     !.proposer = (@ + 1) % nreplicas, !.waits = FALSE, !.timer = "exp",
     !.since = Len(t.blocks), !.rotations = @ + 1]

Rotate(t) ==
  [Reject(Reject(t, t.fin), t.man) EXCEPT
     !.plist = @ + 1, !.rlist = @ + 1, !.rotating = TRUE,
     !.prop_blk = [r \in Replicas |-> 0],
     !.proposer = (@ + 1) % nreplicas, !.waits = FALSE, !.timer = "exp",
     !.since = Len(t.blocks), !.rotations = @ + 1]

StopRotate(t) ==
  [Reject(Reject(t, t.fin), t.man) EXCEPT
     !.timer = "none", !.rotating = FALSE, !.locked = FALSE, !.lost = FALSE, !.last = 0, !.waits = TRUE,
     !.elected = IF t.proposer = me THEN @ + 1 ELSE @]

(***************************************************************************)
(* What happens to the replica.                                            *)
(***************************************************************************)
\* beat(), followed by the caller's then: a beat that is resolved before beat
\* returns is proposed after it; an older one is proposed inside.
Beat(throws) ==
  /\ s.up /\ s.given < MaxBeats /\ Len(s.blocks) < MaxBlocks
  /\ ~s.rotating /\ s.proposer = me
  /\ LET n == s.given + 1
         t == [s EXCEPT !.given = n, !.beats = Append(@, n)]
         popped == [Reject(t, t.fin) EXCEPT !.beats = Tail(@), !.fin = 0]
     IN s' = IF ~t.locked /\ t.last \in Resolved(t)
             THEN IF Len(t.beats) = 1 THEN Propose([popped EXCEPT !.locked = TRUE], throws)
                                      ELSE [Propose(popped, throws) EXCEPT !.locked = TRUE]
             ELSE ScheduleNext(t)

\* beat() during a rotation, or of a replica that is not the proposer: it is
\* resolved at once, and only the proposer proposes.
BeatAtOnce(throws) ==
  /\ s.up /\ s.given < MaxBeats /\ Len(s.blocks) < MaxBlocks
  /\ s.rotating \/ s.proposer # me
  /\ LET t == [s EXCEPT !.given = @ + 1]
     IN s' = IF s.proposer = me THEN Propose(t, throws) ELSE t

\* impeach(), by the application's timer.
Impeach ==
  /\ s.up /\ ~s.rotating /\ s.rotations < MaxRotations
  /\ s' = Rotate(s)

\* on_exp_timeout: the proposer of a rotation proposes, and all go on to the
\* next one after prop_delay.
OnExpTimeout(throws) ==
  /\ s.up /\ s.timer = "exp" /\ Len(s.blocks) < MaxBlocks
  /\ s' = [(IF s.proposer = me THEN DoNewConsensus(s, 0, throws) ELSE s) EXCEPT !.timer = "prop"]

OnPropDelay ==
  /\ s.up /\ s.timer = "prop" /\ s.rotations < MaxRotations
  /\ s' = Rotate(s)

\* A proposal of another replica: reg_receive_proposal.
ReceiveProposal(r) ==
  /\ s.up /\ r # me /\ Len(s.blocks) < MaxBlocks
  /\ s' = [s EXCEPT !.blocks = Append(@, r),
                    !.prop_blk[r] = IF s.rlist > 0 /\ @ = 0 THEN Len(s.blocks) + 1 ELSE @,
                    !.rlist = IF s.rotating THEN @ ELSE 0]

\* on_consensus(b).
OnConsensus(b) ==
  /\ s.up /\ b \in (s.decided + 1)..Len(s.blocks)
  /\ LET t == [s EXCEPT !.timer = "none", !.decided = b]
     IN s' = IF t.prop_blk[t.proposer] = b THEN StopRotate(t) ELSE t

\* on_qc_finish for the own block b; its votes were counted here, or another
\* block brought its certificate.  The callbacks run in the order they came, up to
\* the k-th when that one throws (0: none does).  A message handler that led here
\* swallows the exception; out of any other callback it ends the process.
OnQcFinish(b, counted, k, swallowed) ==
  /\ s.up /\ b \in DOMAIN s.blocks /\ s.blocks[b] = me /\ b \notin s.full
  /\ Len(s.blocks) + Len(s.cbs[b]) <= MaxBlocks /\ k <= Len(s.cbs[b])
  /\ LET t == [s EXCEPT !.full = @ \cup {b}, !.stale = @ \ {b}, !.cbs[b] = <<>>]
         Proposes(u, c) == IF c[1] = "beat" THEN u.proposer = me ELSE c[2] < 3
         Run(u, c) == CASE Proposes(u, c) /\ c[1] = "beat" -> Propose(u, FALSE)
                        [] Proposes(u, c) /\ c[1] # "beat" -> DoNewConsensus(u, c[2] + 1, FALSE)
                        [] OTHER -> Drop(u, {c})
         ran == IF k = 0 THEN s.cbs[b] ELSE SubSeq(s.cbs[b], 1, k - 1)
         u == FoldSeq(LAMBDA c, a : Run(a, c), t, Reverse(ran))
         v == IF counted THEN u ELSE [u EXCEPT !.full = @ \ {b}, !.rejected = @ \ {b}]
         rest == ToSet(SubSeq(s.cbs[b], k, Len(s.cbs[b])))
     IN IF k = 0 THEN swallowed /\ s' = v
        ELSE /\ Proposes(u, s.cbs[b][k])
             /\ s' = [Drop(v, rest) EXCEPT !.stale = @ \cup {b}, !.up = swallowed,
                                           !.lost = @ \/ \E c \in rest : c[1] = "beat"]

\* The closure stop_rotate has queued: commands that wait are proposed again.
Elected(waiting, throws) ==
  /\ s.up /\ s.elected > 0 /\ Len(s.blocks) < MaxBlocks
  /\ LET t == [s EXCEPT !.elected = @ - 1]
     IN s' = IF waiting THEN DoNewConsensus(t, 0, throws) ELSE t

Next ==
  \/ Impeach \/ OnPropDelay
  \/ \E r \in Replicas : ReceiveProposal(r)
  \/ \E b \in 1..MaxBlocks : OnConsensus(b)
  \/ \E throws \in Throws :
       \/ Beat(throws) \/ BeatAtOnce(throws) \/ OnExpTimeout(throws)
       \/ \E w \in BOOLEAN : Elected(w, throws)
       \/ \E b \in 1..MaxBlocks, counted, swallowed \in BOOLEAN :
            \E k \in IF throws THEN 1..MaxBeats + 1 ELSE {0} : OnQcFinish(b, counted, k, swallowed)

Spec == Init /\ [][Next]_vars
-----------------------------------------------------------------------------
\* The lock of a proposer has a cause: a beat waits for the certificate of the
\* last block, so that the certificate unlocks it, and no rotation, election or
\* proposal of its own in between leaves it locked with nothing to wait for
\* (liveness.h:339-365, 423-430).  The one other cause is an exception: when
\* on_propose throws inside the callback of that beat (consensus.cpp:298-299) and
\* the handler of the message swallows it, the lock stays, and only a rotation or
\* a proposal of do_new_consensus opens it again.
LockedHasCause ==
  s.up /\ ~s.rotating /\ s.proposer = me /\ s.locked =>
    /\ s.fin = s.last
    /\ s.lost \/ \E c \in ToSet(s.cbs[s.fin]) : c[1] = "beat"

\* A timer runs only during a rotation: once the new proposer's block is decided
\* no old timer moves this replica on to another proposer (391-394, 410-426).
TimerOnlyWhileRotating == s.timer # "none" => s.rotating

\* A rotation ends only with the decision of a block of the current proposer
\* that was proposed after this replica turned to it, and never with an older
\* block of the same replica (331, 403, 450).
EndsWithNewProposal ==
  [][s.rotating /\ ~s'.rotating =>
       /\ s'.decided > s.since /\ s.blocks[s'.decided] = s.proposer
       /\ s'.proposer = s.proposer]_vars
=============================================================================
