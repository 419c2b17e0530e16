------------------------------ MODULE VeriPool -------------------------------
(***************************************************************************)
(* The pool that verifies signatures (hotstuff/task.h): the main thread    *)
(* registers a promise for a task and puts the task in in_queue, worker    *)
(* threads verify it and put it in out_queue, and the main loop's handler  *)
(* resolves and erases the promise.  in_queue is shared by all workers     *)
(* (MPMCQueueEventDriven), out_queue has one consumer.                     *)
(***************************************************************************)
EXTENDS Naturals, Sequences, SequencesExt, FiniteSets

CONSTANTS
  Workers,
  Tasks,    \* addresses of tasks
  Valid,    \* the tasks whose signatures are right
  MaxVerify,\* bound on the calls of verify
  Burst     \* burst_size

VARIABLES
  inq, inSig, inFd, outq, outSig, outFd,
  main,     \* where the main thread is
  wk,       \* per worker: where it is
  task,     \* per worker: the task it works on
  cnt,      \* per worker, and for main: what is left of its burst
  pms,      \* the tasks with a promise that is not resolved
  verdict,  \* what each promise was last resolved with
  asked,    \* how often verify was called
  damaged   \* in_queue has lost an item between two of its consumers
vars == <<inq, inSig, inFd, outq, outSig, outFd, main, wk, task, cnt, pms, verdict, asked, damaged>>

\* Of each queue, as in ThreadCall: its items, wait_sig and the eventfd.
inVars == <<inq, inSig, inFd>>
outVars == <<outq, outSig, outFd>>

PoolThreads == Workers \cup {"main"}
None == "none"
Answer(t) == IF t \in Valid THEN "valid" ELSE "invalid"

Init ==
  /\ inq = <<>> /\ inSig = TRUE /\ inFd = FALSE /\ outq = <<>> /\ outSig = TRUE /\ outFd = FALSE
  /\ main = "idle" /\ wk = [w \in Workers |-> "idle"]
  /\ task = [w \in Workers |-> None] /\ cnt = [t \in PoolThreads |-> 0]
  /\ pms = {} /\ verdict = [t \in Tasks |-> None] /\ asked = 0 /\ damaged = FALSE

-----------------------------------------------------------------------------
(* The main thread                                                         *)

MainAt(from, to) == main = from /\ main' = to

\* verify(task): the promise first, then the queue.
Verify(t) ==
  /\ MainAt("idle", "signal") /\ asked < MaxVerify /\ t \notin pms
  /\ asked' = asked + 1
  /\ pms' = pms \cup {t} /\ verdict' = [verdict EXCEPT ![t] = None]
  /\ inq' = Append(inq, t) /\ UNCHANGED <<inSig, inFd>>
  /\ UNCHANGED <<outVars, wk, task, cnt, damaged>>

VerifySignal ==
  /\ MainAt("signal", IF inSig THEN "notify" ELSE "idle")
  /\ inSig' = FALSE /\ UNCHANGED <<inq, inFd>>
  /\ UNCHANGED <<outVars, wk, task, cnt, pms, verdict, asked, damaged>>

VerifyNotify ==
  /\ MainAt("notify", "idle")
  /\ inFd' = TRUE /\ UNCHANGED <<inq, inSig>>
  /\ UNCHANGED <<outVars, wk, task, cnt, pms, verdict, asked, damaged>>

OutReset ==
  /\ MainAt("idle", "arm") /\ outFd
  /\ outFd' = FALSE /\ UNCHANGED <<outq, outSig>>
  /\ UNCHANGED <<inVars, wk, task, cnt, pms, verdict, asked, damaged>>

OutArm ==
  /\ MainAt("arm", "resolve")
  /\ cnt' = [cnt EXCEPT !["main"] = Burst]
  /\ outSig' = TRUE /\ UNCHANGED <<outq, outFd>>
  /\ UNCHANGED <<inVars, wk, task, pms, verdict, asked, damaged>>

\* Resolve the promise of the task and erase it.
Resolve ==
  /\ outq # <<>>
  /\ LET t == Head(outq) IN
       /\ pms' = pms \ {t}
       /\ verdict' = [verdict EXCEPT ![t] = Answer(t)]
  /\ outq' = Tail(outq) /\ UNCHANGED <<outSig, outFd>>
  /\ cnt' = [cnt EXCEPT !["main"] = @ - 1]
  /\ MainAt("resolve", IF cnt["main"] = 1 THEN "again" ELSE "resolve")
  /\ UNCHANGED <<inVars, wk, task, asked, damaged>>

OutDrained ==
  /\ MainAt("resolve", "idle") /\ outq = <<>>
  /\ UNCHANGED <<inVars, outVars, wk, task, cnt, pms, verdict, asked, damaged>>

OutAgain ==
  /\ MainAt("again", "idle")
  /\ outFd' = TRUE /\ UNCHANGED <<outq, outSig>>
  /\ UNCHANGED <<inVars, wk, task, cnt, pms, verdict, asked, damaged>>

MainStep ==
  VerifySignal \/ VerifyNotify \/ OutReset \/ OutArm \/ Resolve \/ OutDrained \/ OutAgain

-----------------------------------------------------------------------------
(* A worker                                                                *)

At(w, from, to) == wk[w] = from /\ wk' = [wk EXCEPT ![w] = to]

\* epoll reports the eventfd to every worker's loop that polls it.
Poll(w) ==
  /\ At(w, "idle", "reset") /\ inFd
  /\ UNCHANGED <<inVars, outVars, main, task, cnt, pms, verdict, asked, damaged>>

\* Only the worker whose read succeeds goes on.
InReset(w) ==
  /\ At(w, "reset", IF inFd THEN "arm" ELSE "idle")
  /\ inFd' = FALSE /\ UNCHANGED <<inq, inSig>>
  /\ UNCHANGED <<outVars, main, task, cnt, pms, verdict, asked, damaged>>

InArm(w) ==
  /\ At(w, "arm", "take")
  /\ cnt' = [cnt EXCEPT ![w] = Burst]
  /\ inSig' = TRUE /\ UNCHANGED <<inq, inFd>>
  /\ UNCHANGED <<outVars, main, task, pms, verdict, asked, damaged>>

InTake(w) ==
  /\ At(w, "take", "verified") /\ inq # <<>>
  /\ task' = [task EXCEPT ![w] = Head(inq)]
  /\ inq' = Tail(inq) /\ UNCHANGED <<inSig, inFd>>
  /\ UNCHANGED <<outVars, main, cnt, pms, verdict, asked, damaged>>

\* With two workers in MPMCQueue::try_dequeue an item may be lost: see the part
\* "loss" of Network.
InDamage(w) ==
  /\ wk[w] = "take" /\ \E v \in Workers \ {w} : wk[v] = "take"
  /\ damaged' = TRUE /\ \E k \in DOMAIN inq : inq' = RemoveAt(inq, k)
  /\ UNCHANGED <<inSig, inFd, outVars, main, wk, task, cnt, pms, verdict, asked>>

InDrained(w) ==
  /\ At(w, "take", "idle") /\ inq = <<>>
  /\ UNCHANGED <<inVars, outVars, main, task, cnt, pms, verdict, asked, damaged>>

\* task->verify() is done: hand the task to the main thread.
OutPut(w) ==
  /\ At(w, "verified", "out_signal")
  /\ outq' = Append(outq, task[w]) /\ UNCHANGED <<outSig, outFd>>
  /\ task' = [task EXCEPT ![w] = None]
  /\ UNCHANGED <<inVars, main, cnt, pms, verdict, asked, damaged>>

\* Where a worker goes after a task: the next one, or a new round.
EndOfTask(w) == IF cnt[w] = 1 THEN "again" ELSE "take"

OutSignal(w) ==
  /\ At(w, "out_signal", IF outSig THEN "out_notify" ELSE EndOfTask(w))
  /\ outSig' = FALSE /\ UNCHANGED <<outq, outFd>>
  /\ cnt' = [cnt EXCEPT ![w] = IF outSig THEN @ ELSE @ - 1]
  /\ UNCHANGED <<inVars, main, task, pms, verdict, asked, damaged>>

OutNotify(w) ==
  /\ At(w, "out_notify", EndOfTask(w))
  /\ outFd' = TRUE /\ UNCHANGED <<outq, outSig>>
  /\ cnt' = [cnt EXCEPT ![w] = @ - 1]
  /\ UNCHANGED <<inVars, main, task, pms, verdict, asked, damaged>>

InAgain(w) ==
  /\ At(w, "again", "idle")
  /\ inFd' = TRUE /\ UNCHANGED <<inq, inSig>>
  /\ UNCHANGED <<outVars, main, task, cnt, pms, verdict, asked, damaged>>

WorkerStep(w) ==
  \/ Poll(w) \/ InReset(w) \/ InArm(w) \/ InTake(w) \/ InDrained(w)
  \/ OutPut(w) \/ OutSignal(w) \/ OutNotify(w) \/ InAgain(w)

Next == (\E t \in Tasks : Verify(t)) \/ MainStep \/ \E w \in Workers : WorkerStep(w) \/ InDamage(w)

Spec == Init /\ [][Next]_vars

-----------------------------------------------------------------------------

(* A task with a promise is in one place, a queue or a worker, and no      *)
(* other task is: pms.find on a task from out_queue, whose result is       *)
(* dereferenced at once, succeeds, and a promise is resolved once, never   *)
(* with the verdict of an earlier task of its address.  This holds as long *)
(* as two workers have not damaged in_queue.                               *)
Count(q, t) == Cardinality({k \in DOMAIN q : q[k] = t})
OnePlace ==
  ~damaged => \A t \in Tasks :
    Count(inq, t) + Count(outq, t) + Cardinality({w \in Workers : task[w] = t})
      = IF t \in pms THEN 1 ELSE 0
====
