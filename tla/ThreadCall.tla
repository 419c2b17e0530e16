----------------------------- MODULE ThreadCall ------------------------------
(***************************************************************************)
(* salticidae's ThreadCall: other threads hand closures to the thread that *)
(* runs an event loop, with async_call, or with call, which waits on a     *)
(* ThreadNotifier for the result.  The loop's handler takes up to Burst    *)
(* closures at a time from an MPSCQueueEventDriven.  stop() makes the rest *)
(* fail with NOT_AVAIL, and a closure may throw.                           *)
(***************************************************************************)
EXTENDS Naturals, Sequences, FiniteSets

CONSTANTS
  Callers,   \* threads that make calls
  MaxCalls,  \* bound on the calls of each
  Burst      \* burst_size

\* What the proofs assume of the constants.
Assumptions == MaxCalls \in Nat /\ Burst \in Nat \ {0}

VARIABLES
  queue,    \* a first-in first-out queue, as FifoQueue promises it
  wait_sig, \* TRUE: the next producer has to wake the consumer
  nfd,      \* the eventfd of NotifyFd is readable
  at,       \* per caller: where it is
  made,     \* per caller: how many calls it has made
  loop,     \* the loop thread: "idle", "reset", "arm", "run", "notify"
  cnt,      \* closures run in this round of the handler
  stopped,
  result    \* per caller: what the notifier of its call() holds
vars == <<queue, wait_sig, nfd, at, made, loop, cnt, stopped, result>>

\* The accesses of MPSCQueueEventDriven and MPMCQueueEventDriven to what their
\* producers and consumers share, each of them atomic.
Put(x) == queue' = Append(queue, x) /\ UNCHANGED <<wait_sig, nfd>>
Take == queue' = Tail(queue) /\ UNCHANGED <<wait_sig, nfd>>
\* wait_sig.exchange(false) of a producer, exchange(true) of a consumer.
Disarm == wait_sig' = FALSE /\ UNCHANGED <<queue, nfd>>
Arm == wait_sig' = TRUE /\ UNCHANGED <<queue, nfd>>
\* NotifyFd: write makes the eventfd readable, read clears it.
Notify == nfd' = TRUE /\ UNCHANGED <<queue, wait_sig>>
Reset == nfd' = FALSE /\ UNCHANGED <<queue, wait_sig>>

\* A handle: the caller, and whether it waits for the result.
Handles == Callers \X BOOLEAN

(* The types, in particular the bound on a round of the handler.           *)
TypeOK ==
  /\ queue \in Seq(Handles) /\ wait_sig \in BOOLEAN /\ nfd \in BOOLEAN
  /\ at \in [Callers -> {"idle", "signal", "notify", "wait"}]
  /\ made \in [Callers -> 0 .. MaxCalls]
  /\ loop \in {"idle", "reset", "arm", "run", "notify"} /\ cnt \in 0 .. Burst - 1
  /\ stopped \in BOOLEAN
  /\ result \in [Callers -> {"none", "waits", "done", "error"}]

Init ==
  /\ queue = <<>> /\ wait_sig = TRUE /\ nfd = FALSE
  /\ at = [c \in Callers |-> "idle"] /\ made = [c \in Callers |-> 0]
  /\ loop = "idle" /\ cnt = 0 /\ stopped = FALSE
  /\ result = [c \in Callers |-> "none"]

loopVars == <<loop, cnt, stopped>>

\* call or async_call: put a handle in the queue ...
Call(c, sync) ==
  /\ at[c] = "idle" /\ made[c] < MaxCalls
  /\ made' = [made EXCEPT ![c] = @ + 1]
  /\ at' = [at EXCEPT ![c] = "signal"]
  /\ result' = [result EXCEPT ![c] = IF sync THEN "waits" ELSE "none"]
  /\ Put(<<c, sync>>)
  /\ UNCHANGED loopVars

\* Where the caller goes after its enqueue: call waits, async_call returns.
After(c) == IF result[c] = "none" THEN "idle" ELSE "wait"

\* ... test and clear wait_sig ...
Signal(c) ==
  /\ at[c] = "signal"
  /\ at' = [at EXCEPT ![c] = IF wait_sig THEN "notify" ELSE After(c)]
  /\ Disarm
  /\ UNCHANGED <<made, result, loopVars>>

\* ... and wake the loop.
Wake(c) ==
  /\ at[c] = "notify"
  /\ at' = [at EXCEPT ![c] = After(c)]
  /\ Notify
  /\ UNCHANGED <<made, result, loopVars>>

\* ThreadNotifier::wait returns.
Return(c) ==
  /\ at[c] = "wait" /\ result[c] # "waits"
  /\ at' = [at EXCEPT ![c] = "idle"]
  /\ result' = [result EXCEPT ![c] = "none"]
  /\ UNCHANGED <<queue, wait_sig, nfd, made, loopVars>>

\* The event loop finds the eventfd readable and calls the handler.
Poll ==
  /\ loop = "idle" /\ nfd
  /\ loop' = "reset"
  /\ UNCHANGED <<queue, wait_sig, nfd, at, made, cnt, stopped, result>>

ResetFd ==
  /\ loop = "reset" /\ loop' = "arm"
  /\ Reset
  /\ UNCHANGED <<at, made, cnt, stopped, result>>

ArmSig ==
  /\ loop = "arm" /\ loop' = "run" /\ cnt' = 0
  /\ Arm
  /\ UNCHANGED <<at, made, stopped, result>>

\* After a closure: another one, or a new round when the burst is over.
NextRound == IF cnt + 1 = Burst THEN "notify" ELSE "run"

\* A closure that throws leaves its caller without a result.
MutExec ==
  /\ loop = "run" /\ queue # <<>>
  /\ \E res \in IF stopped THEN {"error"} ELSE {"done", "error"} :
       result' = IF Head(queue)[2] /\ res = "done" THEN [result EXCEPT ![Head(queue)[1]] = res] ELSE result
  /\ Take
  /\ loop' = NextRound /\ cnt' = (cnt + 1) % Burst
  /\ UNCHANGED <<at, made, stopped>>

\* Run one closure; it may throw, and after stop() it is not run at all.
\* Either way the waiting caller is given a result.
Exec ==
  /\ loop = "run" /\ queue # <<>>
  /\ \E res \in IF stopped THEN {"error"} ELSE {"done", "error"} :
       result' = IF Head(queue)[2] THEN [result EXCEPT ![Head(queue)[1]] = res] ELSE result
  /\ Take
  /\ loop' = NextRound /\ cnt' = (cnt + 1) % Burst
  /\ UNCHANGED <<at, made, stopped>>

Drained ==
  /\ loop = "run" /\ queue = <<>>
  /\ loop' = "idle"
  /\ UNCHANGED <<queue, wait_sig, nfd, at, made, cnt, stopped, result>>

\* func returned true: the handler wakes its own loop again.
Again ==
  /\ loop = "notify" /\ loop' = "idle"
  /\ Notify
  /\ UNCHANGED <<at, made, cnt, stopped, result>>

\* stop(), by the loop's own thread (disp_error_cb of ConnPool).
Stop ==
  /\ ~stopped /\ loop = "idle"
  /\ stopped' = TRUE
  /\ UNCHANGED <<queue, wait_sig, nfd, at, made, loop, cnt, result>>

LoopStep == Poll \/ ResetFd \/ ArmSig \/ Exec \/ Drained \/ Again
CallerStep(c) == Signal(c) \/ Wake(c) \/ Return(c)

Next ==
  \/ \E c \in Callers : (\E sync \in BOOLEAN : Call(c, sync)) \/ CallerStep(c)
  \/ LoopStep \/ Stop

Spec == Init /\ [][Next]_vars

(* No wake-up is lost: with a closure in the queue the loop is awake, or   *)
(* its eventfd is readable, or the producer that will write to it is on    *)
(* its way (the case the comment in reg_handler argues about).             *)
NoLostWakeup ==
  queue # <<>> =>
    \/ loop # "idle" \/ nfd
    \/ \E c \in Callers : at[c] = "notify"
    \/ wait_sig /\ \E c \in Callers : at[c] = "signal"
====
