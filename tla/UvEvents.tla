------------------------------ MODULE UvEvents --------------------------------
(***************************************************************************)
(* The event objects of salticidae/event.h (FdEvent, TimerEvent, SigEvent, *)
(* CheckEvent and TimedFdEvent) and the libuv handles under them, in the   *)
(* thread of one event loop.  The program makes events, moves them from    *)
(* variable to variable, adds, deletes, clears and destroys them, in       *)
(* callbacks or between them; libuv finds the object of a handle that      *)
(* fires through handle->data.  A closed handle is freed by a later close  *)
(* callback.  The loop is freed with the last EventContext that refers to  *)
(* it.  The variables of a behaviour all have the same class.              *)
(***************************************************************************)
EXTENDS Naturals, FiniteSetTheorems, TLAPS

CONSTANTS
  EventSlots, \* variables that hold an event
  MaxEvents   \* bound on the events made

PiecesOf == [FdEvent |-> {"fd"}, TimerEvent |-> {"timer"}, SigEvent |-> {"sig"},
          CheckEvent |-> {"check"}, TimedFdEvent |-> {"fd", "timer"}]
Classes == DOMAIN PiecesOf
Pieces == UNION {PiecesOf[c] : c \in Classes}
Handles == 1..(2 * MaxEvents)
NoHandle == 0

ASSUME MaxEventsAssumption == MaxEvents \in Nat

VARIABLES
  class,   \* the class of the variables
  ev,      \* slot -> [h: its handles, ec: it holds the EventContext, set: callback]
  st,      \* handle -> "none", "stopped", "active", "closing" or "freed"
  data,    \* handle -> handle->data, the slot it is to call back into
  armed,   \* slot -> added, and neither deleted nor expired since (history)
  ran,     \* the slot whose callback runs, or NoHandle
  main_ec, \* the program itself refers to the loop
  loop     \* "open" or "freed"
eventVars == <<class, ev, st, data, armed, ran, main_ec, loop>>

Empty == [h |-> [p \in Pieces |-> NoHandle], ec |-> FALSE, set |-> FALSE]

EventInit ==
  /\ class \in Classes
  /\ ev = [s \in EventSlots |-> Empty]
  /\ st = [h \in Handles |-> "none"]
  /\ data = [h \in Handles |-> NoHandle]
  /\ armed = [s \in EventSlots |-> FALSE]
  /\ ran = NoHandle /\ main_ec = TRUE /\ loop = "open"

HandlesOf(e) == {e.h[p] : p \in Pieces} \ {NoHandle}
Closed(S, H) == [h \in Handles |-> IF h \in H THEN "closing" ELSE S[h]]
Stop(S, H) == [h \in Handles |-> IF h \in H /\ S[h] = "active" THEN "stopped" ELSE S[h]]
Start(S, H) == [h \in Handles |-> IF h \in H THEN "active" ELSE S[h]]

\* The handles given to slot d know it by its address.
Pointing(D, e, d) == [h \in Handles |-> IF h \in HandlesOf(e) THEN d ELSE D[h]]

\* ~_event_context_deleter: when no EventContext is left, the walk closes every
\* handle that is not closing yet, and uv_run runs the close callbacks.
Loop(E, m, S) ==
  LET last == ~m /\ \A s \in EventSlots : ~E[s].ec
  IN /\ loop' = IF last THEN "freed" ELSE loop
     /\ st' = IF last THEN [h \in Handles |-> IF S[h] = "none" THEN "none" ELSE "freed"] ELSE S

---------------------------------------------------------------------------
(* What the classes have in common.                                        *)

\* Construct a temporary and move it into s: what s had is cleared.
Construct(s) ==
  LET made == Cardinality({h \in Handles : st[h] # "none"})
      e == [h |-> [p \in Pieces |-> IF p \notin PiecesOf[class] THEN NoHandle
                                     ELSE IF p = "timer" THEN made + Cardinality(PiecesOf[class])
                                     ELSE made + 1],
            ec |-> TRUE, set |-> TRUE]
      old == HandlesOf(ev[s])
  IN /\ main_ec /\ made < MaxEvents * Cardinality(PiecesOf[class])
     /\ ev' = [ev EXCEPT ![s] = e]
     /\ data' = Pointing(data, e, s)
     /\ Loop(ev', main_ec, [h \in Handles |-> IF h \in HandlesOf(e) THEN "stopped"
                                              ELSE Closed(st, old)[h]])
     /\ armed' = [armed EXCEPT ![s] = FALSE]
     /\ ran' = NoHandle
     /\ UNCHANGED <<class, main_ec>>

\* The address in the handles is not brought up to date.
MutMoved(d, s) ==
  /\ d # s
  /\ ev' = [ev EXCEPT ![d] = ev[s], ![s] = Empty]
  /\ Loop(ev', main_ec, Closed(st, HandlesOf(ev[d])))
  /\ armed' = [armed EXCEPT ![d] = armed[s], ![s] = FALSE]
  /\ ran' = NoHandle
  /\ UNCHANGED <<class, data, main_ec>>

\* d = std::move(s): a temporary takes s over, then swaps with d and clears
\* what d had.
Moved(d, s) ==
  /\ d # s
  /\ ev' = [ev EXCEPT ![d] = ev[s], ![s] = Empty]
  /\ data' = Pointing(data, ev[s], d)
  /\ Loop(ev', main_ec, Closed(st, HandlesOf(ev[d])))
  /\ armed' = [armed EXCEPT ![d] = armed[s], ![s] = FALSE]
  /\ ran' = NoHandle
  /\ UNCHANGED <<class, main_ec>>

\* clear(): the handle is stopped and closed; the EventContext stays.
Cleared(s) ==
  /\ ev' = [ev EXCEPT ![s] = [Empty EXCEPT !.ec = ev[s].ec]]
  /\ st' = Closed(st, HandlesOf(ev[s]))
  /\ armed' = [armed EXCEPT ![s] = FALSE]
  /\ ran' = NoHandle
  /\ UNCHANGED <<class, data, main_ec, loop>>

\* The destructor: clear(), then the EventContext goes.
Destroy(s) ==
  /\ ev' = [ev EXCEPT ![s] = Empty]
  /\ Loop(ev', main_ec, Closed(st, HandlesOf(ev[s])))
  /\ armed' = [armed EXCEPT ![s] = FALSE]
  /\ ran' = NoHandle
  /\ UNCHANGED <<class, data, main_ec>>

Added(s, on) ==
  /\ HandlesOf(ev[s]) # {}
  /\ st' = IF on THEN Start(st, HandlesOf(ev[s])) ELSE Stop(st, HandlesOf(ev[s]))
  /\ armed' = [armed EXCEPT ![s] = on]
  /\ ran' = NoHandle
  /\ UNCHANGED <<class, ev, data, main_ec, loop>>

Deleted(s) ==
  /\ st' = Stop(st, HandlesOf(ev[s]))
  /\ armed' = [armed EXCEPT ![s] = FALSE]
  /\ ran' = NoHandle
  /\ UNCHANGED <<class, ev, data, main_ec, loop>>

\* libuv calls back through a handle that stays active ...
Fires(h) ==
  /\ loop = "open" /\ st[h] = "active"
  /\ ran' = data[h]
  /\ UNCHANGED <<class, ev, st, data, armed, main_ec, loop>>

\* ... or through a timer, which it stops first.
Expires(h) ==
  /\ loop = "open" /\ st[h] = "active"
  /\ st' = [st EXCEPT ![h] = "stopped"]
  /\ armed' = [armed EXCEPT ![data[h]] = FALSE]
  /\ ran' = data[h]
  /\ UNCHANGED <<class, ev, data, main_ec, loop>>

---------------------------------------------------------------------------
(* FdEvent.  uv_poll_start with no events to wait for stops the handle.    *)
NewFd(s) == class = "FdEvent" /\ Construct(s)
MoveFd(d, s) == class = "FdEvent" /\ Moved(d, s)
ClearFd(s) == class = "FdEvent" /\ Cleared(s)
AddFd(s, events) == class = "FdEvent" /\ Added(s, events # {})
DelFd(s) == class = "FdEvent" /\ Deleted(s)
FdThen(h) == class = "FdEvent" /\ Fires(h)

(* TimerEvent: not repeated.                                               *)
NewTimer(s) == class = "TimerEvent" /\ Construct(s)
MoveTimer(d, s) == class = "TimerEvent" /\ Moved(d, s)
ClearTimer(s) == class = "TimerEvent" /\ Cleared(s)
AddTimer(s) == class = "TimerEvent" /\ Added(s, TRUE)
DelTimer(s) == class = "TimerEvent" /\ Deleted(s)
TimerThen(h) == class = "TimerEvent" /\ Expires(h)

(* SigEvent.                                                               *)
NewSig(s) == class = "SigEvent" /\ Construct(s)
MoveSig(d, s) == class = "SigEvent" /\ Moved(d, s)
ClearSig(s) == class = "SigEvent" /\ Cleared(s)
AddSig(s) == class = "SigEvent" /\ Added(s, TRUE)
DelSig(s) == class = "SigEvent" /\ Deleted(s)
SigThen(h) == class = "SigEvent" /\ Fires(h)

(* CheckEvent.                                                             *)
NewCheck(s) == class = "CheckEvent" /\ Construct(s)
MoveCheck(d, s) == class = "CheckEvent" /\ Moved(d, s)
ClearCheck(s) == class = "CheckEvent" /\ Cleared(s)
AddCheck(s) == class = "CheckEvent" /\ Added(s, TRUE)
DelCheck(s) == class = "CheckEvent" /\ Deleted(s)
CheckThen(h) == class = "CheckEvent" /\ Fires(h)

(* TimedFdEvent is an FdEvent and a TimerEvent.                            *)
NewTimed(s) == class = "TimedFdEvent" /\ Construct(s)

\* Swapping the bases points the handles at the bases; the swap of the class
\* points them at the whole again.
MoveTimed(d, s) == class = "TimedFdEvent" /\ Moved(d, s)
ClearTimed(s) == class = "TimedFdEvent" /\ Cleared(s)
AddTimed(s) == class = "TimedFdEvent" /\ Added(s, TRUE)
DelTimed(s) == class = "TimedFdEvent" /\ Deleted(s)

\* TimedFdEvent::fd_then: restart the timer, then call back.
TimedFdThen(h) ==
  LET s == data[h]
  IN /\ class = "TimedFdEvent"
     /\ loop = "open" /\ st[h] = "active" /\ ev[s].h["fd"] = h
     /\ st' = Start(st, {ev[s].h["timer"]})
     /\ ran' = s
     /\ UNCHANGED <<class, ev, data, armed, main_ec, loop>>

\* TimedFdEvent::timer_then: stop watching, then call back with TIMEOUT.
TimedTimerThen(h) ==
  LET s == data[h]
  IN /\ class = "TimedFdEvent"
     /\ loop = "open" /\ st[h] = "active" /\ ev[s].h["timer"] = h
     /\ st' = Stop(st, {h, ev[s].h["fd"]})
     /\ armed' = [armed EXCEPT ![s] = FALSE]
     /\ ran' = s
     /\ UNCHANGED <<class, ev, data, main_ec, loop>>

---------------------------------------------------------------------------
\* _on_uv_handle_close.
OnUvHandleClose(h) ==
  /\ loop = "open" /\ st[h] = "closing"
  /\ st' = [st EXCEPT ![h] = "freed"]
  /\ ran' = NoHandle
  /\ UNCHANGED <<class, ev, data, armed, main_ec, loop>>

\* The program's own EventContext goes out of scope.
DropEc ==
  /\ main_ec
  /\ main_ec' = FALSE
  /\ Loop(ev, FALSE, st)
  /\ ran' = NoHandle
  /\ UNCHANGED <<class, ev, data, armed>>

EventNext ==
  \/ \E s \in EventSlots :
       \/ NewFd(s) \/ NewTimer(s) \/ NewSig(s) \/ NewCheck(s) \/ NewTimed(s)
       \/ ClearFd(s) \/ ClearTimer(s) \/ ClearSig(s) \/ ClearCheck(s) \/ ClearTimed(s)
       \/ \E events \in SUBSET {"READ", "WRITE"} : AddFd(s, events)
       \/ AddTimer(s) \/ AddSig(s) \/ AddCheck(s) \/ AddTimed(s)
       \/ DelFd(s) \/ DelTimer(s) \/ DelSig(s) \/ DelCheck(s) \/ DelTimed(s)
       \/ Destroy(s)
  \/ \E d, s \in EventSlots :
       \/ MoveFd(d, s) \/ MoveTimer(d, s) \/ MoveSig(d, s)
       \/ MoveCheck(d, s) \/ MoveTimed(d, s)
  \/ \E h \in Handles :
       \/ FdThen(h) \/ TimerThen(h) \/ SigThen(h) \/ CheckThen(h)
       \/ TimedFdThen(h) \/ TimedTimerThen(h) \/ OnUvHandleClose(h)
  \/ DropEc

EventSpec == EventInit /\ [][EventNext]_eventVars

---------------------------------------------------------------------------
Open(h) == st[h] \in {"stopped", "active"}

\* A handle that libuv may call back through leads to the event that has it, and
\* that has a callback: however events were moved, none is called back in an
\* object that has gone.
FiresIntoOwner ==
  /\ \A h \in Handles :
       st[h] = "active" => /\ data[h] \in EventSlots
                           /\ h \in HandlesOf(ev[data[h]])
                           /\ ev[data[h]].set
  /\ ran # NoHandle => ev[ran].set

\* Every handle that is not closed belongs to one event, and an event has no
\* handle that is closed or freed: none leaks, none is closed twice, and none
\* is left when the loop is freed.
OneOwnerPerHandle ==
  /\ {h \in Handles : Open(h)} = UNION {HandlesOf(ev[s]) : s \in EventSlots}
  /\ \A s, t \in EventSlots : s # t => HandlesOf(ev[s]) \cap HandlesOf(ev[t]) = {}
  /\ loop = "freed" => \A s \in EventSlots : HandlesOf(ev[s]) = {}

\* An event that was added waits with all its handles; one that was deleted, or
\* has called back with TIMEOUT, waits with none until it is added again.
WaitsWhileAdded ==
  \A s \in EventSlots : \A h \in HandlesOf(ev[s]) : (st[h] = "active") <=> armed[s]

\* Events that are moved, added, deleted and fire keep their handles (event.h).
EventsAreOwned == FiresIntoOwner /\ OneOwnerPerHandle /\ WaitsWhileAdded

---------------------------------------------------------------------------
(***************************************************************************)
(* The inductive invariant.  EventsAreOwned alone is not inductive: a move *)
(* needs the address in every handle of the event, not only in the active  *)
(* ones; the end of the loop needs that an event with handles holds the    *)
(* EventContext; and a new event needs that its handles were never used.   *)
(***************************************************************************)
HandleState == {"none", "stopped", "active", "closing", "freed"}
EventState == [h : [Pieces -> Handles \cup {NoHandle}], ec : BOOLEAN, set : BOOLEAN]

EventTypeOK ==
  /\ class \in Classes
  /\ ev \in [EventSlots -> EventState]
  /\ st \in [Handles -> HandleState]
  /\ data \in [Handles -> EventSlots \cup {NoHandle}]
  /\ armed \in [EventSlots -> BOOLEAN]
  /\ ran \in EventSlots \cup {NoHandle}
  /\ main_ec \in BOOLEAN /\ loop \in {"open", "freed"}

\* An event has all the handles of its class or none.
Whole(E) ==
  \A s \in EventSlots : HandlesOf(E[s]) # {} =>
    HandlesOf(E[s]) = {E[s].h[p] : p \in PiecesOf[class]} /\ E[s].set /\ E[s].ec
\* Its handles know it, and are active while it is added.
Know(E, D, S, A) ==
  \A s \in EventSlots : \A h \in HandlesOf(E[s]) :
    h \in Handles /\ D[h] = s /\ S[h] = IF A[s] THEN "active" ELSE "stopped"
\* An open handle is one of the event it knows.
Known(E, D, S) ==
  \A h \in Handles : S[h] \in {"stopped", "active"} =>
    D[h] \in EventSlots /\ h \in HandlesOf(E[D[h]])
\* Handles are made in order, as many at a time as the class has.
InOrder(S) ==
  \E n \in 0..MaxEvents : \A h \in Handles :
    S[h] # "none" <=> h <= n * Cardinality(PiecesOf[class])
LoopEnds == loop = "freed" => ~main_ec /\ \A s \in EventSlots : ~ev[s].ec
RanIsSet == ran # NoHandle => ev[ran].set
EventInv ==
  /\ EventTypeOK /\ Whole(ev) /\ Know(ev, data, st, armed) /\ Known(ev, data, st)
  /\ InOrder(st) /\ LoopEnds /\ RanIsSet

LEMMA PiecesFacts ==
  /\ Pieces = {"fd", "timer", "sig", "check"}
  /\ Classes = {"FdEvent", "TimerEvent", "SigEvent", "CheckEvent", "TimedFdEvent"}
  /\ PiecesOf["FdEvent"] = {"fd"} /\ PiecesOf["TimerEvent"] = {"timer"}
  /\ PiecesOf["SigEvent"] = {"sig"} /\ PiecesOf["CheckEvent"] = {"check"}
  /\ PiecesOf["TimedFdEvent"] = {"fd", "timer"}
<1>1. Classes = {"FdEvent", "TimerEvent", "SigEvent", "CheckEvent", "TimedFdEvent"}
  BY DEF Classes, PiecesOf
<1>2. /\ PiecesOf["FdEvent"] = {"fd"} /\ PiecesOf["TimerEvent"] = {"timer"}
      /\ PiecesOf["SigEvent"] = {"sig"} /\ PiecesOf["CheckEvent"] = {"check"}
      /\ PiecesOf["TimedFdEvent"] = {"fd", "timer"}
  BY DEF PiecesOf
<1>3. Pieces = {"fd", "timer", "sig", "check"}
  BY <1>1, <1>2 DEF Pieces
<1>4. QED
  BY <1>1, <1>2, <1>3

LEMMA PiecesCount ==
  \A c \in Classes : Cardinality(PiecesOf[c]) = IF c = "TimedFdEvent" THEN 2 ELSE 1
<1>1. ASSUME NEW p PROVE IsFiniteSet({p}) /\ Cardinality({p}) = 1
  BY Zenon, FS_Singleton
<1>2. Cardinality({"fd"} \cup {"timer"}) = 2
  <2>1. "timer" \notin {"fd"}
    OBVIOUS
  <2>2. Cardinality({"fd"} \cup {"timer"}) = Cardinality({"fd"}) + 1
    BY Zenon, <1>1, <2>1, FS_AddElement
  <2> QED
    BY <1>1, <2>2
<1>3. {"fd", "timer"} = {"fd"} \cup {"timer"}
  OBVIOUS
<1>4. ASSUME NEW c \in Classes PROVE Cardinality(PiecesOf[c]) = IF c = "TimedFdEvent" THEN 2 ELSE 1
  <2>1. CASE c = "TimedFdEvent"
    BY Zenon, <1>2, <1>3, <2>1, PiecesFacts
  <2>2. CASE c # "TimedFdEvent"
    <3>1. \E p \in Pieces : PiecesOf[c] = {p}
      BY <2>2, PiecesFacts
    <3> QED
      BY Zenon, <1>1, <2>2, <3>1
  <2> QED
    BY <2>1, <2>2
<1> QED
  BY <1>4

\* The invariant is what the properties say, and more.
LEMMA EventInvImplies == EventInv => EventsAreOwned
<1> SUFFICES ASSUME EventInv PROVE EventsAreOwned
  OBVIOUS
<1>0. /\ Whole(ev) /\ Know(ev, data, st, armed) /\ Known(ev, data, st) /\ LoopEnds /\ RanIsSet
      /\ armed \in [EventSlots -> BOOLEAN]
  BY Zenon DEF EventInv, EventTypeOK
<1>1. FiresIntoOwner
  BY <1>0 DEF FiresIntoOwner, Known, Whole, RanIsSet
<1>2. OneOwnerPerHandle
  <2>1. ASSUME NEW h \in Handles, Open(h) PROVE \E s \in EventSlots : h \in HandlesOf(ev[s])
    BY Zenon, <1>0, <2>1 DEF Known, Open
  <2>2. ASSUME NEW s \in EventSlots, NEW h \in HandlesOf(ev[s]) PROVE h \in Handles /\ Open(h)
    BY Zenon, <1>0 DEF Know, Open
  <2>3. ASSUME NEW s \in EventSlots, NEW t \in EventSlots, s # t
        PROVE  HandlesOf(ev[s]) \cap HandlesOf(ev[t]) = {}
    <3>1. \A h \in HandlesOf(ev[s]) : data[h] = s
      BY Zenon, <1>0 DEF Know
    <3>2. \A h \in HandlesOf(ev[t]) : data[h] = t
      BY Zenon, <1>0 DEF Know
    <3> QED
      BY <2>3, <3>1, <3>2
  <2>4. loop = "freed" => \A s \in EventSlots : HandlesOf(ev[s]) = {}
    BY Zenon, <1>0 DEF LoopEnds, Whole
  <2>5. {h \in Handles : Open(h)} = UNION {HandlesOf(ev[s]) : s \in EventSlots}
    BY <2>1, <2>2
  <2> QED
    BY Zenon, <2>3, <2>4, <2>5 DEF OneOwnerPerHandle
<1>3. WaitsWhileAdded
  BY <1>0 DEF Know, WaitsWhileAdded
<1> QED
  BY <1>1, <1>2, <1>3 DEF EventsAreOwned

LEMMA EmptyFacts ==
  /\ HandlesOf(Empty) = {} /\ Empty \in EventState /\ ~Empty.ec
  /\ \A b \in BOOLEAN : LET e == [Empty EXCEPT !.ec = b]
                         IN  HandlesOf(e) = {} /\ e \in EventState
BY Zenon DEF Empty, HandlesOf, EventState

\* The end of the loop frees the handles, when no event has one any more.
LEMMA LoopKeeps ==
  ASSUME NEW S \in [Handles -> HandleState], NEW m \in BOOLEAN, Loop(ev', m, S),
         main_ec' = m, class' = class, loop \in {"open", "freed"},
         loop = "freed" => ~m /\ \A s \in EventSlots : ~ev'[s].ec,
         Whole(ev'), Know(ev', data', S, armed'), Known(ev', data', S), InOrder(S)
  PROVE  /\ st' \in [Handles -> HandleState] /\ loop' \in {"open", "freed"}
         /\ Whole(ev)' /\ Know(ev, data, st, armed)' /\ Known(ev, data, st)'
         /\ InOrder(st)' /\ LoopEnds'
<1>1. Whole(ev)'
  BY DEF Whole
<1>2. CASE ~m /\ \A s \in EventSlots : ~ev'[s].ec
  <2>1. /\ st' = [h \in Handles |-> IF S[h] = "none" THEN "none" ELSE "freed"]
        /\ loop' = "freed"
    BY <1>2 DEF Loop
  <2>2. \A s \in EventSlots : HandlesOf(ev'[s]) = {}
    BY <1>2 DEF Whole
  <2>3. Know(ev, data, st, armed)'
    BY <2>2 DEF Know
  <2>4. Known(ev, data, st)'
    BY <2>1 DEF Known
  <2>5. InOrder(st)'
    BY <2>1 DEF InOrder
  <2>6. LoopEnds'
    BY <1>2 DEF LoopEnds
  <2> QED
    BY <1>1, <2>1, <2>3, <2>4, <2>5, <2>6 DEF HandleState
<1>3. CASE ~(~m /\ \A s \in EventSlots : ~ev'[s].ec)
  <2>1. st' = S /\ loop' = loop /\ loop = "open"
    BY <1>3 DEF Loop
  <2> QED
    BY <1>1, <2>1 DEF Know, Known, InOrder, LoopEnds
<1> QED
  BY <1>2, <1>3

\* Closing the handles that slot d had leaves those of the other slots.
LEMMA OthersKeep ==
  ASSUME EventInv, NEW d \in EventSlots, NEW S, S = Closed(st, HandlesOf(ev[d]))
  PROVE  /\ S \in [Handles -> HandleState] /\ InOrder(S)
         /\ \A t \in EventSlots \ {d} : \A h \in HandlesOf(ev[t]) : S[h] = st[h]
         /\ \A h \in Handles : S[h] \in {"stopped", "active"} => S[h] = st[h] /\ h \notin HandlesOf(ev[d])
<1>0. /\ st \in [Handles -> HandleState] /\ Know(ev, data, st, armed) /\ InOrder(st)
      /\ armed \in [EventSlots -> BOOLEAN]
  BY Zenon DEF EventInv, EventTypeOK
<1>1. \A h \in Handles : S[h] = IF h \in HandlesOf(ev[d]) THEN "closing" ELSE st[h]
  BY DEF Closed
<1>2. S \in [Handles -> HandleState]
  BY <1>0 DEF Closed, HandleState
<1>3. \A h \in HandlesOf(ev[d]) : st[h] # "none"
  BY <1>0 DEF Know
<1>4. \A h \in Handles : S[h] # "none" <=> st[h] # "none"
  BY <1>1, <1>3
<1>5. InOrder(S)
  BY <1>0, <1>4 DEF InOrder
<1>6. \A t \in EventSlots \ {d} : \A h \in HandlesOf(ev[t]) : S[h] = st[h]
  <2> TAKE t \in EventSlots \ {d}
  <2> TAKE h \in HandlesOf(ev[t])
  <2>1. h \in Handles /\ data[h] = t
    BY Zenon, <1>0 DEF Know
  <2>2. h \notin HandlesOf(ev[d])
    BY Zenon, <1>0, <2>1 DEF Know
  <2> QED
    BY Zenon, <1>1, <2>1, <2>2
<1> QED
  BY <1>1, <1>2, <1>5, <1>6

LEMMA MovedKeeps ==
  ASSUME EventInv, NEW d \in EventSlots, NEW s \in EventSlots, Moved(d, s)
  PROVE  EventInv'
<1> DEFINE S == Closed(st, HandlesOf(ev[d]))
<1>0. /\ EventTypeOK /\ Whole(ev) /\ Know(ev, data, st, armed) /\ Known(ev, data, st)
      /\ LoopEnds
  BY Zenon DEF EventInv
<1>1. /\ d # s /\ ev' = [ev EXCEPT ![d] = ev[s], ![s] = Empty]
      /\ data' = Pointing(data, ev[s], d) /\ Loop(ev', main_ec, S)
      /\ armed' = [armed EXCEPT ![d] = armed[s], ![s] = FALSE]
      /\ ran' = NoHandle /\ class' = class /\ main_ec' = main_ec
  BY Zenon DEF Moved
<1>2. /\ S \in [Handles -> HandleState] /\ InOrder(S)
      /\ \A t \in EventSlots \ {d} : \A h \in HandlesOf(ev[t]) : S[h] = st[h]
      /\ \A h \in Handles : S[h] \in {"stopped", "active"} => S[h] = st[h] /\ h \notin HandlesOf(ev[d])
  BY Zenon, OthersKeep
<1> HIDE DEF S
<1>3. /\ ev \in [EventSlots -> EventState] /\ data \in [Handles -> EventSlots \cup {NoHandle}]
      /\ armed \in [EventSlots -> BOOLEAN] /\ loop \in {"open", "freed"} /\ main_ec \in BOOLEAN
      /\ class \in Classes
  BY Zenon, <1>0 DEF EventTypeOK
<1>4. /\ ev'[d] = ev[s] /\ ev'[s] = Empty /\ ev' \in [EventSlots -> EventState]
      /\ \A t \in EventSlots \ {d, s} : ev'[t] = ev[t]
  BY <1>1, <1>3, EmptyFacts
<1>5. /\ armed'[d] = armed[s] /\ armed' \in [EventSlots -> BOOLEAN]
      /\ \A t \in EventSlots \ {d, s} : armed'[t] = armed[t]
  BY Zenon, <1>1, <1>3
<1>6. /\ data' \in [Handles -> EventSlots \cup {NoHandle}]
      /\ \A h \in Handles : data'[h] = IF h \in HandlesOf(ev[s]) THEN d ELSE data[h]
  BY <1>1, <1>3 DEF Pointing
<1>7. Whole(ev')
  <2> SUFFICES ASSUME NEW t \in EventSlots, HandlesOf(ev'[t]) # {}
               PROVE  HandlesOf(ev'[t]) = {ev'[t].h[p] : p \in PiecesOf[class]} /\ ev'[t].set /\ ev'[t].ec
    BY Zenon DEF Whole
  <2>1. PICK u \in EventSlots : ev'[t] = ev[u]
    BY Zenon, <1>4, EmptyFacts
  <2>2. HandlesOf(ev[u]) = {ev[u].h[p] : p \in PiecesOf[class]} /\ ev[u].set /\ ev[u].ec
    BY Zenon, <1>0, <2>1 DEF Whole
  <2> QED
    BY <2>1, <2>2
<1>8. Know(ev', data', S, armed')
  <2> SUFFICES ASSUME NEW t \in EventSlots, NEW h \in HandlesOf(ev'[t])
               PROVE  h \in Handles /\ data'[h] = t /\ S[h] = IF armed'[t] THEN "active" ELSE "stopped"
    BY Zenon DEF Know
  <2>1. CASE t = d
    <3>1. h \in HandlesOf(ev[s]) /\ h \in Handles /\ st[h] = IF armed[s] THEN "active" ELSE "stopped"
      BY ZenonT(40), <1>0, <1>4, <2>1 DEF Know
    <3> QED
      BY <1>1, <1>2, <1>5, <1>6, <2>1, <3>1
  <2>2. CASE t = s
    BY Zenon, <1>4, <2>2, EmptyFacts
  <2>3. CASE t \in EventSlots \ {d, s}
    <3>1. h \in HandlesOf(ev[t]) /\ h \in Handles /\ data[h] = t /\ st[h] = IF armed[t] THEN "active" ELSE "stopped"
      BY Zenon, <1>0, <1>4, <2>3 DEF Know
    <3>2. h \notin HandlesOf(ev[s])
      BY Zenon, <1>0, <2>3, <3>1 DEF Know
    <3> QED
      BY <1>2, <1>5, <1>6, <2>3, <3>1, <3>2
  <2> QED
    BY <2>1, <2>2, <2>3
<1>9. Known(ev', data', S)
  <2> SUFFICES ASSUME NEW h \in Handles, S[h] \in {"stopped", "active"}
               PROVE  data'[h] \in EventSlots /\ h \in HandlesOf(ev'[data'[h]])
    BY Zenon DEF Known
  <2>1. st[h] \in {"stopped", "active"} /\ h \notin HandlesOf(ev[d])
    BY <1>2
  <2>2. data[h] \in EventSlots /\ h \in HandlesOf(ev[data[h]])
    BY Zenon, <1>0, <2>1 DEF Known
  <2>3. CASE data[h] = s
    BY Zenon, <1>4, <1>6, <2>2, <2>3
  <2>4. CASE data[h] # s
    <3>1. h \notin HandlesOf(ev[s]) /\ data[h] # d
      BY Zenon, <1>0, <2>1, <2>2, <2>4 DEF Know
    <3> QED
      BY <1>4, <1>6, <2>2, <2>4, <3>1
  <2> QED
    BY <2>3, <2>4
<1>10. loop = "freed" => ~main_ec /\ \A t \in EventSlots : ~ev'[t].ec
  BY <1>0, <1>4, EmptyFacts DEF LoopEnds
<1>11. /\ st' \in [Handles -> HandleState] /\ loop' \in {"open", "freed"}
       /\ Whole(ev)' /\ Know(ev, data, st, armed)' /\ Known(ev, data, st)'
       /\ InOrder(st)' /\ LoopEnds'
  BY Zenon, <1>1, <1>2, <1>3, <1>7, <1>8, <1>9, <1>10, LoopKeeps
<1>12. EventTypeOK' /\ RanIsSet'
  BY Zenon, <1>1, <1>3, <1>4, <1>5, <1>6, <1>11 DEF EventTypeOK, RanIsSet
<1> QED
  BY Zenon, <1>11, <1>12 DEF EventInv

\* clear() and the destructor leave slot s without handles.
LEMMA EmptiedKeeps ==
  ASSUME EventInv, NEW s \in EventSlots, NEW e \in EventState, HandlesOf(e) = {},
         NEW S, S = Closed(st, HandlesOf(ev[s])), ev' = [ev EXCEPT ![s] = e],
         armed' = [armed EXCEPT ![s] = FALSE], UNCHANGED <<class, data, main_ec>>
  PROVE  /\ S \in [Handles -> HandleState] /\ InOrder(S)
         /\ Whole(ev') /\ Know(ev', data', S, armed') /\ Known(ev', data', S)
         /\ ev' \in [EventSlots -> EventState] /\ armed' \in [EventSlots -> BOOLEAN]
<1>0. /\ EventTypeOK /\ Whole(ev) /\ Know(ev, data, st, armed) /\ Known(ev, data, st)
      /\ ev \in [EventSlots -> EventState] /\ armed \in [EventSlots -> BOOLEAN]
  BY Zenon DEF EventInv, EventTypeOK
<1>2. /\ S \in [Handles -> HandleState] /\ InOrder(S)
      /\ \A t \in EventSlots \ {s} : \A h \in HandlesOf(ev[t]) : S[h] = st[h]
      /\ \A h \in Handles : S[h] \in {"stopped", "active"} => S[h] = st[h] /\ h \notin HandlesOf(ev[s])
  BY SMTT(20), OthersKeep
<1>3. /\ ev'[s] = e /\ ev' \in [EventSlots -> EventState] /\ armed' \in [EventSlots -> BOOLEAN]
      /\ \A t \in EventSlots \ {s} : ev'[t] = ev[t] /\ armed'[t] = armed[t]
  BY <1>0
<1>4. Whole(ev')
  <2> SUFFICES ASSUME NEW t \in EventSlots, HandlesOf(ev'[t]) # {}
               PROVE  HandlesOf(ev'[t]) = {ev'[t].h[p] : p \in PiecesOf[class]} /\ ev'[t].set /\ ev'[t].ec
    BY Zenon DEF Whole
  <2>1. ev'[t] = ev[t]
    BY Zenon, <1>3
  <2>2. HandlesOf(ev[t]) = {ev[t].h[p] : p \in PiecesOf[class]} /\ ev[t].set /\ ev[t].ec
    BY Zenon, <1>0, <2>1 DEF Whole
  <2> QED
    BY <2>1, <2>2
<1>5. Know(ev', data', S, armed')
  <2> SUFFICES ASSUME NEW t \in EventSlots, NEW h \in HandlesOf(ev'[t])
               PROVE  h \in Handles /\ data'[h] = t /\ S[h] = IF armed'[t] THEN "active" ELSE "stopped"
    BY Zenon DEF Know
  <2>1. t \in EventSlots \ {s} /\ h \in HandlesOf(ev[t]) /\ armed'[t] = armed[t] /\ S[h] = st[h]
    BY Zenon, <1>2, <1>3
  <2> QED
    BY Zenon, <1>0, <2>1 DEF Know
<1>6. Known(ev', data', S)
  <2> SUFFICES ASSUME NEW h \in Handles, S[h] \in {"stopped", "active"}
               PROVE  data'[h] \in EventSlots /\ h \in HandlesOf(ev'[data'[h]])
    BY Zenon DEF Known
  <2>1. st[h] \in {"stopped", "active"} /\ h \notin HandlesOf(ev[s])
    BY <1>2
  <2>2. data[h] \in EventSlots /\ h \in HandlesOf(ev[data[h]])
    BY Zenon, <1>0, <2>1 DEF Known
  <2> QED
    BY <1>3, <2>1, <2>2
<1> QED
  BY <1>2, <1>3, <1>4, <1>5, <1>6

LEMMA ClearedKeeps ==
  ASSUME EventInv, NEW s \in EventSlots, Cleared(s)
  PROVE  EventInv'
<1> DEFINE e == [Empty EXCEPT !.ec = ev[s].ec]
<1>0. EventTypeOK /\ LoopEnds /\ ev \in [EventSlots -> EventState]
  BY Zenon DEF EventInv, EventTypeOK
<1>1. /\ st' = Closed(st, HandlesOf(ev[s])) /\ ev' = [ev EXCEPT ![s] = e]
      /\ armed' = [armed EXCEPT ![s] = FALSE] /\ ran' = NoHandle
      /\ UNCHANGED <<class, data, main_ec, loop>>
  BY DEF Cleared
<1>2. ev[s].ec \in BOOLEAN
  BY <1>0 DEF EventState
<1>3. e \in EventState /\ HandlesOf(e) = {} /\ e.ec = ev[s].ec
  BY Zenon, <1>2, EmptyFacts DEF Empty
<1> HIDE DEF e
<1>4. /\ st' \in [Handles -> HandleState] /\ InOrder(st')
      /\ Whole(ev') /\ Know(ev', data', st', armed') /\ Known(ev', data', st')
      /\ ev' \in [EventSlots -> EventState] /\ armed' \in [EventSlots -> BOOLEAN]
  BY Zenon, <1>1, <1>3, EmptiedKeeps
<1>5. \A t \in EventSlots : ev'[t].ec = ev[t].ec
  BY <1>0, <1>1, <1>3
<1>6. LoopEnds' /\ RanIsSet'
  BY Zenon, <1>0, <1>1, <1>5 DEF LoopEnds, RanIsSet
<1>7. EventTypeOK'
  BY Zenon, <1>0, <1>1, <1>4 DEF EventTypeOK
<1>8. Whole(ev)' /\ InOrder(st)' /\ Know(ev, data, st, armed)' /\ Known(ev, data, st)'
  BY ZenonT(40), <1>1, <1>4 DEF Whole, InOrder, Know, Known
<1> QED
  BY Zenon, <1>6, <1>7, <1>8 DEF EventInv

LEMMA DestroyKeeps ==
  ASSUME EventInv, NEW s \in EventSlots, Destroy(s)
  PROVE  EventInv'
<1> DEFINE S == Closed(st, HandlesOf(ev[s]))
<1>0. EventTypeOK /\ LoopEnds /\ ev \in [EventSlots -> EventState] /\ main_ec \in BOOLEAN
      /\ loop \in {"open", "freed"}
  BY Zenon DEF EventInv, EventTypeOK
<1>1. /\ ev' = [ev EXCEPT ![s] = Empty] /\ Loop(ev', main_ec, S)
      /\ armed' = [armed EXCEPT ![s] = FALSE] /\ ran' = NoHandle
      /\ UNCHANGED <<class, data, main_ec>>
  BY Zenon DEF Destroy
<1>2. /\ S \in [Handles -> HandleState] /\ InOrder(S)
      /\ Whole(ev') /\ Know(ev', data', S, armed') /\ Known(ev', data', S)
      /\ ev' \in [EventSlots -> EventState] /\ armed' \in [EventSlots -> BOOLEAN]
  BY Zenon, <1>1, EmptyFacts, EmptiedKeeps
<1> HIDE DEF S
<1>3. loop = "freed" => ~main_ec /\ \A t \in EventSlots : ~ev'[t].ec
  BY <1>0, <1>1, EmptyFacts DEF LoopEnds
<1>4. /\ st' \in [Handles -> HandleState] /\ loop' \in {"open", "freed"}
      /\ Whole(ev)' /\ Know(ev, data, st, armed)' /\ Known(ev, data, st)'
      /\ InOrder(st)' /\ LoopEnds'
  BY Zenon, <1>0, <1>1, <1>2, <1>3, LoopKeeps
<1>5. EventTypeOK' /\ RanIsSet'
  BY Zenon, <1>0, <1>1, <1>2, <1>4 DEF EventTypeOK, RanIsSet
<1> QED
  BY Zenon, <1>4, <1>5 DEF EventInv

\* Steps that leave the events where they are.
LEMMA SameEvents ==
  ASSUME EventInv, UNCHANGED <<class, ev, data, main_ec, loop>>,
         st' \in [Handles -> HandleState], armed' \in [EventSlots -> BOOLEAN],
         \A h \in Handles : st'[h] # "none" <=> st[h] # "none",
         \A h \in Handles : st'[h] \in {"stopped", "active"} => st[h] \in {"stopped", "active"},
         Know(ev, data, st', armed'),
         ran' # NoHandle => ran' \in EventSlots /\ ev[ran'].set
  PROVE  EventInv'
<1>1. EventTypeOK /\ Whole(ev) /\ Known(ev, data, st) /\ InOrder(st) /\ LoopEnds
  BY Zenon DEF EventInv
<1>2. EventTypeOK'
  BY Zenon, <1>1 DEF EventTypeOK
<1>3. Whole(ev)' /\ Know(ev, data, st, armed)'
  BY <1>1 DEF Whole, Know
<1>6. LoopEnds' /\ RanIsSet'
  BY <1>1 DEF LoopEnds, RanIsSet
<1>4. Known(ev, data, st)'
  BY Zenon, <1>1 DEF Known
<1>5. InOrder(st)'
  BY Zenon, <1>1 DEF InOrder
<1> QED
  BY Zenon, <1>2, <1>3, <1>4, <1>5, <1>6 DEF EventInv

\* All the handles of an event are started or stopped together.
LEMMA ArmedKeeps ==
  ASSUME EventInv, NEW s \in EventSlots, NEW on \in BOOLEAN,
         st' = IF on THEN Start(st, HandlesOf(ev[s])) ELSE Stop(st, HandlesOf(ev[s])),
         armed' = [armed EXCEPT ![s] = on], UNCHANGED <<class, ev, data, main_ec, loop>>,
         ran' # NoHandle => ran' \in EventSlots /\ ev[ran'].set
  PROVE  EventInv'
<1>1. /\ st \in [Handles -> HandleState] /\ armed \in [EventSlots -> BOOLEAN]
      /\ Know(ev, data, st, armed)
  BY Zenon DEF EventInv, EventTypeOK
<1>2. \A h \in HandlesOf(ev[s]) : h \in Handles /\ st[h] \in {"stopped", "active"} /\ data[h] = s
  BY <1>1 DEF Know
<1>3. /\ st' \in [Handles -> HandleState]
      /\ \A h \in Handles : st'[h] = IF h \notin HandlesOf(ev[s]) THEN st[h]
                                     ELSE IF on THEN "active" ELSE "stopped"
  <2>1. CASE on
    BY <1>1, <2>1 DEF Start, HandleState
  <2>2. CASE ~on
    BY <1>1, <1>2, <2>2 DEF Stop, HandleState
  <2> QED
    BY <2>1, <2>2
<1>4. armed' \in [EventSlots -> BOOLEAN] /\ \A t \in EventSlots : armed'[t] = IF t = s THEN on ELSE armed[t]
  BY <1>1
<1>5. Know(ev, data, st', armed')
  <2> SUFFICES ASSUME NEW t \in EventSlots, NEW h \in HandlesOf(ev[t])
               PROVE  h \in Handles /\ data[h] = t /\ st'[h] = IF armed'[t] THEN "active" ELSE "stopped"
    BY Zenon DEF Know
  <2>1. h \in Handles /\ data[h] = t /\ st[h] = IF armed[t] THEN "active" ELSE "stopped"
    BY Zenon, <1>1 DEF Know
  <2> QED
    BY <1>2, <1>3, <1>4, <2>1
<1>6. /\ \A h \in Handles : st'[h] # "none" <=> st[h] # "none"
      /\ \A h \in Handles : st'[h] \in {"stopped", "active"} => st[h] \in {"stopped", "active"}
  BY <1>2, <1>3
<1> QED
  BY Zenon, <1>3, <1>4, <1>5, <1>6, SameEvents

LEMMA AddedKeeps ==
  ASSUME EventInv, NEW s \in EventSlots, NEW on \in BOOLEAN, Added(s, on) \/ (on = FALSE /\ Deleted(s))
  PROVE  EventInv'
<1>1. /\ st' = IF on THEN Start(st, HandlesOf(ev[s])) ELSE Stop(st, HandlesOf(ev[s]))
      /\ armed' = [armed EXCEPT ![s] = on] /\ UNCHANGED <<class, ev, data, main_ec, loop>>
      /\ ran' = NoHandle
  BY Zenon DEF Added, Deleted
<1> QED
  BY Zenon, <1>1, ArmedKeeps

\* An active handle is one of a whole event, which has been added.
LEMMA ActiveOwned ==
  ASSUME EventInv, NEW h \in Handles, st[h] = "active"
  PROVE  LET s == data[h]
         IN  /\ s \in EventSlots /\ h \in HandlesOf(ev[s]) /\ ev[s].set /\ armed[s] = TRUE
             /\ HandlesOf(ev[s]) = {ev[s].h[p] : p \in PiecesOf[class]}
<1>1. Whole(ev) /\ Know(ev, data, st, armed) /\ Known(ev, data, st) /\ armed \in [EventSlots -> BOOLEAN]
  BY Zenon DEF EventInv, EventTypeOK
<1>2. data[h] \in EventSlots /\ h \in HandlesOf(ev[data[h]])
  BY Zenon, <1>1 DEF Known
<1>3. armed[data[h]] = TRUE
  BY <1>1, <1>2 DEF Know
<1> QED
  BY Zenon, <1>1, <1>2, <1>3 DEF Whole

LEMMA FiresKeeps ==
  ASSUME EventInv, NEW h \in Handles, Fires(h)
  PROVE  EventInv'
<1>1. /\ st[h] = "active" /\ ran' = data[h]
      /\ UNCHANGED <<class, ev, st, data, armed, main_ec, loop>>
  BY DEF Fires
<1>2. data[h] \in EventSlots /\ ev[data[h]].set
  BY Zenon, <1>1, ActiveOwned
<1>3. st \in [Handles -> HandleState] /\ armed \in [EventSlots -> BOOLEAN] /\ Know(ev, data, st, armed)
  BY Zenon DEF EventInv, EventTypeOK
<1> QED
  BY Zenon, <1>1, <1>2, <1>3, SameEvents

LEMMA ExpiresKeeps ==
  ASSUME EventInv, NEW h \in Handles, class = "TimerEvent", Expires(h)
  PROVE  EventInv'
<1>1. /\ st[h] = "active" /\ ran' = data[h] /\ st' = [st EXCEPT ![h] = "stopped"]
      /\ armed' = [armed EXCEPT ![data[h]] = FALSE]
      /\ UNCHANGED <<class, ev, data, main_ec, loop>>
  BY DEF Expires
<1>2. data[h] \in EventSlots /\ ev[data[h]].set /\ HandlesOf(ev[data[h]]) = {h}
  <2>1. /\ data[h] \in EventSlots /\ h \in HandlesOf(ev[data[h]]) /\ ev[data[h]].set
        /\ HandlesOf(ev[data[h]]) = {ev[data[h]].h[p] : p \in PiecesOf[class]}
    BY Zenon, <1>1, ActiveOwned
  <2>2. PiecesOf[class] = {"timer"}
    BY Zenon, PiecesFacts
  <2> QED
    BY <2>1, <2>2
<1>3. st' = Stop(st, HandlesOf(ev[data[h]]))
  <2>1. st \in [Handles -> HandleState]
    BY Zenon DEF EventInv, EventTypeOK
  <2> QED
    BY Zenon, <1>1, <1>2, <2>1 DEF Stop
<1> QED
  BY Zenon, <1>1, <1>2, <1>3, ArmedKeeps

\* The timer of an event that fires is active already.
LEMMA TimedFdThenKeeps ==
  ASSUME EventInv, NEW h \in Handles, TimedFdThen(h)
  PROVE  EventInv'
<1> DEFINE s == data[h]
<1>1. /\ st[h] = "active" /\ class = "TimedFdEvent" /\ ran' = s
      /\ st' = Start(st, {ev[s].h["timer"]})
      /\ UNCHANGED <<class, ev, data, armed, main_ec, loop>>
  BY Zenon DEF TimedFdThen
<1>2. /\ s \in EventSlots /\ ev[s].set /\ armed[s] = TRUE
      /\ HandlesOf(ev[s]) = {ev[s].h[p] : p \in PiecesOf[class]}
  BY Zenon, <1>1, ActiveOwned
<1>3. st \in [Handles -> HandleState] /\ armed \in [EventSlots -> BOOLEAN] /\ Know(ev, data, st, armed)
  BY Zenon DEF EventInv, EventTypeOK
<1>4. ev[s].h["timer"] \in HandlesOf(ev[s])
  <2>1. "timer" \in PiecesOf[class]
    BY <1>1, PiecesFacts
  <2> QED
    BY Zenon, <1>2, <2>1
<1> HIDE DEF s
<1>5. st[ev[s].h["timer"]] = "active"
  BY <1>2, <1>3, <1>4 DEF Know
<1>6. st' = st
  BY <1>1, <1>3, <1>5 DEF Start
<1> QED
  BY Zenon, <1>1, <1>2, <1>3, <1>6, SameEvents

LEMMA TimedTimerThenKeeps ==
  ASSUME EventInv, NEW h \in Handles, TimedTimerThen(h)
  PROVE  EventInv'
<1> DEFINE s == data[h]
<1>1. /\ st[h] = "active" /\ class = "TimedFdEvent" /\ ran' = s /\ ev[s].h["timer"] = h
      /\ st' = Stop(st, {h, ev[s].h["fd"]}) /\ armed' = [armed EXCEPT ![s] = FALSE]
      /\ UNCHANGED <<class, ev, data, main_ec, loop>>
  BY Zenon DEF TimedTimerThen
<1>2. /\ s \in EventSlots /\ ev[s].set
      /\ HandlesOf(ev[s]) = {ev[s].h[p] : p \in PiecesOf[class]}
  BY Zenon, <1>1, ActiveOwned
<1> HIDE DEF s
<1>3. HandlesOf(ev[s]) = {h, ev[s].h["fd"]}
  <2>1. PiecesOf[class] = {"fd", "timer"}
    BY Zenon, <1>1, PiecesFacts
  <2> QED
    BY <1>1, <1>2, <2>1
<1>4. st' = Stop(st, HandlesOf(ev[s]))
  BY Zenon, <1>1, <1>3
<1> QED
  BY Zenon, <1>1, <1>2, <1>4, ArmedKeeps

LEMMA OnUvHandleCloseKeeps ==
  ASSUME EventInv, NEW h \in Handles, OnUvHandleClose(h)
  PROVE  EventInv'
<1>1. /\ st[h] = "closing" /\ st' = [st EXCEPT ![h] = "freed"] /\ ran' = NoHandle
      /\ UNCHANGED <<class, ev, data, armed, main_ec, loop>>
  BY DEF OnUvHandleClose
<1>2. st \in [Handles -> HandleState] /\ armed \in [EventSlots -> BOOLEAN] /\ Know(ev, data, st, armed)
  BY Zenon DEF EventInv, EventTypeOK
<1>3. /\ st' \in [Handles -> HandleState] /\ \A g \in Handles \ {h} : st'[g] = st[g]
      /\ st'[h] = "freed"
  BY <1>1, <1>2 DEF HandleState
<1>4. Know(ev, data, st', armed')
  BY <1>1, <1>2, <1>3 DEF Know
<1>5. /\ \A g \in Handles : st'[g] # "none" <=> st[g] # "none"
      /\ \A g \in Handles : st'[g] \in {"stopped", "active"} => st[g] \in {"stopped", "active"}
  BY <1>1, <1>3
<1> QED
  BY Zenon, <1>1, <1>2, <1>3, <1>4, <1>5, SameEvents

LEMMA DropEcKeeps ==
  ASSUME EventInv, DropEc
  PROVE  EventInv'
<1>1. /\ EventTypeOK /\ Whole(ev) /\ Know(ev, data, st, armed) /\ Known(ev, data, st)
      /\ InOrder(st) /\ LoopEnds /\ st \in [Handles -> HandleState] /\ loop \in {"open", "freed"}
  BY Zenon DEF EventInv, EventTypeOK
<1>2. /\ main_ec /\ main_ec' = FALSE /\ Loop(ev, FALSE, st) /\ ran' = NoHandle
      /\ UNCHANGED <<class, ev, data, armed>>
  BY Zenon DEF DropEc
<1>3. Loop(ev', FALSE, st) /\ loop = "open"
  BY Zenon, <1>1, <1>2 DEF LoopEnds
<1>4. Whole(ev') /\ Know(ev', data', st, armed') /\ Known(ev', data', st)
  BY Zenon, <1>1, <1>2
<1>5. /\ st' \in [Handles -> HandleState] /\ loop' \in {"open", "freed"}
      /\ Whole(ev)' /\ Know(ev, data, st, armed)' /\ Known(ev, data, st)'
      /\ InOrder(st)' /\ LoopEnds'
  BY Zenon, <1>1, <1>2, <1>3, <1>4, LoopKeeps
<1>6. EventTypeOK' /\ RanIsSet'
  BY Zenon, <1>1, <1>2, <1>5 DEF EventTypeOK, RanIsSet
<1> QED
  BY Zenon, <1>5, <1>6 DEF EventInv

\* The handles of a new event: the next ones.
LEMMA NewHandles ==
  ASSUME class \in Classes, NEW made \in Nat, NEW k, k = Cardinality(PiecesOf[class]), NEW e,
         e = [h |-> [p \in Pieces |-> IF p \notin PiecesOf[class] THEN NoHandle
                                     ELSE IF p = "timer" THEN made + k ELSE made + 1],
              ec |-> TRUE, set |-> TRUE]
  PROVE  /\ k \in {1, 2} /\ HandlesOf(e) = {e.h[p] : p \in PiecesOf[class]}
         /\ \A x : x \in HandlesOf(e) <=> x \in Nat /\ made < x /\ x <= made + k
         /\ \A p \in Pieces : e.h[p] \in HandlesOf(e) \cup {NoHandle}
<1>1. k = IF class = "TimedFdEvent" THEN 2 ELSE 1
  BY Zenon, PiecesCount
<1>2. /\ \A p \in PiecesOf[class] : e.h[p] = IF p = "timer" THEN made + k ELSE made + 1
      /\ \A p \in Pieces \ PiecesOf[class] : e.h[p] = NoHandle
      /\ PiecesOf[class] \subseteq Pieces
  BY PiecesFacts
<1>3. \A p \in PiecesOf[class] : e.h[p] # NoHandle
  BY <1>1, <1>2 DEF NoHandle
<1>4. HandlesOf(e) = {e.h[p] : p \in PiecesOf[class]}
  BY <1>2, <1>3 DEF HandlesOf
<1>5. ASSUME NEW x PROVE x \in HandlesOf(e) <=> x \in Nat /\ made < x /\ x <= made + k
  <2>1. CASE class = "TimedFdEvent"
    <3>1. PiecesOf[class] = {"fd", "timer"} /\ k = 2
      BY Zenon, <1>1, <2>1, PiecesFacts
    <3>2. e.h["fd"] = made + 1 /\ e.h["timer"] = made + 2
      BY <1>2, <3>1
    <3>3. HandlesOf(e) = {made + 1, made + 2}
      BY <1>4, <3>1, <3>2
    <3> QED
      BY <3>1, <3>3
  <2>2. CASE class # "TimedFdEvent"
    <3>1. k = 1
      BY Zenon, <1>1, <2>2
    <3>2. PICK p \in Pieces : PiecesOf[class] = {p}
      BY <2>2, PiecesFacts
    <3>3. e.h[p] = made + 1
      BY <1>2, <3>1, <3>2
    <3>4. HandlesOf(e) = {made + 1}
      BY Zenon, <1>4, <3>2, <3>3
    <3> QED
      BY <3>1, <3>4
  <2> QED
    BY <2>1, <2>2
<1>6. \A p \in Pieces : e.h[p] \in HandlesOf(e) \cup {NoHandle}
  BY <1>2, <1>4
<1> QED
  BY Zenon, <1>1, <1>4, <1>5, <1>6

\* The handles made so far are counted by MaxEvents and the class.
LEMMA MadeCount ==
  ASSUME EventInv, NEW k, k = Cardinality(PiecesOf[class]), NEW made,
         made = Cardinality({h \in Handles : st[h] # "none"}), made < MaxEvents * k
  PROVE  \E n \in 0..MaxEvents :
           /\ n + 1 \in 0..MaxEvents /\ made = n * k /\ made \in Nat
           /\ (n + 1) * k = made + k /\ made + k <= 2 * MaxEvents
           /\ \A h \in Handles : st[h] # "none" <=> h <= made
<1>1. class \in Classes /\ InOrder(st)
  BY Zenon DEF EventInv, EventTypeOK
<1>2. k \in {1, 2}
  BY <1>1, PiecesCount
<1>3. PICK n \in 0..MaxEvents : \A h \in Handles : st[h] # "none" <=> h <= n * k
  BY Zenon, <1>1 DEF InOrder
<1>4. n * k \in Nat /\ n * k <= 2 * MaxEvents /\ (n + 1) * k = n * k + k
  <2>1. CASE k = 1
    BY <2>1, MaxEventsAssumption
  <2>2. CASE k = 2
    BY <2>2, MaxEventsAssumption
  <2> QED
    BY <1>2, <2>1, <2>2
<1>5. {h \in Handles : st[h] # "none"} = 1..(n * k)
  BY <1>3, <1>4, MaxEventsAssumption DEF Handles
<1>6. made = n * k
  <2>1. PICK y \in Nat : y = n * k
    BY Zenon, <1>4
  <2>2. 1 \in Int /\ y \in Int
    BY <2>1
  <2>3. Cardinality(1..y) = IF 1 > y THEN 0 ELSE y - 1 + 1
    BY Zenon, <2>2, FS_Interval
  <2>4. Cardinality(1..y) = y
    BY <2>3
  <2> QED
    BY Zenon, <1>5, <2>1, <2>4
<1>7. n + 1 \in 0..MaxEvents /\ made + k <= 2 * MaxEvents
  <2>1. CASE k = 1
    BY <1>6, <2>1, MaxEventsAssumption
  <2>2. CASE k = 2
    BY <1>6, <2>2, MaxEventsAssumption
  <2> QED
    BY <1>2, <2>1, <2>2
<1> QED
  BY Zenon, <1>3, <1>4, <1>6, <1>7

LEMMA ConstructKeeps ==
  ASSUME EventInv, NEW s \in EventSlots, Construct(s)
  PROVE  EventInv'
<1> DEFINE k == Cardinality(PiecesOf[class])
           made == Cardinality({h \in Handles : st[h] # "none"})
           e == [h |-> [p \in Pieces |-> IF p \notin PiecesOf[class] THEN NoHandle
                                          ELSE IF p = "timer" THEN made + k ELSE made + 1],
                 ec |-> TRUE, set |-> TRUE]
           C == Closed(st, HandlesOf(ev[s]))
           S == [h \in Handles |-> IF h \in HandlesOf(e) THEN "stopped" ELSE C[h]]
<1>1. /\ main_ec /\ made < MaxEvents * k /\ ev' = [ev EXCEPT ![s] = e]
      /\ data' = Pointing(data, e, s) /\ Loop(ev', main_ec, S)
      /\ armed' = [armed EXCEPT ![s] = FALSE] /\ ran' = NoHandle
      /\ class' = class /\ main_ec' = main_ec
  BY Zenon DEF Construct
<1>2. /\ EventTypeOK /\ Whole(ev) /\ Know(ev, data, st, armed) /\ Known(ev, data, st)
      /\ LoopEnds /\ class \in Classes /\ ev \in [EventSlots -> EventState]
      /\ data \in [Handles -> EventSlots \cup {NoHandle}] /\ armed \in [EventSlots -> BOOLEAN]
      /\ main_ec \in BOOLEAN /\ loop \in {"open", "freed"}
  BY Zenon DEF EventInv, EventTypeOK
<1>3. PICK n \in 0..MaxEvents :
        /\ n + 1 \in 0..MaxEvents /\ made = n * k /\ made \in Nat
        /\ (n + 1) * k = made + k /\ made + k <= 2 * MaxEvents
        /\ \A h \in Handles : st[h] # "none" <=> h <= made
  BY Zenon, <1>1, MadeCount
<1>4. /\ k \in {1, 2} /\ HandlesOf(e) = {e.h[p] : p \in PiecesOf[class]}
      /\ \A x : x \in HandlesOf(e) <=> x \in Nat /\ made < x /\ x <= made + k
      /\ \A p \in Pieces : e.h[p] \in HandlesOf(e) \cup {NoHandle}
  BY ZenonT(40), <1>2, <1>3, NewHandles
<1>5. /\ C \in [Handles -> HandleState]
      /\ \A t \in EventSlots \ {s} : \A h \in HandlesOf(ev[t]) : C[h] = st[h]
      /\ \A h \in Handles : C[h] \in {"stopped", "active"} => C[h] = st[h] /\ h \notin HandlesOf(ev[s])
  BY Zenon, OthersKeep
<1>6. \A h \in Handles : C[h] # "none" <=> st[h] # "none"
  BY <1>2 DEF Closed, Know
<1>7. e.ec = TRUE /\ e.set = TRUE /\ e = [h |-> e.h, ec |-> TRUE, set |-> TRUE] /\ e.h \in [Pieces -> {e.h[p] : p \in Pieces}]
  OBVIOUS
<1>8. S \in [Handles -> HandleState] /\ \A h \in Handles : S[h] = IF h \in HandlesOf(e) THEN "stopped" ELSE C[h]
  BY <1>5 DEF HandleState
<1> HIDE DEF k, made, e, C, S
<1>9. HandlesOf(e) \subseteq Handles /\ \A h \in HandlesOf(e) : st[h] = "none"
  <2> SUFFICES ASSUME NEW x \in HandlesOf(e) PROVE x \in Handles /\ st[x] = "none"
    BY Zenon
  <2>1. x \in Nat /\ made < x /\ x <= made + k
    BY Zenon, <1>4
  <2>2. made \in Nat /\ made + k <= 2 * MaxEvents /\ k \in {1, 2}
    BY Zenon, <1>3, <1>4
  <2>3. x \in Handles /\ ~(x <= made)
    BY <2>1, <2>2, MaxEventsAssumption DEF Handles
  <2> QED
    BY Zenon, <1>3, <2>3
<1>10. e \in EventState
  <2>1. e.h \in [Pieces -> Handles \cup {NoHandle}]
    BY <1>4, <1>7, <1>9
  <2> QED
    BY Zenon, <1>7, <2>1 DEF EventState
<1>11. /\ ev'[s] = e /\ ev' \in [EventSlots -> EventState] /\ armed' \in [EventSlots -> BOOLEAN]
       /\ armed'[s] = FALSE /\ \A t \in EventSlots \ {s} : ev'[t] = ev[t] /\ armed'[t] = armed[t]
  BY <1>1, <1>2, <1>10
<1>12. /\ data' \in [Handles -> EventSlots \cup {NoHandle}]
       /\ \A h \in Handles : data'[h] = IF h \in HandlesOf(e) THEN s ELSE data[h]
  BY <1>1, <1>2 DEF Pointing
<1>13. InOrder(S)
  <2>1. ASSUME NEW h \in Handles PROVE S[h] # "none" <=> h <= (n + 1) * k
    BY SMTT(30), <1>3, <1>4, <1>6, <1>8 DEF Handles
  <2> QED
    BY Zenon, <1>3, <2>1 DEF InOrder, k
<1>14. Whole(ev')
  <2> SUFFICES ASSUME NEW t \in EventSlots, HandlesOf(ev'[t]) # {}
               PROVE  HandlesOf(ev'[t]) = {ev'[t].h[p] : p \in PiecesOf[class]} /\ ev'[t].set /\ ev'[t].ec
    BY Zenon DEF Whole
  <2>1. CASE t = s
    BY <1>4, <1>7, <1>11, <2>1
  <2>2. CASE t # s
    <3>1. ev'[t] = ev[t]
      BY Zenon, <1>11, <2>2
    <3>2. HandlesOf(ev[t]) = {ev[t].h[p] : p \in PiecesOf[class]} /\ ev[t].set /\ ev[t].ec
      BY Zenon, <1>2, <3>1 DEF Whole
    <3> QED
      BY <3>1, <3>2
  <2> QED
    BY <2>1, <2>2
<1>15. Know(ev', data', S, armed')
  <2> SUFFICES ASSUME NEW t \in EventSlots, NEW h \in HandlesOf(ev'[t])
               PROVE  h \in Handles /\ data'[h] = t /\ S[h] = IF armed'[t] THEN "active" ELSE "stopped"
    BY Zenon DEF Know
  <2>1. CASE t = s
    BY SMTT(30), <1>8, <1>9, <1>11, <1>12, <2>1
  <2>2. CASE t # s
    <3>1. h \in HandlesOf(ev[t]) /\ armed'[t] = armed[t]
      BY Zenon, <1>11, <2>2
    <3>2. h \in Handles /\ data[h] = t /\ st[h] = IF armed[t] THEN "active" ELSE "stopped"
      BY Zenon, <1>2, <3>1 DEF Know
    <3>3. h \notin HandlesOf(e)
      BY <1>9, <3>2
    <3> QED
      BY <1>5, <1>8, <1>12, <2>2, <3>1, <3>2, <3>3
  <2> QED
    BY <2>1, <2>2
<1>16. Known(ev', data', S)
  <2> SUFFICES ASSUME NEW h \in Handles, S[h] \in {"stopped", "active"}
               PROVE  data'[h] \in EventSlots /\ h \in HandlesOf(ev'[data'[h]])
    BY Zenon DEF Known
  <2>1. CASE h \in HandlesOf(e)
    BY <1>11, <1>12, <2>1
  <2>2. CASE h \notin HandlesOf(e)
    <3>1. st[h] \in {"stopped", "active"} /\ h \notin HandlesOf(ev[s])
      BY <1>5, <1>8, <2>2
    <3>2. data[h] \in EventSlots /\ h \in HandlesOf(ev[data[h]])
      BY Zenon, <1>2, <3>1 DEF Known
    <3> QED
      BY <1>11, <1>12, <2>2, <3>1, <3>2
  <2> QED
    BY <2>1, <2>2
<1>17. loop = "freed" => ~main_ec /\ \A t \in EventSlots : ~ev'[t].ec
  BY Zenon, <1>1, <1>2 DEF LoopEnds
<1>18. /\ st' \in [Handles -> HandleState] /\ loop' \in {"open", "freed"}
       /\ Whole(ev)' /\ Know(ev, data, st, armed)' /\ Known(ev, data, st)'
       /\ InOrder(st)' /\ LoopEnds'
  BY ZenonT(40), <1>1, <1>2, <1>8, <1>13, <1>14, <1>15, <1>16, <1>17, LoopKeeps
<1>19. EventTypeOK' /\ RanIsSet'
  BY Zenon, <1>1, <1>2, <1>11, <1>12, <1>18 DEF EventTypeOK, RanIsSet
<1> QED
  BY Zenon, <1>18, <1>19 DEF EventInv

\* However the program makes, moves, adds, deletes, clears and destroys its
\* events, in callbacks or between them, and whatever libuv calls back in which
\* order, an event keeps the handles it owns (event.h): for any number of
\* variables and of events.
THEOREM EventsStayOwned == EventSpec => []EventsAreOwned
<1>1. EventInit => EventInv
  <2> SUFFICES ASSUME EventInit PROVE EventInv
    OBVIOUS
  <2>1. /\ ev = [s \in EventSlots |-> Empty] /\ st = [h \in Handles |-> "none"]
        /\ class \in Classes /\ data = [h \in Handles |-> NoHandle]
        /\ armed = [s \in EventSlots |-> FALSE] /\ ran = NoHandle /\ main_ec = TRUE /\ loop = "open"
    BY DEF EventInit
  <2>2. EventTypeOK
    BY <2>1, EmptyFacts DEF EventTypeOK, HandleState
  <2>3. Whole(ev) /\ Know(ev, data, st, armed)
    BY <2>1, EmptyFacts DEF Whole, Know
  <2>4. Known(ev, data, st) /\ LoopEnds /\ RanIsSet
    BY <2>1 DEF Known, LoopEnds, RanIsSet
  <2>5. InOrder(st)
    <3>1. Cardinality(PiecesOf[class]) \in Nat
      BY <2>1, PiecesCount
    <3>2. \A h \in Handles : st[h] # "none" <=> h <= 0 * Cardinality(PiecesOf[class])
      BY <2>1, <3>1, MaxEventsAssumption DEF Handles
    <3> QED
      BY <3>2, MaxEventsAssumption DEF InOrder
  <2> QED
    BY <2>2, <2>3, <2>4, <2>5 DEF EventInv
<1>2. EventInv /\ [EventNext]_eventVars => EventInv'
  <2> SUFFICES ASSUME EventInv, [EventNext]_eventVars PROVE EventInv'
    OBVIOUS
  <2>1. CASE UNCHANGED eventVars
    <3>1. UNCHANGED <<class, ev, st, data, armed, ran, main_ec, loop>>
      BY <2>1 DEF eventVars
    <3>2. EventTypeOK' /\ LoopEnds' /\ RanIsSet'
      BY Zenon, <3>1 DEF EventInv, EventTypeOK, LoopEnds, RanIsSet
    <3>3. Whole(ev)' /\ InOrder(st)'
      BY Zenon, <3>1 DEF EventInv, Whole, InOrder
    <3>4. Know(ev, data, st, armed)' /\ Known(ev, data, st)'
      BY <3>1 DEF EventInv, Know, Known
    <3> QED
      BY Zenon, <3>2, <3>3, <3>4 DEF EventInv
  <2>2. ASSUME NEW s \in EventSlots,
               \/ Construct(s) \/ Cleared(s) \/ Deleted(s) \/ Destroy(s)
               \/ \E on \in BOOLEAN : Added(s, on)
        PROVE  EventInv'
    BY Zenon, <2>2, ConstructKeeps, ClearedKeeps, DestroyKeeps, AddedKeeps
  <2>3. ASSUME NEW d \in EventSlots, NEW s \in EventSlots, Moved(d, s)
        PROVE  EventInv'
    BY Zenon, <2>3, MovedKeeps
  <2>4. ASSUME NEW h \in Handles,
               \/ Fires(h) \/ (class = "TimerEvent" /\ Expires(h))
               \/ TimedFdThen(h) \/ TimedTimerThen(h) \/ OnUvHandleClose(h)
        PROVE  EventInv'
    BY Zenon, <2>4, FiresKeeps, ExpiresKeeps, TimedFdThenKeeps, TimedTimerThenKeeps, OnUvHandleCloseKeeps
  <2>5. CASE DropEc
    BY Zenon, <2>5, DropEcKeeps
  <2>6. CASE \E s \in EventSlots :
          \/ NewFd(s) \/ NewTimer(s) \/ NewSig(s) \/ NewCheck(s) \/ NewTimed(s)
          \/ ClearFd(s) \/ ClearTimer(s) \/ ClearSig(s) \/ ClearCheck(s) \/ ClearTimed(s)
          \/ \E events \in SUBSET {"READ", "WRITE"} : AddFd(s, events)
          \/ AddTimer(s) \/ AddSig(s) \/ AddCheck(s) \/ AddTimed(s)
          \/ DelFd(s) \/ DelTimer(s) \/ DelSig(s) \/ DelCheck(s) \/ DelTimed(s)
          \/ Destroy(s)
    <3>1. \A events : (events # {}) \in BOOLEAN
      OBVIOUS
    <3> QED
      BY Zenon, <2>2, <2>6, <3>1
         DEF NewFd, NewTimer, NewSig, NewCheck, NewTimed, ClearFd, ClearTimer, ClearSig, ClearCheck,
             ClearTimed, AddFd, AddTimer, AddSig, AddCheck, AddTimed, DelFd, DelTimer, DelSig, DelCheck, DelTimed
  <2>7. CASE \E d, s \in EventSlots :
          \/ MoveFd(d, s) \/ MoveTimer(d, s) \/ MoveSig(d, s) \/ MoveCheck(d, s) \/ MoveTimed(d, s)
    BY Zenon, <2>3, <2>7 DEF MoveFd, MoveTimer, MoveSig, MoveCheck, MoveTimed
  <2>8. CASE \E h \in Handles :
          \/ FdThen(h) \/ TimerThen(h) \/ SigThen(h) \/ CheckThen(h)
          \/ TimedFdThen(h) \/ TimedTimerThen(h) \/ OnUvHandleClose(h)
    BY Zenon, <2>4, <2>8 DEF FdThen, TimerThen, SigThen, CheckThen
  <2> QED
    BY Zenon, <2>1, <2>5, <2>6, <2>7, <2>8 DEF EventNext
<1> QED
  BY <1>1, <1>2, EventInvImplies, PTL DEF EventSpec

=============================================================================
