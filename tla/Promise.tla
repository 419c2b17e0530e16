------------------------------- MODULE Promise -------------------------------
(***************************************************************************)
(* The promises of promise.hpp (the variant that runs callbacks on the     *)
(* stack: CPPROMISE_USE_STACK_FREE is never defined).  One thread uses     *)
(* them, but a callback may settle other promises and register further     *)
(* callbacks while the callbacks of its own promise are being run, so the  *)
(* call stack is part of the state.                                        *)
(*                                                                         *)
(* A handler is what the program passes to then: `act' and `on' are what   *)
(* its body does, and to which promise, before it returns; `ret' is how it *)
(* returns, "void", "value" (val) or "promise" (from).                     *)
(***************************************************************************)
EXTENDS Naturals, Sequences, FiniteSets, SequencesExt

CONSTANTS
  MaxPromises,   \* bound on the promises ever made
  MaxCalls,      \* bound on the calls of the program at the top level
  Void,          \* the empty pm_any_t
  Pairs,         \* the pairs of handlers the program passes to then
  Lists,         \* the lists it passes to all and race
  Plain,         \* the handler that handlers register
  None           \* no handler on that side

Promises == 1..MaxPromises
Settled == {"Fulfilled", "Rejected"}

VARIABLES
  state, value,  \* Promise::state; result or reason
  cbs,           \* fulfilled_callbacks and rejected_callbacks
  stack,         \* the statements still to run, innermost first
  made,          \* how many promises exist
  origin,        \* how a promise came to be: by then, all, race or bare
  queued,        \* then: whether its callbacks were put into the lists
  direct,        \* whether the program settled the promise itself
  todo,          \* all: the counter *size
  ran,           \* the order in which the callbacks ran: <<then promise, side>>
  calls          \* calls made so far
vars == <<state, value, cbs, stack, made, origin, queued, direct, todo, ran, calls>>

Bare == [kind |-> "bare"]
NoCallbacks == [Fulfilled |-> <<>>, Rejected |-> <<>>]

Init ==
  /\ state = [p \in Promises |-> "Pending"] /\ value = [p \in Promises |-> Void]
  /\ cbs = [p \in Promises |-> NoCallbacks]
  /\ stack = <<>> /\ made = 0
  /\ origin = [p \in Promises |-> Bare]
  /\ queued = [p \in Promises |-> FALSE] /\ direct = [p \in Promises |-> FALSE]
  /\ todo = [p \in Promises |-> 0] /\ ran = <<>> /\ calls = 0

Handler(npm, side) == IF side = "Fulfilled" THEN origin[npm].onFul ELSE origin[npm].onRej

(***************************************************************************)
(* Callbacks are [do, npm, at]: "then" runs the handler of npm, "forward"  *)
(* settles npm as the source was (cps_transform, race), "slot" is the      *)
(* at-th member of the all that npm stands for.                            *)
(* Statements are callbacks about to run on a settled source, `settle',    *)
(* `register' (the call of then inside the library) and the loop of        *)
(* trigger_fulfill or trigger_reject.                                      *)
(***************************************************************************)
Callback(do, npm, at) == [do |-> do, npm |-> npm, at |-> at]
Call(cb, src) == [op |-> "call", cb |-> cb, src |-> src]
Settle(p, side, v) == [op |-> "settle", p |-> p, side |-> side, v |-> v]
Register(src, cb) == [op |-> "register", src |-> src, cb |-> cb]
Loop(p, i) == [op |-> "loop", p |-> p, i |-> i]

Make(o) ==
  /\ made < MaxPromises /\ made' = made + 1
  /\ origin' = [origin EXCEPT ![made + 1] = o]
ThenOf(p, onFul, onRej) == [kind |-> "then", src |-> p, onFul |-> onFul, onRej |-> onRej]

Push(stmts) == stack' = stmts \o Tail(stack)
Doing(op) == stack # <<>> /\ Head(stack).op = op

\* resolve and reject: nothing happens unless the promise is pending; its state
\* is set before its callbacks run.
DoSettle ==
  /\ Doing("settle")
  /\ LET s == Head(stack) IN
       IF state[s.p] = "Pending"
       THEN /\ state' = [state EXCEPT ![s.p] = s.side]
            /\ value' = [value EXCEPT ![s.p] = s.v]
            /\ Push(<<Loop(s.p, 1)>>)
       ELSE Push(<<>>) /\ UNCHANGED <<state, value>>
  /\ UNCHANGED <<cbs, made, origin, queued, direct, todo, ran, calls>>

\* trigger_fulfill and trigger_reject: run the callbacks of the side in order,
\* then clear that side.
DoLoop ==
  /\ Doing("loop")
  /\ LET s == Head(stack)
         side == state[s.p]
     IN IF s.i <= Len(cbs[s.p][side])
        THEN /\ Push(<<Call(cbs[s.p][side][s.i], s.p), Loop(s.p, s.i + 1)>>)
             /\ UNCHANGED cbs
        ELSE /\ cbs' = [cbs EXCEPT ![s.p][side] = <<>>]
             /\ Push(<<>>)
  /\ UNCHANGED <<state, value, made, origin, queued, direct, todo, ran, calls>>

\* What a handler's body does to other promises; "then" registers Plain, whose
\* promise is the next one made.
Body(h) ==
  CASE h.act = "none" -> <<>>
    [] h.act = "resolve" -> <<Settle(h.on, "Fulfilled", h.val)>>
    [] h.act = "reject" -> <<Settle(h.on, "Rejected", h.val)>>
    [] h.act = "then" -> IF made < MaxPromises
                         THEN <<Register(h.on, Callback("then", made + 1, 0))>> ELSE <<>>

\* gen_on_fulfilled and gen_on_rejected: what becomes of npm after the handler.
\* A handler of the rejected side rejects npm, unless it returns a promise.
After(h, npm, side) ==
  CASE h.ret = "void" -> <<Settle(npm, side, Void)>>
    [] h.ret = "value" -> <<Settle(npm, side, h.val)>>
    [] h.ret = "promise" -> <<Register(h.from, Callback("forward", npm, 0))>>

\* Run the callback that then registered.  Without a handler for the side, npm
\* takes over the outcome.
DoThen ==
  /\ Doing("call") /\ Head(stack).cb.do = "then"
  /\ LET s == Head(stack)
         side == state[s.src]
         h == Handler(s.cb.npm, side)
     IN IF h = None
        THEN /\ Push(<<Settle(s.cb.npm, side, value[s.src])>>)
             /\ UNCHANGED <<ran, direct, made, origin>>
        ELSE /\ Push(Body(h) \o After(h, s.cb.npm, side))
             /\ ran' = Append(ran, <<s.cb.npm, side>>)
             /\ direct' = [direct EXCEPT ![h.on] = @ \/ h.act \in {"resolve", "reject"}]
             /\ IF h.act = "then" /\ made < MaxPromises
                THEN Make(ThenOf(h.on, Plain, None)) ELSE UNCHANGED <<made, origin>>
  /\ UNCHANGED <<state, value, cbs, queued, todo, calls>>

\* cps_transform's inner callbacks and those of race.
DoForward ==
  /\ Doing("call") /\ Head(stack).cb.do = "forward"
  /\ LET s == Head(stack) IN
       Push(<<Settle(s.cb.npm, state[s.src], value[s.src])>>)
  /\ UNCHANGED <<state, value, cbs, made, origin, queued, direct, todo, ran, calls>>

\* The results all has collected: its members' values in the order of the list.
Results(npm) == [i \in DOMAIN origin[npm].list |-> value[origin[npm].list[i]]]

\* A member of all settled: store its result and count down, or reject.
DoSlot ==
  /\ Doing("call") /\ Head(stack).cb.do = "slot"
  /\ LET s == Head(stack)
         npm == s.cb.npm
     IN IF state[s.src] = "Rejected"
        THEN Push(<<Settle(npm, "Rejected", value[s.src])>>) /\ UNCHANGED todo
        ELSE /\ todo' = [todo EXCEPT ![npm] = @ - 1]
             /\ Push(IF todo[npm] = 1 THEN <<Settle(npm, "Fulfilled", Results(npm))>> ELSE <<>>)
  /\ UNCHANGED <<state, value, cbs, made, origin, queued, direct, ran, calls>>

\* A settled promise keeps the callback too.
MutDoRegister ==
  /\ Doing("register")
  /\ LET s == Head(stack) IN
       /\ cbs' = [cbs EXCEPT ![s.src] = [side \in Settled |-> Append(@[side], s.cb)]]
       /\ queued' = [queued EXCEPT ![s.cb.npm] = (s.cb.do = "then")]
       /\ Push(IF state[s.src] = "Pending" THEN <<>> ELSE <<Call(s.cb, s.src)>>)
  /\ UNCHANGED <<state, value, made, origin, direct, todo, ran, calls>>

\* Promise::then: a pending promise keeps the callbacks, a settled one runs the
\* one of its side at once.
DoRegister ==
  /\ Doing("register")
  /\ LET s == Head(stack) IN
       IF state[s.src] = "Pending"
       THEN /\ cbs' = [cbs EXCEPT ![s.src] = [side \in Settled |-> Append(@[side], s.cb)]]
            /\ queued' = [queued EXCEPT ![s.cb.npm] = @ \/ s.cb.do = "then"]
            /\ Push(<<>>)
       ELSE Push(<<Call(s.cb, s.src)>>) /\ UNCHANGED <<cbs, queued>>
  /\ UNCHANGED <<state, value, made, origin, direct, todo, ran, calls>>

Step == DoSettle \/ DoLoop \/ DoThen \/ DoForward \/ DoSlot \/ DoRegister

(***************************************************************************)
(* The calls of the program, from the top level.                           *)
(***************************************************************************)
TopLevel == stack = <<>> /\ calls < MaxCalls /\ calls' = calls + 1
\* promise_t()
New ==
  /\ TopLevel /\ Make(Bare)
  /\ UNCHANGED <<state, value, cbs, stack, queued, direct, todo, ran>>

\* promise_t::resolve and promise_t::reject, with a value of its own each time.
CallSettle(p, side) ==
  /\ TopLevel /\ p <= made
  /\ stack' = <<Settle(p, side, <<calls>>)>>
  /\ direct' = [direct EXCEPT ![p] = TRUE]
  /\ UNCHANGED <<state, value, cbs, made, origin, queued, todo, ran>>

\* promise_t::then with one or two handlers, and fail (no handler on the left)
CallThen(p, onFul, onRej) ==
  /\ TopLevel /\ p <= made /\ (onFul # None \/ onRej # None)
  /\ Make(ThenOf(p, onFul, onRej))
  /\ \A h \in {onFul, onRej} \ {None} : h.on <= made /\ h.from <= made
  /\ stack' = <<Register(p, Callback("then", made + 1, 0))>>
  /\ UNCHANGED <<state, value, cbs, queued, direct, todo, ran>>

\* all: register a slot with every member, in order.  An empty list throws.
CallAll(list) ==
  /\ TopLevel /\ list # <<>> /\ \A i \in DOMAIN list : list[i] <= made
  /\ Make([kind |-> "all", list |-> list])
  /\ todo' = [todo EXCEPT ![made + 1] = Len(list)]
  /\ stack' = [i \in DOMAIN list |-> Register(list[i], Callback("slot", made + 1, i))]
  /\ UNCHANGED <<state, value, cbs, queued, direct, ran>>

\* race: every member forwards its outcome.
CallRace(list) ==
  /\ TopLevel /\ \A i \in DOMAIN list : list[i] <= made
  /\ Make([kind |-> "race", list |-> list])
  /\ stack' = [i \in DOMAIN list |-> Register(list[i], Callback("forward", made + 1, i))]
  /\ UNCHANGED <<state, value, cbs, queued, direct, todo, ran>>

Program ==
  \/ New
  \/ \E p \in Promises, side \in Settled : CallSettle(p, side)
  \/ \E p \in Promises, h \in Pairs : CallThen(p, h[1], h[2])
  \/ \E list \in Lists : CallAll(list) \/ CallRace(list)

Next == Step \/ Program
Spec == Init /\ [][Next]_vars
-----------------------------------------------------------------------------
\* A settled promise keeps its state and its value for ever: a second resolve
\* or reject, from the program or from a chain, changes nothing (577-599).
SettledForGood ==
  [][\A p \in Promises : state[p] \in Settled => state'[p] = state[p] /\ value'[p] = value[p]]_vars

\* The list of callbacks that trigger_fulfill iterates over is not touched by
\* the callbacks themselves, which may call then on the very promise: its
\* iterators stay valid until the loop clears it (472-482).
ListStableWhileIterated ==
  [][\A k \in DOMAIN stack :
       stack[k].op = "loop" =>
         LET p == stack[k].p IN
         cbs'[p][state[p]] = cbs[p][state[p]] \/ (k = 1 /\ cbs'[p][state[p]] = <<>>)]_vars

\* Whenever the stack has unwound, the handlers of a promise that has settled
\* have run exactly once, on the side it settled on and no other, and those of
\* a pending one have not run (489-575).
HandlersRunOnce ==
  stack = <<>> =>
    \A npm \in 1..made : origin[npm].kind = "then" =>
      LET src == origin[npm].src
          runs == SelectSeq(ran, LAMBDA r : r[1] = npm)
      IN runs = IF state[src] = "Pending" \/ Handler(npm, state[src]) = None
                THEN <<>> ELSE <<<<npm, state[src]>>>>

\* Handlers that were registered with the same promise while it was pending
\* run in the order of their registration (474, 480).
RunInOrder ==
  \A i, j \in DOMAIN ran :
    LET a == ran[i][1]  b == ran[j][1] IN
    i < j /\ queued[a] /\ queued[b] /\ origin[a].src = origin[b].src => a < b

\* What a promise made by then, all or race may be, given its sources.
Now(p) == <<state[p], value[p]>>
AfterThen(o, h) ==
  IF state[o.src] = "Pending" \/ h = None THEN Now(o.src)
  ELSE CASE h.ret = "void" -> <<state[o.src], Void>>
         [] h.ret = "value" -> <<state[o.src], h.val>>
         [] h.ret = "promise" -> Now(h.from)
Outcomes(npm) ==
  LET o == origin[npm]
      In(states) == {p \in {o.list[i] : i \in DOMAIN o.list} : state[p] \in states}
      Unsettled == {<<"Pending", Void>>}
  IN CASE o.kind = "then" -> {AfterThen(o, Handler(npm, state[o.src]))}
       [] o.kind = "all" ->
            IF In({"Rejected"}) # {} THEN {Now(p) : p \in In({"Rejected"})}
            ELSE IF In({"Pending"}) # {} THEN Unsettled ELSE {<<"Fulfilled", Results(npm)>>}
       [] o.kind = "race" ->
            IF In(Settled) = {} THEN Unsettled ELSE {Now(p) : p \in In(Settled)}

\* Whenever the stack has unwound, every derived promise that nobody settled
\* directly is what its sources say: a chain is neither stuck nor early, all
\* waits for every member and gives the results in the order of the list,
\* whatever the order in which the members settled (235-374, 602-637).
ChainsAgree ==
  stack = <<>> =>
    \A npm \in 1..made :
      origin[npm].kind = "bare" \/ direct[npm] \/ <<state[npm], value[npm]>> \in Outcomes(npm)
=============================================================================
