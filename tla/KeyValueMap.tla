----------------------------- MODULE KeyValueMap -----------------------------
(***************************************************************************)
(* What CTSL::HashMap promises its callers: every find, insert and erase   *)
(* takes effect in one moment between its call and its return, and clear   *)
(* takes effect on one bucket after the other.                             *)
(***************************************************************************)
EXTENDS Naturals

CONSTANTS Threads, Keys, Values, Buckets, Hash, NotFound

VARIABLES
  map,    \* key -> value, for the keys present
  call    \* thread -> the call it is in: op, key, val, state and, when done, res
vars == <<map, call>>

Idle == [op |-> "none"]
Calls ==
  {[op |-> "insert", key |-> k, val |-> v, state |-> "called", res |-> NotFound] : k \in Keys, v \in Values}
  \cup {[op |-> o, key |-> k, val |-> NotFound, state |-> "called", res |-> NotFound] : o \in {"find", "erase"}, k \in Keys}
Clears(b) == [op |-> "clear", key |-> b, val |-> NotFound, state |-> "called", res |-> NotFound]

Init == map = [k \in {} |-> NotFound] /\ call = [t \in Threads |-> Idle]

Invoke(t) ==
  /\ call[t] = Idle
  /\ \E c \in Calls \cup {Clears(1)} : call' = [call EXCEPT ![t] = c]
  /\ UNCHANGED map

Drop(m, S) == [k \in DOMAIN m \ S |-> m[k]]

Effect(t) ==
  /\ call[t] # Idle /\ call[t].state = "called"
  /\ LET c == call[t]
         found == IF c.op = "find" /\ c.key \in DOMAIN map THEN map[c.key] ELSE NotFound
     IN /\ call' = [call EXCEPT ![t].state = "done", ![t].res = found]
        /\ map' = CASE c.op = "insert" -> [k \in DOMAIN map \cup {c.key} |->
                                              IF k = c.key THEN c.val ELSE map[k]]
                    [] c.op = "erase" -> Drop(map, {c.key})
                    [] c.op = "clear" -> Drop(map, {k \in Keys : Hash[k] = c.key})
                    [] c.op = "find" -> map

\* A call returns; clear goes on with the next bucket.
Return(t) ==
  /\ call[t] # Idle /\ call[t].state = "done"
  /\ call' = [call EXCEPT ![t] = IF @.op = "clear" /\ @.key + 1 \in Buckets THEN Clears(@.key + 1) ELSE Idle]
  /\ UNCHANGED map

Next == \E t \in Threads : Invoke(t) \/ Effect(t) \/ Return(t)
Spec == Init /\ [][Next]_vars
=============================================================================
