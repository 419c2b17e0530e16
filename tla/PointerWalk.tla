----------------------------- MODULE PointerWalk -----------------------------
(***************************************************************************)
(* The owning pointers of salticidae/ref.h in the hands of one thread:     *)
(* BoxObj (one owner), RcObj and WeakObj (counted, control block _RCCtl).  *)
(* Objects are made in the order of their numbers.  Each one has a member  *)
(* that is itself an RcObj (a block's parent, an option's value), so that  *)
(* deleting an object may delete the next, and an assignment may read its  *)
(* right side out of the object its left side is about to let go of.       *)
(* Members refer to older objects only: the blocks form no cycle.          *)
(***************************************************************************)
EXTENDS Naturals, FiniteSets

CONSTANTS
  NObjects,  \* bound on the objects made
  Rcs,       \* RcObj variables, numbered above the objects
  Weaks,     \* WeakObj variables
  Boxes      \* BoxObj variables

Objects == 1..NObjects
Null == 0
Places == Objects \cup Rcs  \* place o \in Objects is the member of object o

VARIABLE mem  \* the heap and all the pointers
vars == <<mem>>

Init ==
  mem = [rc |-> [p \in Places |-> [obj |-> Null, ctl |-> Null]],
         weak |-> [w \in Weaks |-> Null], box |-> [b \in Boxes |-> Null],
         raw |-> Null,  \* a pointer taken out of a box, owned by a closure
         ref_cnt |-> [o \in Objects |-> 0], weak_cnt |-> [o \in Objects |-> 0],
         ctl |-> [o \in Objects |-> "none"], obj |-> [o \in Objects |-> "none"],
         fault |-> FALSE]  \* freed memory was touched

Exists(p) == p \in Objects => mem.obj[p] = "live"
Fresh == {o \in Objects : mem.obj[o] = "none" /\ \A q \in 1..(o - 1) : mem.obj[q] # "none"}
May(p, o) == (p \in Objects /\ o # Null) => o < p

AddRef(m, o) ==
  IF o = Null THEN m
  ELSE [m EXCEPT !.ref_cnt[o] = @ + 1, !.fault = @ \/ m.ctl[o] # "live"]

AddWeak(m, o) ==
  IF o = Null THEN m
  ELSE [m EXCEPT !.weak_cnt[o] = @ + 1, !.fault = @ \/ m.ctl[o] # "live"]

\* The last reference of either kind frees the control block.
ReleaseWeak(m, o) ==
  IF o = Null THEN m
  ELSE [m EXCEPT !.weak_cnt[o] = @ - 1, !.fault = @ \/ m.ctl[o] # "live",
                 !.ctl[o] = IF m.weak_cnt[o] = 1 /\ m.ref_cnt[o] = 0 THEN "freed" ELSE @]

RECURSIVE ReleaseRef(_, _)

\* D()(obj): the destructor of the object lets go of its member.
Delete(m, o) ==
  LET d == [m EXCEPT !.obj[o] = "deleted", !.fault = @ \/ m.obj[o] # "live",
                     !.rc[o] = [obj |-> Null, ctl |-> Null]]
  IN ReleaseRef(d, m.rc[o].ctl)

\* ~_RcObjBase: the last strong reference deletes the object; the control
\* block stays while there are weak ones.
ReleaseRef(m, o) ==
  IF o = Null THEN m
  ELSE LET r == [m EXCEPT !.ref_cnt[o] = @ - 1, !.fault = @ \/ m.ctl[o] # "live"]
       IN IF r.ref_cnt[o] > 0 THEN r
          ELSE Delete([r EXCEPT !.ctl[o] = IF m.weak_cnt[o] > 0 THEN @ ELSE "freed"], o)

\* tmp.swap(*this), then tmp goes: the new value is in place before the old
\* one is released.
SwapIn(m, p, v) == ReleaseRef([m EXCEPT !.rc[p] = v], m.rc[p].ctl)

\* The old value is released before the new one is counted.
MutCopyRc(p, q) ==
  /\ Exists(p) /\ Exists(q) /\ p # q /\ May(p, mem.rc[q].ctl)
  /\ mem' = [AddRef(ReleaseRef(mem, mem.rc[p].ctl), mem.rc[q].ctl)
               EXCEPT !.rc[p] = mem.rc[q]]

\* p = q, and static_pointer_cast of a q that is kept.
CopyRc(p, q) ==
  /\ Exists(p) /\ Exists(q) /\ p # q /\ May(p, mem.rc[q].ctl)
  /\ mem' = SwapIn(AddRef(mem, mem.rc[q].ctl), p, mem.rc[q])

\* p = std::move(q), and static_pointer_cast of a q that is given up.  The
\* moved-from q keeps its obj, and so still compares unequal to nullptr.
MoveRc(p, q) ==
  /\ Exists(p) /\ Exists(q) /\ p # q /\ May(p, mem.rc[q].ctl)
  /\ mem' = SwapIn([mem EXCEPT !.rc[q].ctl = Null], p, mem.rc[q])

\* p goes out of scope (and its name is used anew).
DropRc(p) ==
  /\ p \in Rcs
  /\ mem' = SwapIn(mem, p, [obj |-> Null, ctl |-> Null])

\* Adopt object o: ctl(new R()) starts at one reference.
Adopted(m, p, o) ==
  SwapIn([m EXCEPT !.ctl[o] = "live", !.ref_cnt[o] = 1], p, [obj |-> o, ctl |-> o])

\* p = new T.
NewRc(p) ==
  \E o \in Fresh :
    /\ p \in Rcs
    /\ mem' = Adopted([mem EXCEPT !.obj[o] = "live"], p, o)

\* p = std::move(box).
FromBox(p, b) ==
  /\ p \in Rcs /\ mem.box[b] # Null
  /\ mem' = Adopted([mem EXCEPT !.box[b] = Null], p, mem.box[b])

WeakFrom(w, p) ==
  /\ Exists(p)
  /\ mem' = ReleaseWeak([AddWeak(mem, mem.rc[p].ctl) EXCEPT !.weak[w] = mem.rc[p].ctl],
                        mem.weak[w])

CopyWeak(w, v) ==
  /\ w # v
  /\ mem' = ReleaseWeak([AddWeak(mem, mem.weak[v]) EXCEPT !.weak[w] = mem.weak[v]],
                        mem.weak[w])

MoveWeak(w, v) ==
  /\ w # v
  /\ mem' = ReleaseWeak([mem EXCEPT !.weak[w] = mem.weak[v], !.weak[v] = Null],
                        mem.weak[w])

DropWeak(w) == mem' = ReleaseWeak([mem EXCEPT !.weak[w] = Null], mem.weak[w])

\* p = RcObj(w): a reference only while the object is still there.
Lock(p, w) ==
  /\ p \in Rcs
  /\ LET o == IF mem.weak[w] # Null /\ mem.ref_cnt[mem.weak[w]] > 0
              THEN mem.weak[w] ELSE Null
     IN mem' = SwapIn(AddRef(mem, o), p, [obj |-> o, ctl |-> o])

Dispose(m, o) == IF o = Null THEN m ELSE Delete(m, o)

NewBox(b) ==
  \E o \in Fresh :
    mem' = Dispose([mem EXCEPT !.obj[o] = "live", !.box[b] = o], mem.box[b])

MoveBox(b, c) ==
  /\ b # c
  /\ mem' = Dispose([mem EXCEPT !.box[b] = mem.box[c], !.box[c] = Null], mem.box[b])

DropBox(b) == mem' = Dispose([mem EXCEPT !.box[b] = Null], mem.box[b])

\* unwrap(): the pointer goes to a closure ...
Unwrap(b) ==
  /\ mem.raw = Null /\ mem.box[b] # Null
  /\ mem' = [mem EXCEPT !.raw = mem.box[b], !.box[b] = Null]

\* ... that deletes it when it has run.
DeleteRaw ==
  /\ mem.raw # Null
  /\ mem' = Delete([mem EXCEPT !.raw = Null], mem.raw)

Next ==
  \/ \E p, q \in Places : CopyRc(p, q) \/ MoveRc(p, q)
  \/ \E p \in Rcs : DropRc(p) \/ NewRc(p)
  \/ \E p \in Rcs, b \in Boxes : FromBox(p, b)
  \/ \E w \in Weaks, p \in Places : WeakFrom(w, p)
  \/ \E w, v \in Weaks : CopyWeak(w, v) \/ MoveWeak(w, v)
  \/ \E w \in Weaks : DropWeak(w)
  \/ \E p \in Rcs, w \in Weaks : Lock(p, w)
  \/ \E b \in Boxes : NewBox(b) \/ DropBox(b) \/ Unwrap(b)
  \/ \E b, c \in Boxes : MoveBox(b, c)
  \/ DeleteRaw

Spec == Init /\ [][Next]_vars

Holders(o) == {p \in Places : mem.rc[p].ctl = o}
Owners(o) == {b \in Boxes : mem.box[b] = o} \cup {x \in {Null} : mem.raw = o}

\* No sequence of copies, moves, casts, locks and deletions touches a freed
\* control block or deletes an object twice, not even when the destructor of
\* one object runs the destructor of the next.
NoFreedAccess == ~mem.fault

\* The counters are the numbers of references, so get_cnt() may be used to
\* find out whether anyone else still holds a block; the control block lives
\* as long as there is a reference of either kind.
CountsAreReferences ==
  \A o \in Objects :
    /\ mem.ctl[o] = "live" =>
         /\ mem.ref_cnt[o] = Cardinality(Holders(o))
         /\ mem.weak_cnt[o] = Cardinality({w \in Weaks : mem.weak[w] = o})
    /\ mem.ctl[o] = "live" <=> Holders(o) # {} \/ \E w \in Weaks : mem.weak[w] = o

\* An object is alive exactly as long as something owns it: one box or
\* closure, or at least one RcObj, never both; so nothing leaks.
AliveWhileOwned ==
  \A o \in Objects :
    /\ mem.obj[o] = "live" <=> Holders(o) # {} \/ Owners(o) # {}
    /\ Cardinality(Owners(o)) + (IF Holders(o) = {} THEN 0 ELSE 1) <= 1
==============================================================================
