------------------------------ MODULE RefCount -------------------------------
(***************************************************************************)
(* The control block _ARCCtl behind salticidae's ArcObj, with which        *)
(* connections, messages and event contexts are shared by threads.  One    *)
(* step is one atomic access.  A thread that holds a reference may copy it *)
(* for itself or for another thread (captured in a closure), and drops     *)
(* each of its references.  No code makes an AweakObj: weak_cnt stays 0.   *)
(***************************************************************************)
EXTENDS Naturals, FiniteSetTheorems, TLAPS

CONSTANTS
  Threads,
  Owner,      \* the thread that made the object
  Nobody,     \* no thread
  MaxCopies   \* bound on the copies ever made

UintSize == 256   \* dcnt is a uint8_t

\* What the proofs assume of the constants: dcnt can count all threads.
Assumptions ==
  IsFiniteSet(Threads) /\ Cardinality(Threads) < UintSize /\ Owner \in Threads /\ Nobody \notin Threads /\ MaxCopies \in Nat

Refs == 0 .. MaxCopies   \* the ArcObjs: the first one and its copies

VARIABLES
  ref_cnt, dcnt,
  holder,     \* ArcObj -> the thread that has it, or Nobody
  copies,     \* how many copies were made
  pc,         \* where a thread is in release_ref and the destructor
  objDeleted, ctlDeleted  \* how often D()(obj) and `delete this' ran
vars == <<ref_cnt, dcnt, holder, copies, pc, objDeleted, ctlDeleted>>

Holds(t) == \E i \in Refs : holder[i] = t

Init ==
  /\ ref_cnt = 1 /\ dcnt = 0
  /\ holder = [i \in Refs |-> IF i = 0 THEN Owner ELSE Nobody] /\ copies = 0
  /\ pc = [t \in Threads |-> "idle"]
  /\ objDeleted = 0 /\ ctlDeleted = 0

Goto(t, label) == pc' = [pc EXCEPT ![t] = label]

\* Copy an ArcObj: add_ref.
AddRef(t, u) ==
  /\ pc[t] = "idle" /\ Holds(t) /\ copies < MaxCopies
  /\ ref_cnt' = ref_cnt + 1
  /\ holder' = [holder EXCEPT ![copies + 1] = u] /\ copies' = copies + 1
  /\ UNCHANGED <<dcnt, pc, objDeleted, ctlDeleted>>

\* release_ref: dcnt++ ...
Enter(t) ==
  /\ pc[t] = "idle" /\ Holds(t)
  /\ dcnt' = (dcnt + 1) % UintSize
  /\ Goto(t, "drop")
  /\ UNCHANGED <<ref_cnt, holder, copies, objDeleted, ctlDeleted>>

\* ... --ref_cnt; only the thread that leaves 0 goes on to delete ...
Drop(t) ==
  /\ pc[t] = "drop"
  /\ \E i \in Refs : holder[i] = t /\ holder' = [holder EXCEPT ![i] = Nobody]
  /\ ref_cnt' = ref_cnt - 1
  /\ Goto(t, IF ref_cnt = 1 THEN "last" ELSE "leave")
  /\ UNCHANGED <<dcnt, copies, objDeleted, ctlDeleted>>

\* Whoever takes ref_cnt to 0 deletes the block, as _RCCtl does.
MutFinish(t) ==
  /\ pc[t] \in {"leave", "last"}
  /\ dcnt' = (dcnt + UintSize - 1) % UintSize
  /\ ctlDeleted' = IF pc[t] = "last" THEN ctlDeleted + 1 ELSE ctlDeleted
  /\ Goto(t, IF pc[t] = "last" THEN "delete" ELSE "idle")
  /\ UNCHANGED <<ref_cnt, holder, copies, objDeleted>>

\* ... and --dcnt: the block is deleted only if no other release is under way.
Finish(t) ==
  /\ pc[t] \in {"leave", "last"}
  /\ dcnt' = (dcnt + UintSize - 1) % UintSize
  /\ ctlDeleted' = IF pc[t] = "last" /\ dcnt = 1 THEN ctlDeleted + 1 ELSE ctlDeleted
  /\ Goto(t, IF pc[t] = "last" THEN "delete" ELSE "idle")
  /\ UNCHANGED <<ref_cnt, holder, copies, objDeleted>>

\* release_ref returned true: the destructor deletes the object.
DeleteObj(t) ==
  /\ pc[t] = "delete"
  /\ objDeleted' = objDeleted + 1 /\ Goto(t, "idle")
  /\ UNCHANGED <<ref_cnt, dcnt, holder, copies, ctlDeleted>>

Step(t) == Enter(t) \/ Drop(t) \/ Finish(t) \/ DeleteObj(t)
Next == \E t \in Threads : Step(t) \/ \E u \in Threads : AddRef(t, u)

Spec == Init /\ [][Next]_vars

-----------------------------------------------------------------------------
\* A thread that has to delete the object.
Deleting(t) == pc[t] \in {"last", "delete"}

\* The control block is deleted at most once, and never while a thread still
\* holds a reference or has yet to access the block in release_ref.
NoUseAfterFree ==
  /\ ctlDeleted <= 1
  /\ ctlDeleted = 1 => \A t \in Threads : ~Holds(t) /\ pc[t] \in {"idle", "delete"}

\* The object outlives every reference and is deleted once: no thread is about
\* to delete it while another one can still use it, or has to delete it too.
ObjectAlive ==
  /\ objDeleted <= 1
  /\ \A t \in Threads : Deleting(t) => objDeleted = 0 /\ \A u \in Threads \ {t} : ~Deleting(u)
  /\ \A t \in Threads : Holds(t) => objDeleted = 0 /\ \A u \in Threads : ~Deleting(u)

-----------------------------------------------------------------------------
Held == {i \in Refs : holder[i] # Nobody}
Inside == {t \in Threads : pc[t] \in {"drop", "leave", "last"}}

TypeOK ==
  /\ ref_cnt \in Nat /\ dcnt \in Nat /\ copies \in Refs
  /\ holder \in [Refs -> Threads \cup {Nobody}]
  /\ pc \in [Threads -> {"idle", "drop", "leave", "last", "delete"}]
  /\ objDeleted \in {0, 1} /\ ctlDeleted \in {0, 1}

\* The counters count: ref_cnt the references, dcnt the threads in release_ref.
\* While a reference is left nobody deletes; afterwards one thread deletes the
\* object, and the block is gone only when every thread has left release_ref.
CountsAgree ==
  /\ ref_cnt = Cardinality(Held) /\ dcnt = Cardinality(Inside)
  /\ \A i \in Refs : i > copies => holder[i] = Nobody
  /\ \A t \in Threads : pc[t] = "drop" => Holds(t)
  /\ Held # {} => objDeleted = 0 /\ ctlDeleted = 0 /\ \A t \in Threads : ~Deleting(t)
  /\ \A t, u \in Threads : Deleting(t) /\ Deleting(u) => t = u
  /\ \A t \in Threads : Deleting(t) => objDeleted = 0 /\ (pc[t] = "last" => ctlDeleted = 0)
  /\ ctlDeleted = 1 => Inside = {}

LEMMA Finite == ASSUME Assumptions PROVE IsFiniteSet(Held) /\ IsFiniteSet(Inside)
<1>1. IsFiniteSet(Refs)
  BY FS_Interval DEF Assumptions, Refs
<1> QED
  BY <1>1, FS_Subset DEF Assumptions, Held, Inside

LEMMA CountFits == ASSUME Assumptions PROVE Cardinality(Inside) \in 0 .. UintSize - 1
<1>1. Inside \subseteq Threads
  BY DEF Inside
<1>2. Cardinality(Inside) \in Nat /\ Cardinality(Threads) \in Nat /\ Cardinality(Inside) <= Cardinality(Threads)
  BY <1>1, FS_Subset, FS_CardinalityType DEF Assumptions
<1> QED
  BY <1>2 DEF Assumptions, UintSize

LEMMA InitCounts == ASSUME Assumptions, Init PROVE TypeOK /\ CountsAgree
<1>1. Held = {0} /\ Inside = {} /\ 0 \in Refs
  BY DEF Assumptions, Init, Held, Inside, Refs
<1>2. TypeOK
  BY <1>1 DEF Assumptions, Init, TypeOK, Refs
<1>3. ref_cnt = Cardinality(Held) /\ dcnt = Cardinality(Inside)
  BY Zenon, <1>1, FS_Singleton, FS_EmptySet DEF Init
<1> QED
  BY <1>1, <1>2, <1>3 DEF Assumptions, Init, CountsAgree, Deleting, Refs

LEMMA StepCounts ==
  ASSUME Assumptions, TypeOK, CountsAgree, [Next]_vars
  PROVE  TypeOK' /\ CountsAgree'
<1> USE DEF Assumptions
<1>f. IsFiniteSet(Held) /\ IsFiniteSet(Inside)
  BY Finite
<1>1. ASSUME NEW t \in Threads, NEW u \in Threads, AddRef(t, u)
      PROVE  TypeOK' /\ CountsAgree'
  <2>1. copies + 1 \in Refs /\ holder[copies + 1] = Nobody /\ Held # {}
    BY SMTT(30), <1>1 DEF AddRef, TypeOK, CountsAgree, Refs, Holds, Held
  <2>2. Held' = Held \cup {copies + 1} /\ copies + 1 \notin Held /\ Inside' = Inside
    BY <1>1, <2>1 DEF AddRef, TypeOK, Held, Inside
  <2>3. TypeOK'
    BY <1>1, <2>1 DEF AddRef, TypeOK
  <2>4. ref_cnt' = Cardinality(Held') /\ dcnt' = Cardinality(Inside')
    BY Zenon, <1>1, <1>f, <2>2, FS_AddElement DEF AddRef, CountsAgree
  <2>5. \A v \in Threads : pc[v] = "drop" => Holds(v)'
    BY <1>1, <2>1 DEF AddRef, TypeOK, CountsAgree, Holds
  <2> QED
    BY <1>1, <2>1, <2>2, <2>3, <2>4, <2>5 DEF AddRef, TypeOK, CountsAgree, Deleting, Refs
<1>2. ASSUME NEW t \in Threads, Enter(t)
      PROVE  TypeOK' /\ CountsAgree'
  <2>1. Held' = Held /\ Inside' = Inside \cup {t} /\ t \notin Inside /\ Held # {}
    BY <1>2 DEF Enter, Goto, TypeOK, Held, Inside, Holds
  <2>a. Inside \cup {t} \subseteq Threads /\ Cardinality(Inside \cup {t}) = Cardinality(Inside) + 1
    BY <1>f, <2>1, FS_AddElement DEF Inside
  <2>b. Cardinality(Inside) \in Nat /\ Cardinality(Inside) + 1 < UintSize
    BY <1>f, <2>a, FS_Subset, FS_CardinalityType DEF UintSize
  <2>c. dcnt' = dcnt + 1
    BY <1>2, <2>b DEF Enter, CountsAgree, UintSize
  <2>2. ref_cnt' = Cardinality(Held') /\ dcnt' = Cardinality(Inside')
    BY Zenon, <1>2, <2>1, <2>a, <2>c DEF Enter, CountsAgree
  <2> QED
    BY <1>2, <2>1, <2>2, <2>c DEF Enter, Goto, TypeOK, CountsAgree, Deleting, Holds
<1>3. ASSUME NEW t \in Threads, Drop(t)
      PROVE  TypeOK' /\ CountsAgree'
  <2>1. PICK i \in Refs : holder[i] = t /\ holder' = [holder EXCEPT ![i] = Nobody]
    BY Zenon, <1>3 DEF Drop
  <2>2. Held' = Held \ {i} /\ i \in Held /\ Inside' = Inside
    BY <1>3, <2>1 DEF Drop, Goto, TypeOK, Held, Inside
  <2>3. ref_cnt' = Cardinality(Held') /\ dcnt' = Cardinality(Inside')
    BY Zenon, <1>3, <1>f, <2>2, FS_RemoveElement DEF Drop, CountsAgree
  <2>4. IsFiniteSet(Held') /\ Cardinality(Held') \in Nat
    BY <1>f, <2>2, FS_RemoveElement, FS_CardinalityType
  <2>5. TypeOK'
    BY <1>3, <2>1, <2>3, <2>4 DEF Drop, Goto, TypeOK
  <2>6. Held' # {} <=> ref_cnt # 1
    BY <1>3, <2>3, <2>4, FS_EmptySet DEF Drop, TypeOK
  <2>7. \A v \in Threads : pc'[v] = "drop" => Holds(v)'
    BY <1>3, <2>1 DEF Drop, Goto, TypeOK, CountsAgree, Holds
  <2> QED
    BY <1>3, <2>1, <2>2, <2>3, <2>5, <2>6, <2>7 DEF Drop, Goto, TypeOK, CountsAgree, Deleting
<1>4. ASSUME NEW t \in Threads, Finish(t)
      PROVE  TypeOK' /\ CountsAgree'
  <2>1. Held' = Held /\ Inside' = Inside \ {t} /\ t \in Inside
    BY <1>4 DEF Finish, Goto, TypeOK, Held, Inside
  <2>a. Cardinality(Inside) \in 1 .. UintSize - 1
    BY <1>f, <2>1, CountFits, FS_EmptySet DEF UintSize
  <2>b. dcnt' = dcnt - 1
    BY <1>4, <2>a DEF Finish, CountsAgree, UintSize
  <2>2. ref_cnt' = Cardinality(Held') /\ dcnt' = Cardinality(Inside')
    BY Zenon, <1>4, <1>f, <2>1, <2>b, FS_RemoveElement DEF Finish, CountsAgree
  <2>3. IsFiniteSet(Inside') /\ Cardinality(Inside') \in Nat
    BY <1>f, <2>1, FS_RemoveElement, FS_CardinalityType
  <2>4. dcnt = 1 => Inside' = {}
    BY <2>b, <2>2, <2>3, FS_EmptySet
  <2>5. TypeOK'
    BY <1>4, <2>b, <2>2, <2>3 DEF Finish, Goto, TypeOK, CountsAgree, Deleting
  <2> QED
    BY <1>4, <2>1, <2>2, <2>4, <2>5 DEF Finish, Goto, TypeOK, CountsAgree, Deleting, Holds
<1>5. ASSUME NEW t \in Threads, DeleteObj(t)
      PROVE  TypeOK' /\ CountsAgree'
  <2>1. Held' = Held /\ Inside' = Inside
    BY <1>5 DEF DeleteObj, Goto, TypeOK, Held, Inside
  <2> QED
    BY <1>5, <2>1 DEF DeleteObj, Goto, TypeOK, CountsAgree, Deleting, Holds
<1>6. CASE UNCHANGED vars
  BY <1>6 DEF vars, TypeOK, CountsAgree, Held, Inside, Deleting, Holds
<1> QED
  BY <1>1, <1>2, <1>3, <1>4, <1>5, <1>6 DEF Next, Step

\* The counters of _ARCCtl are those of the references and of the threads in
\* release_ref, for up to 255 threads and any number of copies.
THEOREM Counted == ASSUME Assumptions PROVE Spec => [](TypeOK /\ CountsAgree)
BY InitCounts, StepCounts, PTL DEF Spec

\* No thread uses the control block after release_ref of another one freed it.
THEOREM NeverFreedInUse == ASSUME Assumptions PROVE Spec => []NoUseAfterFree
<1>1. TypeOK /\ CountsAgree => NoUseAfterFree
  BY DEF Assumptions, TypeOK, CountsAgree, NoUseAfterFree, Held, Inside, Holds
<1> QED
  BY <1>1, Counted, PTL

\* The object is deleted once, by one thread, after its last reference is gone.
THEOREM AliveWhileHeld == ASSUME Assumptions PROVE Spec => []ObjectAlive
<1>1. TypeOK /\ CountsAgree => ObjectAlive
  BY DEF Assumptions, TypeOK, CountsAgree, ObjectAlive, Held, Holds
<1> QED
  BY <1>1, Counted, PTL
=============================================================================
