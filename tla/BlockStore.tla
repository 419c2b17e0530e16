------------------------------ MODULE BlockStore ------------------------------
(***************************************************************************)
(* The blocks of one replica as objects: EntityStorage::blk_cache, the     *)
(* pointers parents[0] and qc_ref, HotStuffCore::update, which follows     *)
(* them, and HotStuffCore::prune, which cuts them and drops the blocks     *)
(* that nothing else holds.  The tree itself (parent_of, ref_of, height)   *)
(* is what the hashes in the blocks say and never changes.                 *)
(*                                                                         *)
(* A block is its number, in the order of delivery; 0 is genesis.  The     *)
(* proposals are those of a cluster in which no safety is breached, which  *)
(* is HotStuffCore's subject.                                              *)
(***************************************************************************)
EXTENDS Integers, FiniteSets

CONSTANTS
  MaxBlocks,    \* bound: blocks delivered, genesis excluded
  MaxStaleness  \* bound: the argument of prune

VARIABLES
  nblk,              \* blocks delivered so far
  parent_of, ref_of, \* block -> the block its parent hash, its certificate names
  height,
  blk_cache,         \* the blocks in the storage
  ptr,               \* [parent, qc_ref]: block -> the object pointed at
  core,              \* [hqc, b_lock, b_exec]
  decided,           \* blocks with blk->decision
  kept               \* the lowest block that prune had to keep (history)
vars == <<nblk, parent_of, ref_of, height, blk_cache, ptr, core, decided, kept>>

None == -1
b0 == 0
BlockIds == 0..MaxBlocks
Tree == [parent |-> parent_of, qc_ref |-> ref_of]

Init ==
  /\ nblk = 0
  /\ parent_of = [b \in BlockIds |-> None] /\ ref_of = [b \in BlockIds |-> None]
  /\ height = [b \in BlockIds |-> 0]
  /\ blk_cache = {b0}
  /\ ptr = [parent |-> parent_of, qc_ref |-> ref_of]
  /\ core = [hqc |-> b0, b_lock |-> b0, b_exec |-> b0]
  /\ decided = {b0}
  /\ kept = b0

\* for (b = ...; b->height > h; b = b->parents[0]): the blocks passed, and
\* where it ends; None when it reads parents[0] of a block that has none.
RECURSIVE Walk(_, _, _, _)
Walk(P, ht, b, h) ==
  IF b = None THEN [passed |-> {}, end |-> None]
  ELSE IF ht[b] <= h THEN [passed |-> {}, end |-> b]
  ELSE LET w == Walk(P, ht, P.parent[b], h)
       IN [w EXCEPT !.passed = @ \cup {b}]

\* The checks for a decided block are left out.
MutUpdate(P, ht, c, n) ==
  LET blk2 == P.qc_ref[n]
      blk1 == P.qc_ref[blk2]
      blk == P.qc_ref[blk1]
      c2 == IF ht[blk2] > ht[c.hqc] THEN [c EXCEPT !.hqc = blk2] ELSE c
      c1 == IF ht[blk1] > ht[c.b_lock] THEN [c2 EXCEPT !.b_lock = blk1] ELSE c2
      w == Walk(P, ht, blk, ht[c.b_exec])
  IN IF blk2 = None THEN [core |-> c, commit |-> {}, breach |-> FALSE]
     ELSE IF blk1 = None THEN [core |-> c2, commit |-> {}, breach |-> FALSE]
     ELSE IF blk = None \/ P.parent[blk2] # blk1 \/ P.parent[blk1] # blk
     THEN [core |-> c1, commit |-> {}, breach |-> FALSE]
     ELSE IF w.end # c.b_exec THEN [core |-> c1, commit |-> {}, breach |-> TRUE]
     ELSE [core |-> [c1 EXCEPT !.b_exec = blk], commit |-> w.passed, breach |-> FALSE]

\* HotStuffCore::update(nblk) with the pointers P: "decided blk could possible
\* be incomplete due to pruning", so it stops at one.
Update(P, ht, c, n) ==
  LET blk2 == P.qc_ref[n]
      blk1 == P.qc_ref[blk2]
      blk == P.qc_ref[blk1]
      c2 == IF ht[blk2] > ht[c.hqc] THEN [c EXCEPT !.hqc = blk2] ELSE c
      c1 == IF ht[blk1] > ht[c.b_lock] THEN [c2 EXCEPT !.b_lock = blk1] ELSE c2
      w == Walk(P, ht, blk, ht[c.b_exec])
  IN IF blk2 = None \/ blk2 \in decided
     THEN [core |-> c, commit |-> {}, breach |-> FALSE]
     ELSE IF blk1 = None \/ blk1 \in decided
     THEN [core |-> c2, commit |-> {}, breach |-> FALSE]
     ELSE IF \/ blk = None \/ blk \in decided
             \/ P.parent[blk2] # blk1 \/ P.parent[blk1] # blk
     THEN [core |-> c1, commit |-> {}, breach |-> FALSE]
     ELSE IF w.end # c.b_exec THEN [core |-> c1, commit |-> {}, breach |-> TRUE]
     ELSE [core |-> [c1 EXCEPT !.b_exec = blk], commit |-> w.passed, breach |-> FALSE]

\* A proposal arrives whose parent p and certified block q (p or an ancestor of
\* it) are in the storage: add_blk, on_deliver_blk, update.
Deliver(p, q) ==
  LET n == nblk + 1
      ht == [height EXCEPT ![n] = height[p] + 1]
      at(P) == [parent |-> [P.parent EXCEPT ![n] = p], qc_ref |-> [P.qc_ref EXCEPT ![n] = q]]
      u == Update(at(ptr), ht, core, n)
  IN /\ nblk < MaxBlocks
     /\ p \in blk_cache /\ q \in blk_cache
     /\ q \in Walk(Tree, height, p, -1).passed
     /\ ~Update(at(Tree), ht, core, n).breach
     /\ nblk' = n /\ height' = ht /\ ptr' = at(ptr)
     /\ parent_of' = at(Tree).parent /\ ref_of' = at(Tree).qc_ref
     /\ blk_cache' = blk_cache \cup {n}
     /\ core' = u.core
     /\ decided' = decided \cup u.commit
     /\ UNCHANGED kept

---------------------------------------------------------------------------

\* Skip s blocks from b down; None: there are not that many.
RECURSIVE Skip(_, _)
Skip(b, s) ==
  IF s = 0 \/ b = None THEN b ELSE Skip(ptr.parent[b], s - 1)

\* The pointers that are left in blocks of B, and those that the core holds
\* (b0, b_lock, b_exec, hqc.first and the tails).
PointsAt(P, B, b) == \E x \in B : P.parent[x] = b \/ P.qc_ref[x] = b
Held(b) ==
  \/ b \in {b0, core.hqc, core.b_lock, core.b_exec}
  \/ \A x \in 1..nblk : parent_of[x] # b

\* try_release_blk of the blocks of chain, from the lowest up, after their
\* pointers were cut: get_cnt() is 2 for the stack and the storage.  start is
\* one reference more for the block of that name.
Released(P, chain, start) ==
  {b \in chain \ {start} : b \in blk_cache /\ ~Held(b) /\ ~PointsAt(P, blk_cache, b)}

\* prune(staleness): from start down, cut parents and qc_ref, then release.
Prune(staleness) ==
  LET start == Skip(core.b_exec, staleness)
      chain == Walk(ptr, height, start, -1).passed
      cut == [parent |-> [b \in BlockIds |-> IF b \in chain THEN None ELSE ptr.parent[b]],
              qc_ref |-> [b \in BlockIds |-> IF b \in chain THEN None ELSE ptr.qc_ref[b]]]
  IN /\ start # None
     /\ ptr' = cut
     /\ blk_cache' = blk_cache \ Released(cut, chain, start)
     /\ kept' = Walk(Tree, height, core.b_exec, height[core.b_exec] - staleness).end
     /\ UNCHANGED <<nblk, parent_of, ref_of, height, core, decided>>

Next ==
  \/ \E p, q \in blk_cache : Deliver(p, q)
  \/ \E s \in 0..MaxStaleness : Prune(s)

Spec == Init /\ [][Next]_vars

---------------------------------------------------------------------------
\* What update would do with any delivered block that comes up again, and the
\* walk from it down to b_lock that decides the vote, is not changed by what
\* prune has cut: only decided blocks are incomplete, and update stops there.
PruningIsInvisible ==
  \A n \in blk_cache \ decided :
    /\ Update(ptr, height, core, n) = Update(Tree, height, core, n)
    /\ Walk(ptr, height, n, height[core.b_lock]) = Walk(Tree, height, n, height[core.b_lock])

\* A block that some block in the storage points at is in the storage itself:
\* prune never drops one in use, so fetching its hash again does not make a
\* second object with votes of its own.
PointersAreStored ==
  \A b \in blk_cache : {ptr.parent[b], ptr.qc_ref[b]} \subseteq blk_cache \cup {None}

\* "Try to prune blocks lower than last committed height - staleness": the
\* blocks from there up to b_exec stay, with their parents.
RecentBlocksStay ==
  LET recent == Walk(Tree, height, core.b_exec, height[kept]).passed
  IN /\ recent \cup {kept} \subseteq blk_cache
     /\ \A b \in recent : ptr.parent[b] = parent_of[b]
==============================================================================
