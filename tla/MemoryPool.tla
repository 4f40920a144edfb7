----------------------------- MODULE MemoryPool -----------------------------
(***************************************************************************)
(* The slot pool of csrc/memory/memory_manager.{hpp,cpp}.  The GPU pool    *)
(* (LUT_MoEGPUMemoryPool) and the pinned pool (LUT_MoEPinnedMemoryPool)    *)
(* are the same class up to the pointer a slot holds, so one set of        *)
(* operators stands for both.  A pool is a record:                         *)
(*   node[s]    slots_[s].node, NoNode for a free slot                     *)
(*   slotOf[n]  node_to_slot_[n->id], NoSlot (SIZE_MAX) if absent          *)
(*   free       free_slots_, a LIFO list: pushed and popped at the back    *)
(* Every method runs under pool_mutex_, so each is one atomic operator.    *)
(***************************************************************************)
EXTENDS Integers, Sequences

CONSTANTS
  Nodes,    \* expert nodes (Node::id)
  NoNode,   \* a null NodePtr
  NoSlot    \* SIZE_MAX, "this node has no slot"

ASSUME NoNodeAssumption == NoNode \notin Nodes
ASSUME NoSlotAssumption == NoSlot \notin Nat

Slots(N) == 0 .. N - 1

Pools(N) == [node   : [Slots(N) -> Nodes \cup {NoNode}],
             slotOf : [Nodes -> Slots(N) \cup {NoSlot}],
             free   : Seq(Slots(N))]

\* init_slots: slot ids are pushed in order, so the last one is popped first.
EmptyPool(N) == [node   |-> [s \in Slots(N) |-> NoNode],
                 slotOf |-> [n \in Nodes |-> NoSlot],
                 free   |-> [i \in 1 .. N |-> i - 1]]

HasFree(p)  == p.free /= <<>>
TopFree(p)  == p.free[Len(p.free)]
PopFree(p)  == [p EXCEPT !.free = SubSeq(@, 1, Len(@) - 1)]
Owned(p, n) == p.slotOf[n] /= NoSlot

\* std::find + erase: drop the first occurrence of s, if there is one.
Erase(q, s) ==
  IF \E i \in 1 .. Len(q) : q[i] = s
  THEN LET k == CHOOSE i \in 1 .. Len(q) :
                  q[i] = s /\ \A j \in 1 .. i - 1 : q[j] /= s
       IN  [i \in 1 .. Len(q) - 1 |-> IF i < k THEN q[i] ELSE q[i + 1]]
  ELSE q

\* evict logs FATAL, which aborts the process, outside this guard (place has one
\* too, and is only called on a slot just popped or evicted).
CanEvict(p, s) == s \in DOMAIN p.node

Place(p, n, s) ==
  [node   |-> [p.node EXCEPT ![s] = n],
   slotOf |-> [p.slotOf EXCEPT ![n] = s],
   free   |-> Erase(p.free, s)]

\* Mutant: the slot does not go back to the free list.
EvictLeaks(p, s) ==
  [p EXCEPT !.node[s] = NoNode, !.slotOf[p.node[s]] = NoSlot]

Evict(p, s) ==
  IF p.node[s] = NoNode
  THEN p
  ELSE [node   |-> [p.node EXCEPT ![s] = NoNode],
        slotOf |-> [p.slotOf EXCEPT ![p.node[s]] = NoSlot],
        free   |-> Append(p.free, s)]

-----------------------------------------------------------------------------
(***************************************************************************)
(* What makes a pool's three views one: the slot table and the node index  *)
(* are mutually inverse, and the free list holds every empty slot, once.   *)
(***************************************************************************)
IndexAgrees(p) ==
  \A s \in DOMAIN p.node, n \in Nodes : p.slotOf[n] = s <=> p.node[s] = n

FreeListed(p, s) == \E i \in 1 .. Len(p.free) : p.free[i] = s

FreeListExact(p) ==
  /\ \A s \in DOMAIN p.node : p.node[s] = NoNode <=> FreeListed(p, s)
  /\ \A i, j \in 1 .. Len(p.free) : p.free[i] = p.free[j] => i = j

PoolOK(p) == IndexAgrees(p) /\ FreeListExact(p)
=============================================================================
