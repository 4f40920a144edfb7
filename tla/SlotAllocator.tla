--------------------------- MODULE SlotAllocator ----------------------------
(***************************************************************************)
(* What a slot cache promises the threads that load and run experts, with  *)
(* no policy, no free list and no index: each slot has at most one owner,  *)
(* each node at most one slot, and while a node is busy its slot is given  *)
(* up by nobody but the node itself.                                       *)
(***************************************************************************)
CONSTANTS Nodes, SlotSet, NoNode

VARIABLES owner,   \* owner[s]: the node whose data slot s holds, or NoNode
          busy     \* the nodes being loaded or executed

vars == <<owner, busy>>

Init == owner = [s \in SlotSet |-> NoNode] /\ busy = {}

\* A busy node without a slot takes one that no busy node owns.
Grant(n, s) ==
  /\ n \in busy
  /\ owner[s] \notin busy
  /\ \A t \in SlotSet : owner[t] /= n
  /\ owner' = [owner EXCEPT ![s] = n]
  /\ UNCHANGED busy

\* A busy node gives its slot back, and may stop being busy in the same step.
Release(n, s) ==
  /\ n \in busy /\ owner[s] = n
  /\ owner' = [owner EXCEPT ![s] = NoNode]
  /\ busy' \in {busy, busy \ {n}}

Begin(n) == n \notin busy /\ busy' = busy \cup {n} /\ UNCHANGED owner
End(n)   == n \in busy /\ busy' = busy \ {n} /\ UNCHANGED owner

Next == \E n \in Nodes :
          Begin(n) \/ End(n) \/ \E s \in SlotSet : Grant(n, s) \/ Release(n, s)

Spec == Init /\ [][Next]_vars
=============================================================================
