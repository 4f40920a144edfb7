--------------------------- MODULE EvictionOrder ----------------------------
(***************************************************************************)
(* ExpertCache with a history variable that keeps, per node, what each     *)
(* policy claims to rank nodes by: the last access (LRU), the time it was  *)
(* placed (FIFO), the accesses (LFU) or tokens (LUT_MoE) since then.  The  *)
(* code keeps that number per slot, and a slot changes owner in several    *)
(* ways; the properties say the numbers follow the nodes.                  *)
(***************************************************************************)
EXTENDS ExpertCache

VARIABLE score

orderVars == <<vars, score>>

Placed(n) == ~Owned(gpuPool, n) /\ Owned(gpuPool, n)'

NewScore == CASE Policy \in {"LRU", "FIFO"} -> now
              [] Policy = "Marking"         -> 0   \* it ranks by nothing
              [] OTHER                      -> 1

HitScore(old, tokens) == CASE Policy = "LUT_MoE" -> old + tokens
                           [] Policy = "LFU"     -> old + 1
                           [] Policy = "LRU"     -> now
                           [] OTHER              -> old

OrderInit == Init /\ score = [n \in Nodes |-> 0]

OrderNext ==
  /\ ~aborted
  /\ \/ \E n \in Nodes, k \in 1 .. MaxTokens :
          /\ HitStep(n, k)
          /\ score' = [score EXCEPT ![n] = HitScore(@, k)]
     \/ /\ Tick \/ \E n \in Nodes : TaskStep(n)
        /\ score' = [n \in Nodes |-> IF Placed(n) THEN NewScore ELSE score[n]]

OrderSpec == OrderInit /\ [][OrderNext]_orderVars

LowestEvicted == \A v \in Nodes \ locked :
  Owned(gpuPool, v) /\ ~Owned(gpuPool, v)' =>
    \A m \in Nodes \ locked : Owned(gpuPool, m) => score[v] <= score[m]

\* A node that loses its GPU slot to another had the lowest score of all that
\* could have lost theirs, whoever owned the slots before them.
EvictsLowest == [][LowestEvicted]_orderVars
=============================================================================
