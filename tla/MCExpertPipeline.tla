-------------------------- MODULE MCExpertPipeline --------------------------
\* Small instances of ExpertPipeline for TLC.
EXTENDS ExpertPipeline, TLC

CONSTANT Second   \* the nodes of the second sparse layer

MCNoSlot  == -1
MCFloor   == [n \in Nodes |-> 0]
MCFixed   == [n \in Nodes |-> 0]   \* evictions leave the tier at 0
MCLayerOf == [n \in Nodes |-> IF n \in Second THEN 1 ELSE 0]

MCSymmetry == Permutations(Nodes \ Second) \cup Permutations(ComputeWorkers)
=============================================================================
