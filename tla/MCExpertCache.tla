--------------------------- MODULE MCExpertCache ----------------------------
\* Small instances of ExpertCache for TLC.
EXTENDS ExpertCache, TLC

MCNoSlot  == -1
MCAllTiers == [n \in Nodes |-> {0, 2}]
MCFloor   == [n \in Nodes |-> 0]
MCFixed   == [n \in Nodes |-> 0]   \* evictions leave the tier at 0

MCSymmetry == Permutations(Nodes)
=============================================================================
