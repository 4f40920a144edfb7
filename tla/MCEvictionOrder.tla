-------------------------- MODULE MCEvictionOrder ---------------------------
\* ExpertCache and EvictionOrder for TLC: a behaviour follows one configuration, which
\* sets the policy, the nodes that are used and the bounds the policy needs.
EXTENDS EvictionOrder, TLC

CONSTANTS Ranked,   \* nodes that compete for the slots under each policy
          Tuned     \* one of the others, whose tier a caller sets

MCNoSlot == -1
MCUserTiers == [n \in Nodes |-> IF n \in Tuned THEN {0, 2} ELSE {}]
MCFloor == [n \in Nodes |-> 0]
MCCeiling == [n \in Nodes |-> 2]

VARIABLE config
Configs == {[policy |-> p, nodes |-> Ranked] : p \in Policies}
             \cup {[policy |-> "Marking", nodes |-> Nodes \ Ranked]}

\* Marking keeps no number to rank by, and there evictions raise the tier once.
Of(C) == INSTANCE EvictionOrder WITH
  Policy <- C.policy, Nodes <- C.nodes, UserTiers <- [n \in C.nodes |-> UserTiers[n]],
  MaxTokens <- IF C.policy = "LUT_MoE" THEN MaxTokens ELSE 1,
  MaxMeta <- IF C.policy = "LFU" THEN 2 ELSE MaxMeta,
  TierFloor <- [n \in C.nodes |-> 0],
  TierCeiling <- [n \in C.nodes |-> IF C.policy = "Marking" THEN 1 ELSE 0]

MCInit == config \in Configs /\ OrderInit
MCNext == \E C \in Configs : C = config /\ Of(C)!OrderNext /\ UNCHANGED config
MCSpec == MCInit /\ [][MCNext]_<<orderVars, config>>

\* Under any policy its nodes are alike.
MCSymmetry == Permutations(Ranked)
=============================================================================
