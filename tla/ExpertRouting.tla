--------------------------- MODULE ExpertRouting ---------------------------
(* How a sparse layer's output is put together: the gate chooses experts for each
   token, the block asks the dispatcher for those with tokens, adds their results
   as they come, in any order, and returns what the block it stands in for would.

   A row is a linear combination of what experts make of tokens: how often it
   contains expert e's answer to token t.                                      *)
EXTENDS Integers, Sequences, FiniteSets, SequencesExt

CONSTANTS NumTokens,
          NumRouted,   \* n_routed_experts
          TopK,        \* num_experts_per_tok
          NumGroups, TopGroups,  \* n_group, topk_group
          Scores,      \* what the gate may find for a token
          Factors,     \* what routed_scaling_factor may be
          Capacity     \* expert_capacity of the Switch router

Tokens == 0..(NumTokens - 1)
Candidates == 0..(NumRouted - 1)
GroupOf(e) == e \div (NumRouted \div NumGroups)
Groups == 0..(NumGroups - 1)
Kinds == {"greedy", "group_limited_greedy", "switch"}

ASSUME RoutingAssumption ==
  /\ NumTokens \in Nat /\ NumRouted \in Nat /\ TopK \in 1..NumRouted
  /\ NumGroups \in 1..NumRouted /\ TopGroups \in 1..NumGroups
  /\ \A s \in Scores : s \in [Candidates -> Nat]
  /\ Factors \subseteq Nat

VARIABLES
  kind,     \* the router
  factor,   \* routed_scaling_factor
  score,    \* of each token for each expert
  idx,      \* topk_idx; a token the Switch router drops has none
  weight,   \* topk_weight, or router_probs
  gated,    \* tokens the gate has come to
  queued,   \* experts enqueued whose result has not been added
  reqs,     \* num_token_reqs of each
  out,      \* output_hidden_states, or next_states
  routing
routingVars == <<kind, factor, score, idx, weight, gated, queued, reqs, out, routing>>

Terms == (Candidates \cup {-1}) \X Tokens   \* -1: the token itself
Zero == [x \in Terms |-> 0]
One(x) == [Zero EXCEPT ![x] = 1]
Plus(row, w, x) == [row EXCEPT ![x] = @ + w]

RoutingInit ==
  /\ kind \in Kinds /\ factor \in Factors /\ score \in [Tokens -> Scores]
  /\ idx = [t \in Tokens |-> <<>>] /\ weight = [t \in Tokens |-> <<>>]
  /\ gated = 0 /\ queued = {} /\ reqs = [e \in Candidates |-> 0]
  /\ out = [t \in Tokens |-> Zero] /\ routing = "gate"
-----------------------------------------------------------------------------
\* torch.topk: any k positions that none outside is above, in any order.
TopSets(f, k) == {S \in SUBSET (DOMAIN f) :
                    /\ Cardinality(S) = k
                    /\ \A i \in S, j \in DOMAIN f \ S : f[i] >= f[j]}
Orderings(S) == {q \in [1..Cardinality(S) -> S] : Range(q) = S}

\* MoEGate.forward: of a token's scores only those in the best groups remain. The
\* weights are scaled, not normed: norm_topk_prob is off, as the configuration has it.
GroupFirst(s) == [g \in Groups |-> s[g * (NumRouted \div NumGroups)]]   \* a bug
GroupScores(s) == [g \in Groups |-> Max({s[e] : e \in {x \in Candidates : GroupOf(x) = g}})]
Masked(s, G) == [e \in Candidates |-> IF GroupOf(e) \in G THEN s[e] ELSE 0]
Eligible(s) == IF kind = "group_limited_greedy"
                 THEN {Masked(s, G) : G \in TopSets(GroupScores(s), TopGroups)} ELSE {s}

Gate ==
  /\ routing = "gate" /\ kind # "switch" /\ gated < NumTokens
  /\ \E f \in Eligible(score[gated]) : \E S \in TopSets(f, TopK) : \E q \in Orderings(S) :
       /\ idx' = [idx EXCEPT ![gated] = q]
       /\ weight' = [weight EXCEPT ![gated] = [j \in DOMAIN q |-> factor * f[q[j]]]]
  /\ gated' = gated + 1
  /\ UNCHANGED <<kind, factor, score, queued, reqs, out, routing>>

\* The Switch router: the best expert, unless that has its fill of earlier tokens.
SwitchGate ==
  /\ routing = "gate" /\ kind = "switch" /\ gated < NumTokens
  /\ \E S \in TopSets(score[gated], 1) : \E e \in S :
       /\ idx' = [idx EXCEPT ![gated] =
            IF Cardinality({t \in Tokens : idx[t] = <<e>>}) < Capacity THEN <<e>> ELSE <<>>]
       /\ weight' = [weight EXCEPT ![gated] = <<score[gated][e]>>]
  /\ gated' = gated + 1
  /\ UNCHANGED <<kind, factor, score, queued, reqs, out, routing>>

\* router_mask: the one-hot columns joined, column 0 in place.
Routed(t, e) == \E j \in DOMAIN idx[t] : idx[t][j] = e
Weight(t, e) == LET at == {j \in DOMAIN idx[t] : idx[t][j] = e} IN
                FoldSet(LAMBDA j, w : w + weight[t][j], 0, at)

\* dispatch_local: the experts with tokens are enqueued, each with their number.
DispatchLocal ==
  /\ routing = "gate" /\ gated = NumTokens /\ routing' = "collect"
  /\ reqs' = [e \in Candidates |-> Cardinality({t \in Tokens : Routed(t, e)})]
  /\ queued' = {e \in Candidates : reqs'[e] > 0}
  /\ out' = [t \in Tokens |-> IF kind = "switch" THEN One(<<-1, t>>) ELSE Zero]
  /\ UNCHANGED <<kind, factor, score, idx, weight, gated>>

\* An expert's result has a row for each of its tokens, in their order.
Rows(e) == LET S == {t \in Tokens : Routed(t, e)} IN
           [n \in 1..Cardinality(S) |-> CHOOSE t \in S : Cardinality({u \in S : u < t}) = n - 1]
Overwritten(row, w, x) == [Zero EXCEPT ![x] = w]   \* a bug: = for +=
Added(row, w, x) == Plus(row, w, x)
Collect ==
  /\ routing = "collect"
  /\ \E e \in queued :
       /\ queued' = queued \ {e}
       /\ out' = [t \in Tokens |->
            IF ~Routed(t, e) THEN out[t]
            ELSE LET x == <<e, Rows(e)[Cardinality({u \in 0..t : Routed(u, e)})]>> IN
                 IF kind = "switch" THEN One(x) ELSE Added(out[t], Weight(t, e), x)]
  /\ UNCHANGED <<kind, factor, score, idx, weight, gated, reqs, routing>>

Scaled == [t \in Tokens |-> [x \in Terms |-> weight[t][1] * out[t][x]]]
Finish ==
  /\ routing = "collect" /\ queued = {} /\ routing' = "done"
  /\ out' = IF kind = "switch" THEN Scaled ELSE out
  /\ UNCHANGED <<kind, factor, score, idx, weight, gated, queued, reqs>>

RoutingNext == Gate \/ SwitchGate \/ DispatchLocal \/ Collect \/ Finish
RoutingSpec == RoutingInit /\ [][RoutingNext]_routingVars
-----------------------------------------------------------------------------
\* moe_infer: the token and expert pairs sorted by expert, cut by the experts'
\* counts, and put back. argsort leaves equals in any order.
Pairs == 0..(NumTokens * TopK - 1)
FlatId(p) == idx[p \div TopK][(p % TopK) + 1]
Sortings == {q \in [1..(NumTokens * TopK) -> Pairs] :
               /\ Range(q) = Pairs
               /\ \A i, j \in DOMAIN q : i < j => FlatId(q[i]) <= FlatId(q[j])}
CutOff[e \in 0..NumRouted] ==
  IF e = 0 THEN 0
  ELSE CutOff[e - 1] + Cardinality({t \in Tokens : Routed(t, e - 1)})
ExpertAt(i) == CHOOSE e \in Candidates : CutOff[e] < i /\ i <= CutOff[e + 1]
\* the terms of a token's choices, each times its weight
SumOf(ws, term) ==
  LET row[n \in 0..TopK] == IF n = 0 THEN Zero
                            ELSE Plus(row[n - 1], ws[n], term[n])
  IN row[TopK]
InferredRow(q, t) ==
  LET Pos(j) == CHOOSE i \in DOMAIN q : q[i] = t * TopK + j - 1
  IN SumOf(weight[t], [j \in 1..TopK |-> <<ExpertAt(Pos(j)), q[Pos(j)] \div TopK>>])

\* The vLLM layer routes by itself, plain top-k of the same scores, and goes column by
\* column of its choices, in each expert by expert. Ties may fall either way.
VllmRows(t) == {SumOf([j \in 1..TopK |-> score[t][q[j]]], [j \in 1..TopK |-> <<q[j], t>>]) :
                  q \in UNION {Orderings(S) : S \in TopSets(score[t], TopK)}}

\* With the Switch router a token is answered by its one expert, and one that found
\* its expert full passes as it is; either is scaled by the router's probability.
SwitchRow(t) == Plus(Zero, weight[t][1], IF idx[t] = <<>> THEN <<-1, t>> ELSE <<idx[t][1], t>>)

\* Whatever the order the results come in, the block returns what moe_infer of the
\* block it replaces returns. The vLLM port's layer returns it too, but only where the
\* model's gate is the plain one: neither limited to groups nor scaled.
SameAsReplaced ==
  routing = "done" => \A t \in Tokens :
    IF kind = "switch" THEN out[t] = SwitchRow(t)
      ELSE /\ \A q \in Sortings : out[t] = InferredRow(q, t)
           /\ kind = "greedy" /\ factor = 1 => out[t] \in VllmRows(t)

\* Group-limited: an expert with weight is in one of the best groups, by their best
\* experts, and no expert of that group left out is better.
LimitedToGroups ==
  kind = "group_limited_greedy" =>
    \A t \in 0..(gated - 1) : \A j \in DOMAIN idx[t] :
      LET s == score[t]
          Best(g) == Max({s[e] : e \in {x \in Candidates : GroupOf(x) = g}})
          mine == GroupOf(idx[t][j])
      IN weight[t][j] > 0 =>
           /\ Cardinality({g \in Groups : Best(g) > Best(mine)}) < TopGroups
           /\ \A e \in Candidates : GroupOf(e) = mine /\ s[e] > s[idx[t][j]]
                                  => e \in Range(idx[t])
=============================================================================
