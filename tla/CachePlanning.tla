--------------------------- MODULE CachePlanning ---------------------------
(* PlanCache: from a trace of expert use to the share of the memory that holds
   whole experts, the rest holding sign and mantissa only; then what the engine and
   the cache's constructor make of it.

   Numbers are exact: a weight is a multiple u of 1 / Unit, its probability
   u / (Unit + u), and what is summed over hits is a numerator over a denominator all
   ratios share. The iteration that finds the weights is any choice of weights here. *)
EXTENDS Integers, Sequences, FiniteSets, FiniteSetsExt, Functions

CONSTANTS RankedExperts, PlannedLayers,
          PerToken,            \* k: the experts a token uses
          BatchSize, Traces,   \* traces to try: counts by prompt, layer and expert
          WeightLists, Unit,   \* weights the iteration may end with
          Steps,               \* 1 / step_size
          Memories,            \* total_memory_pool_size, in bytes
          SmSlot,              \* bytes of one expert's sign and mantissa
          FileChunks, TensorsPerExpert, ComputePool, Decompress, SmIo, RatioNum, RatioDen

Ranks == 1..RankedExperts
ProductOnSet(f, S) == FoldFunctionOnSet(LAMBDA a, b : a * b, 1, f, S)

ASSUME PlanningAssumption ==
  /\ {RankedExperts, PlannedLayers, PerToken, BatchSize, Unit, SmSlot} \subseteq Nat \ {0}
  /\ {FileChunks, TensorsPerExpert, ComputePool, Decompress, SmIo, RatioNum, RatioDen}
       \subseteq Nat
  /\ Steps \in Nat /\ Steps >= 2
  /\ Memories \subseteq Nat
  /\ WeightLists \subseteq [Ranks -> Nat]
  /\ \A t \in Traces : /\ t \in Seq(Seq([Ranks -> Nat])) /\ Len(t) > 0
                       /\ \A i \in DOMAIN t : Len(t[i]) = Len(t[1])

\* With as many experts as a token uses, scale_to_k cuts them all, and using the empty
\* rest, an array of floats, as an index raises. No MoE is configured that way.
ASSUME SomeExpertIsLeft == PerToken # RankedExperts

VARIABLES trace, memory,
          counts,      \* sorted_prob_dist, over its sum
          target,      \* target_probs: the experts cut to 1, and what is left of k
          probWeight,  \* sorted_prob_weight, over Unit
          tried,       \* ratios, in steps, the simulation is done with
          costs,       \* ratio_list with simu_delay_list
          plan,        \* gpu_pool_ratio as a fraction, and feasible
          policy,      \* caching_algorithm
          planning
planningVars == <<trace, memory, counts, target, probWeight, tried, costs, plan, policy,
                  planning>>

PlanningInit ==
  /\ trace \in Traces /\ memory \in Memories
  /\ counts = <<>> /\ target = [ones |-> 0, left |-> 0] /\ probWeight = <<>>
  /\ tried = 0 /\ costs = <<>> /\ plan = [ratio |-> 0, of |-> Steps, feasible |-> FALSE]
  /\ policy = "LUT_MoE" /\ planning = "trace"
-----------------------------------------------------------------------------
\* ObtainDistFromTrace: what is left over of the last batch is not counted.
NumBatches == Len(trace) \div BatchSize
BatchLayer(b, l) ==
  [e \in Ranks |-> SumFunctionOnSet([i \in 1..BatchSize |-> trace[(b * BatchSize) + i][l][e]],
                                    1..BatchSize)]
\* The i-th largest value is the largest that i are not below.
Descending(s) ==
  [i \in Ranks |-> Max({v \in Range(s) : Cardinality({e \in Ranks : s[e] >= v}) >= i})]
RankCounts ==
  [e \in Ranks |->
     SumFunctionOnSet(
       [b \in 0..(NumBatches - 1) |->
          SumFunctionOnSet([l \in DOMAIN trace[1] |-> Descending(BatchLayer(b, l))[e]],
                           DOMAIN trace[1])],
       0..(NumBatches - 1))]
ObtainDistFromTrace ==
  /\ planning = "trace" /\ counts' = RankCounts
  /\ planning' = IF SumFunctionOnSet(RankCounts, Ranks) = 0 THEN "raised" ELSE "scale"
  /\ UNCHANGED <<trace, memory, target, probWeight, tried, costs, plan, policy>>

\* scale_to_k, one turn of its loop: experts whose share of what is left of k
\* reaches 1 are cut there. They are the first of those left.
Rest(n) == SumFunctionOnSet(counts, (n + 1)..RankedExperts)
OverOnes == {e \in (target.ones + 1)..RankedExperts :
               counts[e] * target.left >= Rest(target.ones)}
LeftKept(n) == target.left   \* a bug: remaining_k stays
LeftAfter(n) == target.left - n
StartScale ==
  /\ planning = "scale" /\ target' = [ones |-> 0, left |-> PerToken] /\ planning' = "cut"
  /\ UNCHANGED <<trace, memory, counts, probWeight, tried, costs, plan, policy>>
CutDone == \/ target.ones = RankedExperts \/ target.left <= 0
           \/ Rest(target.ones) = 0 \/ OverOnes = {}
Cut == /\ planning = "cut" /\ ~CutDone
       /\ target' = [ones |-> target.ones + Cardinality(OverOnes),
                     left |-> LeftAfter(Cardinality(OverOnes))]
       /\ UNCHANGED <<trace, memory, counts, probWeight, tried, costs, plan, policy, planning>>
\* a probability of target_probs, times Rest
Target(e) == IF e <= target.ones THEN Rest(target.ones)
             ELSE IF target.left <= 0 \/ Rest(target.ones) = 0 THEN 0
             ELSE counts[e] * target.left
SumsToK == IF Rest(target.ones) = 0 THEN target.ones = PerToken
           ELSE SumFunctionOnSet([e \in Ranks |-> Target(e)], Ranks)
                  = PerToken * Rest(target.ones)

\* CoverageToWeight raises unless they sum to k.
FindWeights ==
  /\ planning = "cut" /\ CutDone
  /\ IF SumsToK THEN probWeight' \in WeightLists /\ planning' = "simulate"
                ELSE planning' = "raised" /\ probWeight' = probWeight
  /\ UNCHANGED <<trace, memory, counts, target, tried, costs, plan, policy>>

\* E(k-1) of all weights but the i-th: dp of those before, b_dp of those after.
NoneTaken == [m \in 0..PerToken |-> IF m = 0 THEN 1 ELSE 0]
OneMore(row, u) == [m \in 0..PerToken |-> IF m = 0 THEN 1 ELSE row[m] + (u * row[m - 1])]
dp[j \in 0..RankedExperts] ==
  IF j = 0 THEN NoneTaken ELSE OneMore(dp[j - 1], probWeight[j])
b_dp[j \in 1..(RankedExperts + 1)] ==
  IF j = RankedExperts + 1 THEN NoneTaken ELSE OneMore(b_dp[j + 1], probWeight[j])
AllBut(i) ==
  SumFunctionOnSet([m \in 0..(PerToken - 1) |-> dp[i - 1][m] * b_dp[i + 1][PerToken - 1 - m]],
                   0..(PerToken - 1))

\* CalculateProb of the experts lo..hi, in place from the top; the factors of one more
\* expert are over Unit + u.
PassUp(d, n, u) ==   \* a bug: from the bottom
  LET upto[j \in 0..n] ==
        LET out == upto[j - 1] IN
        IF j = 0 THEN d ELSE [out EXCEPT ![j] = (@ * Unit) + (out[j - 1] * u)]
  IN [upto[n] EXCEPT ![0] = @ * Unit]
Pass(d, n, u) ==
  LET from[j \in 1..(n + 1)] ==
        LET out == from[j + 1] IN
        IF j = n + 1 THEN d ELSE [out EXCEPT ![j] = (@ * Unit) + (out[j - 1] * u)]
  IN [from[1] EXCEPT ![0] = @ * Unit]
CalculateProb(lo, hi) ==
  LET n == hi - lo + 1
      out[e \in (lo - 1)..hi] == IF e = lo - 1 THEN [j \in 0..n |-> IF j = 0 THEN 1 ELSE 0]
                                 ELSE Pass(out[e - 1], n, probWeight[e])
  IN out[hi]
Convolve(p, q) ==
  [t \in {i + j : i \in DOMAIN p, j \in DOMAIN q} |->
     SumFunctionOnSet([i \in DOMAIN p |-> IF t - i \in DOMAIN q THEN p[i] * q[t - i] ELSE 0],
                      DOMAIN p)]

\* avgk: the number of experts that are in use on average, rounded down
Odds == ProductOnSet([e \in Ranks |-> Unit + probWeight[e]], Ranks)
AvgK == SumFunctionOnSet([e \in Ranks |-> (Odds \div (Unit + probWeight[e])) * probWeight[e]],
                         Ranks) \div Odds

\* DelaySimu, times ComputePool and RatioDen
DelaySimu(full, sm) ==
  LET compute == TensorsPerExpert * (AvgK - full)
                   * ((FileChunks * Decompress * RatioDen) + (SmIo * RatioNum))
      io == TensorsPerExpert * ComputePool * SmIo
              * (((AvgK - full - sm) * RatioDen) + (sm * RatioNum))
  IN IF compute > io THEN compute ELSE io

\* The slots per layer a ratio of r steps plans for.
Up(a, b) == (a + b - 1) \div b
FullSlotsUp(r) == Up(r * memory, PlannedLayers * Steps * 2 * SmSlot)   \* a bug: rounds up
FullSlots(r) == (r * memory) \div (PlannedLayers * Steps * 2 * SmSlot)
SmSlots(r) == ((Steps - r) * memory) \div (PlannedLayers * Steps * SmSlot)
Fits(r) == /\ FullSlots(r) + SmSlots(r) <= RankedExperts
           /\ FullSlots(r) * PlannedLayers >= RankedExperts
           /\ SmSlots(r) * PlannedLayers >= RankedExperts
Dists(r) == [full |-> CalculateProb(1, FullSlots(r)),
             sm   |-> CalculateProb(FullSlots(r) + 1, FullSlots(r) + SmSlots(r)),
             rest |-> CalculateProb(FullSlots(r) + SmSlots(r) + 1, RankedExperts)]
Total(d) == LET all == Convolve(Convolve(d.full, d.sm), d.rest) IN
            IF AvgK \in DOMAIN all THEN all[AvgK] ELSE 0
Mass(d, f, s) == IF AvgK - f - s \in DOMAIN d.rest
                 THEN d.full[f] * d.sm[s] * d.rest[AvgK - f - s] ELSE 0
Cost(d) ==
  SumFunctionOnSet([f \in DOMAIN d.full |->
                      SumFunctionOnSet([s \in DOMAIN d.sm |-> Mass(d, f, s) * DelaySimu(f, s)],
                                       DOMAIN d.sm)],
                   DOMAIN d.full)

\* CachePoolPlanningSimu: one turn of its loop.
Simulate ==
  /\ planning = "simulate" /\ tried < Steps - 1 /\ tried' = tried + 1
  /\ plan' = [plan EXCEPT !.feasible = @ \/ Fits(tried')]
  /\ costs' = IF Fits(tried') /\ Total(Dists(tried')) > 0
              THEN Append(costs, [ratio |-> tried', cost |-> Cost(Dists(tried'))]) ELSE costs
  /\ UNCHANGED <<trace, memory, counts, target, probWeight, policy, planning>>

\* The minimum of the rolling mean of five; means are compared crosswise. Without a
\* ratio of at least 0.3 the last but one step is returned.
Window(i) == {j \in DOMAIN costs : i - 2 <= j /\ j <= i + 2}
Smooth(i) == [sum |-> SumFunctionOnSet([j \in DOMAIN costs |-> costs[j].cost], Window(i)),
              n |-> Cardinality(Window(i))]
NoHigher(i, j) == Smooth(i).sum * Smooth(j).n <= Smooth(j).sum * Smooth(i).n
Best == CHOOSE i \in DOMAIN costs :
          \A j \in DOMAIN costs : NoHigher(i, j) /\ (j < i => ~NoHigher(j, i))
BestRatio == IF \E i \in DOMAIN costs : 10 * costs[i].ratio >= 3 * Steps
             THEN costs[Best].ratio ELSE Steps - 1
\* An infeasible plan is 0.99; it and a Switch model go with LFU.
Choose ==
  /\ planning = "simulate" /\ tried = Steps - 1 /\ planning' = "done"
  /\ plan' = IF plan.feasible THEN [plan EXCEPT !.ratio = BestRatio]
                              ELSE [plan EXCEPT !.ratio = 99, !.of = 100]
  /\ \E switch \in BOOLEAN :
       policy' = IF plan.feasible /\ ~switch THEN policy ELSE "LFU"
  /\ UNCHANGED <<trace, memory, counts, target, probWeight, tried, costs>>

\* The constructor of LUT_MoECacheHandle, with its one pool for all layers.
GpuPoolSize == (plan.ratio * memory) \div plan.of
GpuSlotsMade == Up(GpuPoolSize, 2 * SmSlot)
SmSlotsMade == Up(memory - GpuPoolSize, SmSlot)

PlanningNext == \/ ObtainDistFromTrace \/ StartScale \/ Cut \/ FindWeights
                \/ Simulate \/ Choose
PlanningSpec == PlanningInit /\ [][PlanningNext]_planningVars
-----------------------------------------------------------------------------
\* The choices of n of the experts S, each by the weights of the chosen and, for the
\* others, the given weight.
ChoiceWeight(S, T, other) ==
  ProductOnSet([e \in S |-> IF e \in T THEN probWeight[e] ELSE other], S)
AllChoices(S, n, other) ==
  SumFunctionOnSet([T \in SUBSET S |-> ChoiceWeight(S, T, other)], kSubset(n, S))
HitMass(d) ==
  SumFunctionOnSet([f \in DOMAIN d.full |->
                      SumFunctionOnSet([s \in DOMAIN d.sm |-> Mass(d, f, s)], DOMAIN d.sm)],
                   DOMAIN d.full)

\* The target is a probability for each expert, no smaller for one used more, and sums
\* to k; planning stops with an exception exactly if the whole batches of the trace
\* use fewer than k experts.
TargetsSumToK ==
  /\ planning \in {"simulate", "done"} =>
       /\ \A e \in Ranks : 0 <= Target(e) /\ Target(e) <= Rest(target.ones)
       /\ \A e, f \in Ranks : e < f => Target(e) >= Target(f)
  /\ planning \in {"simulate", "done", "raised"} =>
       (planning = "raised" <=> Cardinality({e \in Ranks : counts[e] > 0}) < PerToken)

\* The weights count choices of experts. Leaving an expert out, the two tables give the
\* choices of k - 1 of the others; and for every ratio the convolution of the pools and
\* the misses gives all choices of avgk, and the hits summed over add up to it: the
\* costs compared are averages over the same distribution.
HitsAddUp ==
  planning = "done" =>
    /\ \A i \in Ranks : AllBut(i) = AllChoices(Ranks \ {i}, PerToken - 1, 1)
    /\ \A r \in 1..(Steps - 1) : Fits(r) =>
         /\ Total(Dists(r)) = AllChoices(Ranks, AvgK, Unit)
         /\ HitMass(Dists(r)) = Total(Dists(r))

\* A feasible plan gives each pool room for as many experts as a layer has, and no
\* more in all than there are, and the constructor makes no fewer slots than were
\* planned; an infeasible one goes with LFU. Rounding up, the constructor allocates
\* less than two slots too much.
PlanHolds ==
  planning = "done" =>
    /\ plan.feasible =>
         /\ FullSlots(plan.ratio) + SmSlots(plan.ratio) <= RankedExperts
         /\ FullSlots(plan.ratio) * PlannedLayers >= RankedExperts
         /\ SmSlots(plan.ratio) * PlannedLayers >= RankedExperts
         /\ GpuSlotsMade >= PlannedLayers * FullSlots(plan.ratio)
         /\ SmSlotsMade >= PlannedLayers * SmSlots(plan.ratio)
    /\ plan.feasible \/ policy = "LFU"
    /\ ((GpuSlotsMade * 2) + SmSlotsMade) * SmSlot < memory + 3 * SmSlot
=============================================================================
