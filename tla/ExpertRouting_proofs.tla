------------------------ MODULE ExpertRouting_proofs ------------------------
(***************************************************************************)
(* What a sparse layer returns, for every number of tokens, experts and    *)
(* choices, all scores and any order of the results: the gate stays in its *)
(* groups, and the rows are those of the blocks that were replaced.        *)
(***************************************************************************)
EXTENDS ExpertRouting, FiniteSetTheorems, WellFoundedInduction, TLAPS

\* A set of numbers that is not empty has a lowest.
LEMMA LowestExists ==
  ASSUME NEW T, T \subseteq Nat, T # {}
  PROVE  \E x \in T : \A y \in T : x <= y
<1>1. \E x \in T : \A y \in T : ~(<<y, x>> \in OpToRel(<, Nat))
  BY NatLessThanWellFounded, WFMin
<1>2. PICK x \in T : \A y \in T : ~(<<y, x>> \in OpToRel(<, Nat))
  BY <1>1
<1>3. ASSUME NEW y \in T PROVE x <= y
  <2>1. ~(<<y, x>> \in OpToRel(<, Nat))
    BY <1>2
  <2>2. x \in Nat /\ y \in Nat
    OBVIOUS
  <2>3. ~(y < x)
    BY <2>1, <2>2 DEF OpToRel
  <2>4. QED
    BY <2>2, <2>3
<1>4. QED
  BY <1>3

\* The sets the gate works with are finite.
LEMMA FiniteCandidates ==
  /\ IsFiniteSet(Candidates) /\ IsFiniteSet(Groups) /\ IsFiniteSet(Tokens)
  /\ \A T \in SUBSET Candidates : IsFiniteSet(T) /\ Cardinality(T) \in Nat
<1>1. NumRouted - 1 \in Int /\ NumGroups - 1 \in Int /\ NumTokens - 1 \in Int /\ 0 \in Int
  BY RoutingAssumption
<1>2. IsFiniteSet(Candidates) /\ IsFiniteSet(Groups) /\ IsFiniteSet(Tokens)
  BY <1>1, FS_Interval DEF Candidates, Groups, Tokens
<1>3. QED
  BY <1>2, FS_Subset, FS_CardinalityType

\* Of some experts one has the highest score.
LEMMA HighestExists ==
  ASSUME NEW s \in [Candidates -> Nat], NEW T \in SUBSET Candidates, T # {}
  PROVE  \E e \in T : \A d \in T : s[e] >= s[d]
<1> DEFINE Has(U) == \E e \in U : \A d \in U : s[e] >= s[d]
           Bad == {n \in Nat : \E U \in SUBSET Candidates :
                                 U # {} /\ Cardinality(U) = n /\ ~Has(U)}
<1>1. SUFFICES ASSUME ~Has(T) PROVE FALSE
  OBVIOUS
<1>2. Cardinality(T) \in Bad
  BY <1>1, FiniteCandidates
<1>3. Bad \subseteq Nat
  OBVIOUS
<1> HIDE DEF Bad
<1>4. PICK n \in Bad : \A y \in Bad : n <= y
  BY <1>2, <1>3, LowestExists
<1>5. PICK U \in SUBSET Candidates : U # {} /\ Cardinality(U) = n /\ ~Has(U)
  BY <1>4 DEF Bad
<1>6. PICK x \in U : TRUE
  BY <1>5
<1> DEFINE V == U \ {x}
<1>7. V \in SUBSET Candidates /\ Cardinality(V) = n - 1 /\ n \in Nat /\ n - 1 \in Nat
  <2>1. IsFiniteSet(U) /\ x \in U /\ n \in Nat /\ V \in SUBSET Candidates
    BY <1>3, <1>5, <1>6, FiniteCandidates
  <2>2. Cardinality(V) = Cardinality(U) - 1
    BY <2>1, FS_RemoveElement
  <2>3. Cardinality(V) \in Nat
    BY <2>1, FiniteCandidates
  <2>4. QED
    BY <1>5, <2>1, <2>2, <2>3
<1>8. CASE V = {}
  <2>1. \A d \in U : d = x
    BY <1>8
  <2>2. s[x] >= s[x]
    BY <1>6
  <2>3. QED
    BY <1>5, <1>6, <2>1, <2>2
<1>9. CASE V # {}
  <2>1. n - 1 \notin Bad
    BY <1>4, <1>7
  <2>2. Has(V)
    BY <1>7, <1>9, <2>1 DEF Bad
  <2>3. PICK e \in V : \A d \in V : s[e] >= s[d]
    BY <2>2
  <2>4. \A d \in U : d \in V \/ d = x
    OBVIOUS
  <2>5. s[x] \in Nat /\ s[e] \in Nat /\ \A d \in U : s[d] \in Nat
    BY <1>6, <2>3
  <2>6. CASE s[e] >= s[x]
    BY <1>5, <2>3, <2>4, <2>6
  <2>7. CASE ~(s[e] >= s[x])
    <3>1. \A d \in U : s[x] >= s[d]
      BY <2>3, <2>4, <2>5, <2>7
    <3>2. QED
      BY <1>5, <1>6, <3>1
  <2>8. QED
    BY <2>6, <2>7
<1>10. QED
  BY <1>8, <1>9

\* No group is empty, so that each has a best score.
LEMMA GroupHasBest ==
  ASSUME NEW s \in [Candidates -> Nat], NEW g \in Groups
  PROVE  GroupScores(s)[g] \in Nat
<1> DEFINE d == NumRouted \div NumGroups
           T == {x \in Candidates : GroupOf(x) = g}
<1>1. /\ NumRouted \in Nat /\ NumGroups \in Nat /\ NumGroups >= 1 /\ NumRouted >= NumGroups
      /\ g \in Nat /\ g <= NumGroups - 1
  BY RoutingAssumption DEF Groups
<1>2. d \in Nat /\ d >= 1 /\ NumGroups * d <= NumRouted /\ NumGroups * d \in Nat
  BY <1>1
<1> HIDE DEF d
<1>3. g * d \in Nat /\ g * d <= NumRouted - 1
  <2>1. g * d <= (NumGroups - 1) * d /\ g * d \in Nat /\ (NumGroups - 1) * d = NumGroups * d - d
    BY <1>1, <1>2
  <2>2. QED
    BY <1>1, <1>2, <2>1
<1>4. (g * d) \div d = g
  BY <1>1, <1>2, <1>3
<1>5. g * d \in T
  BY <1>1, <1>3, <1>4 DEF GroupOf, Candidates, d
<1>6. T \in SUBSET Candidates /\ T # {}
  BY <1>5
<1> HIDE DEF T
<1>7. PICK e \in T : \A x \in T : s[e] >= s[x]
  BY <1>6, HighestExists
<1> DEFINE V == {s[x] : x \in T}
<1>8. s[e] \in V /\ \A y \in V : s[e] >= y
  BY <1>7
<1>9. Max(V) \in V
  BY <1>8 DEF Max
<1>10. V \subseteq Nat
  BY <1>6
<1>11. GroupScores(s)[g] = Max(V)
  BY DEF GroupScores, T
<1>12. QED
  BY <1>9, <1>10, <1>11
-----------------------------------------------------------------------------
(* The inductive invariant. What the gate did for a token stays; the rows grow by
   the experts that have answered.                                              *)
RoutingType ==
  /\ kind \in Kinds /\ factor \in Nat /\ score \in [Tokens -> Scores]
  /\ idx \in [Tokens -> Seq(Candidates)] /\ weight \in [Tokens -> Seq(Nat)]
  /\ gated \in 0..NumTokens /\ queued \in SUBSET Candidates
  /\ routing \in {"gate", "collect", "done"}
  /\ routing # "gate" => gated = NumTokens

\* what Gate, and what SwitchGate, leaves behind for a token
Chosen(t) == \E f \in Eligible(score[t]) : \E S \in TopSets(f, TopK) : \E q \in Orderings(S) :
               /\ idx[t] = q
               /\ weight[t] = [j \in DOMAIN q |-> factor * f[q[j]]]
Switched(t) == /\ idx[t] = <<>> \/ \E e \in Candidates : idx[t] = <<e>>
               /\ Len(weight[t]) = 1

\* a token's row when the experts Q have not answered yet
Place(t, e) == CHOOSE j \in 1..TopK : idx[t][j] = e
RowBut(t, Q) == [x \in Terms |->
                   IF x[2] = t /\ x[1] \notin Q /\ Routed(t, x[1])
                     THEN weight[t][Place(t, x[1])] ELSE 0]
SwitchTerm(t, Q) == IF idx[t] = <<>> \/ idx[t][1] \in Q THEN <<-1, t>> ELSE <<idx[t][1], t>>

RoutingInv ==
  /\ RoutingType
  /\ \A t \in 0..(gated - 1) : IF kind = "switch" THEN Switched(t) ELSE Chosen(t)
  /\ routing = "collect" => \A t \in Tokens :
       out[t] = IF kind = "switch" THEN One(SwitchTerm(t, queued)) ELSE RowBut(t, queued)
  /\ routing = "done" => \A t \in Tokens :
       out[t] = IF kind = "switch" THEN SwitchRow(t) ELSE RowBut(t, {})
-----------------------------------------------------------------------------
\* What the gate may choose from, and whom it chooses, are TopK experts in some order.
LEMMA MaskedType ==
  ASSUME NEW s \in [Candidates -> Nat], NEW f \in Eligible(s)
  PROVE  f \in [Candidates -> Nat]
  BY DEF Eligible, Masked

\* An order of a set has each of its members at one place.
LEMMA OrderOf ==
  ASSUME NEW S, IsFiniteSet(S), NEW q \in Orderings(S)
  PROVE  /\ q \in [1..Cardinality(S) -> S] /\ Range(q) = S
         /\ \A i, j \in 1..Cardinality(S) : q[i] = q[j] => i = j
         /\ \A e \in S : \E i \in 1..Cardinality(S) : q[i] = e
<1> DEFINE n == Cardinality(S)
<1>1. q \in [1..n -> S] /\ Range(q) = S
  BY DEF Orderings
<1>2. n \in Nat /\ 1 \in Int
  BY FS_CardinalityType
<1>3. IsFiniteSet(1..n) /\ Cardinality(1..n) = n
  BY <1>2, FS_Interval
<1>4. \A e \in S : \E i \in 1..n : q[i] = e
  BY <1>1 DEF Range
<1>5. q \in Surjection(1..n, S)
  BY <1>1, <1>4 DEF Surjection
<1>6. q \in Injection(1..n, S)
  BY <1>3, <1>5, FS_SurjSameCardinalityImpliesInj
<1>7. \A i, j \in 1..n : q[i] = q[j] => i = j
  BY <1>6 DEF Injection, IsInjective
<1>8. QED
  BY <1>1, <1>4, <1>7

\* A token has TopK choices, no two of them the same expert.
LEMMA ChosenShape ==
  ASSUME RoutingType, NEW t \in Tokens, Chosen(t)
  PROVE  /\ idx[t] \in [1..TopK -> Candidates] /\ weight[t] \in [1..TopK -> Nat]
         /\ \A i, j \in 1..TopK : idx[t][i] = idx[t][j] => i = j
<1>1. score[t] \in [Candidates -> Nat]
  BY RoutingAssumption DEF RoutingType
<1>2. PICK f \in Eligible(score[t]) : \E S \in TopSets(f, TopK) : \E q \in Orderings(S) :
        idx[t] = q /\ weight[t] = [j \in DOMAIN q |-> factor * f[q[j]]]
  BY DEF Chosen
<1>3. PICK S \in TopSets(f, TopK) : \E q \in Orderings(S) :
        idx[t] = q /\ weight[t] = [j \in DOMAIN q |-> factor * f[q[j]]]
  BY <1>2
<1>4. PICK q \in Orderings(S) : idx[t] = q /\ weight[t] = [j \in DOMAIN q |-> factor * f[q[j]]]
  BY <1>3
<1>5. f \in [Candidates -> Nat] /\ factor \in Nat
  BY <1>1, <1>2, MaskedType DEF RoutingType
<1>6. S \in SUBSET Candidates /\ Cardinality(S) = TopK
  BY <1>3, <1>5 DEF TopSets
<1>7. /\ q \in [1..TopK -> S]
      /\ \A i, j \in 1..TopK : q[i] = q[j] => i = j
  BY <1>4, <1>6, FiniteCandidates, OrderOf
<1>8. \A j \in 1..TopK : factor * f[q[j]] \in Nat
  BY <1>5, <1>6, <1>7
<1>9. weight[t] = [j \in 1..TopK |-> factor * f[q[j]]]
  BY <1>4, <1>7
<1>10. QED
  BY <1>4, <1>6, <1>7, <1>8, <1>9

\* Of a group-limited gate's choices one with weight is of a group that was kept, and
\* what is better than that group's best was kept as well.
LEMMA ChosenLimited ==
  ASSUME RoutingType, NEW t \in Tokens, Chosen(t), kind = "group_limited_greedy",
         NEW j \in DOMAIN idx[t], weight[t][j] > 0
  PROVE  LET s == score[t]
             mine == GroupOf(idx[t][j])
         IN /\ mine \in Groups
            /\ Cardinality({g \in Groups : GroupScores(s)[g] > GroupScores(s)[mine]}) < TopGroups
            /\ \A e \in Candidates : GroupOf(e) = mine /\ s[e] > s[idx[t][j]]
                                   => e \in Range(idx[t])
<1> DEFINE s == score[t]
<1>1. s \in [Candidates -> Nat]
  BY RoutingAssumption DEF RoutingType
<1>2. PICK f \in Eligible(s) : \E S \in TopSets(f, TopK) : \E q \in Orderings(S) :
        idx[t] = q /\ weight[t] = [i \in DOMAIN q |-> factor * f[q[i]]]
  BY DEF Chosen
<1>3. PICK S \in TopSets(f, TopK) : \E q \in Orderings(S) :
        idx[t] = q /\ weight[t] = [i \in DOMAIN q |-> factor * f[q[i]]]
  BY <1>2
<1>4. PICK q \in Orderings(S) : idx[t] = q /\ weight[t] = [i \in DOMAIN q |-> factor * f[q[i]]]
  BY <1>3
<1>5. PICK G \in TopSets(GroupScores(s), TopGroups) : f = Masked(s, G)
  BY <1>2 DEF Eligible
<1> HIDE DEF s
<1>6. S \in SUBSET Candidates /\ Cardinality(S) = TopK
      /\ \A a \in S, b \in Candidates \ S : f[a] >= f[b]
  <2>1. DOMAIN f = Candidates
    BY <1>5 DEF Masked
  <2>2. QED
    BY <1>3, <2>1 DEF TopSets
<1>7. q \in [1..TopK -> S] /\ Range(q) = S
  BY <1>4, <1>6, FiniteCandidates, OrderOf
<1> DEFINE e0 == idx[t][j]
           mine == GroupOf(e0)
           Better == {g \in Groups : GroupScores(s)[g] > GroupScores(s)[mine]}
<1>8. e0 \in S /\ e0 \in Candidates /\ weight[t][j] = factor * f[e0]
  BY <1>4, <1>6, <1>7
<1>9. mine \in G /\ f[e0] = s[e0]
  <2>1. f[e0] = IF mine \in G THEN s[e0] ELSE 0
    BY <1>5, <1>8 DEF Masked
  <2>2. factor \in Nat /\ factor * 0 = 0
    BY DEF RoutingType
  <2>3. f[e0] # 0
    BY <1>8, <2>2
  <2>4. QED
    BY <2>1, <2>3
<1>10. G \in SUBSET Groups /\ Cardinality(G) = TopGroups
       /\ \A a \in G, b \in Groups \ G : GroupScores(s)[a] >= GroupScores(s)[b]
  <2>1. DOMAIN GroupScores(s) = Groups
    BY DEF GroupScores
  <2>2. QED
    BY <1>5, <2>1 DEF TopSets
<1>11. Better \in SUBSET (G \ {mine})
  <2>1. ASSUME NEW g \in Better PROVE g \in G /\ g # mine
    <3>1. GroupScores(s)[g] \in Nat /\ GroupScores(s)[mine] \in Nat
      BY <1>1, <1>9, <1>10, GroupHasBest
    <3>2. QED
      BY <1>9, <1>10, <3>1
  <2>2. QED
    BY <2>1
<1>12. IsFiniteSet(G) /\ TopGroups \in Nat
  BY <1>10, FiniteCandidates, FS_Subset, RoutingAssumption
<1>13. IsFiniteSet(G \ {mine}) /\ Cardinality(G \ {mine}) = TopGroups - 1
  BY <1>9, <1>10, <1>12, FS_RemoveElement
<1>14. Cardinality(Better) <= TopGroups - 1 /\ Cardinality(Better) \in Nat
  BY <1>11, <1>13, FS_Subset, FS_CardinalityType
<1>15. Cardinality(Better) < TopGroups
  BY <1>12, <1>14
<1>16. ASSUME NEW e \in Candidates, GroupOf(e) = mine, s[e] > s[e0]
       PROVE  e \in Range(idx[t])
  <2>1. f[e] = s[e]
    BY <1>5, <1>9, <1>16 DEF Masked
  <2>2. s[e] \in Nat /\ s[e0] \in Nat
    BY <1>1, <1>8
  <2>3. e \in S
    BY <1>6, <1>8, <1>9, <1>16, <2>1, <2>2
  <2>4. QED
    BY <1>4, <1>7, <2>3
<1>17. QED
  BY <1>9, <1>10, <1>15, <1>16 DEF s
-----------------------------------------------------------------------------
\* A routed expert is at one place of the choices, and its weight is the one there.
LEMMA PlaceOf ==
  ASSUME NEW t \in Tokens, NEW e, idx[t] \in [1..TopK -> Candidates], Routed(t, e)
  PROVE  Place(t, e) \in 1..TopK /\ idx[t][Place(t, e)] = e
  BY DEF Routed, Place

\* The weight the block multiplies an answer with is that of the one choice.
LEMMA WeightOf ==
  ASSUME NEW t \in Tokens, NEW e, Routed(t, e),
         idx[t] \in [1..TopK -> Candidates], weight[t] \in [1..TopK -> Nat],
         \A i, j \in 1..TopK : idx[t][i] = idx[t][j] => i = j
  PROVE  Weight(t, e) = weight[t][Place(t, e)]
<1> DEFINE p == Place(t, e)
           at == {j \in DOMAIN idx[t] : idx[t][j] = e}
           v == weight[t][p]
           body(g, s) == IF s = {} THEN 0
                         ELSE LET x == CHOOSE y \in s : TRUE
                              IN  g[s \ {x}] + weight[t][x]
           Folds(g) == g = [s \in SUBSET at |-> body(g, s)]
           sum == CHOOSE g : Folds(g)
           w0 == [s \in SUBSET at |-> IF s = {} THEN 0 ELSE v]
<1>1. p \in 1..TopK /\ idx[t][p] = e /\ v \in Nat
  BY PlaceOf
<1>2. at = {p}
  BY <1>1
<1>3. \A s \in SUBSET at : s = {} \/ s = {p}
  BY <1>2
<1>4. (CHOOSE y \in {p} : TRUE) = p /\ {p} \ {p} = {}
  OBVIOUS
<1>5. Weight(t, e) = sum[at]
  BY DEF Weight, FoldSet, MapThenFoldSet
<1> HIDE DEF at, p, v
<1>6. Folds(w0)
  <2>1. ASSUME NEW s \in SUBSET at PROVE body(w0, s) = w0[s]
    <3>1. CASE s = {}
      BY <3>1
    <3>2. CASE s = {p} /\ s # {}
      <4>1. body(w0, s) = w0[{}] + weight[t][p]
        BY <1>4, <3>2
      <4>2. w0[{}] = 0 /\ w0[s] = v
        BY <3>2
      <4>3. weight[t][p] = v
        BY DEF v
      <4>4. QED
        BY <1>1, <4>1, <4>2, <4>3
    <3>3. QED
      BY <1>3, <3>1, <3>2
  <2> HIDE DEF body
  <2>2. w0 = [s \in SUBSET at |-> body(w0, s)]
    BY <2>1
  <2>3. QED
    BY <2>2
<1>7. Folds(sum)
  BY <1>6
<1> HIDE DEF sum
<1>8. sum[{}] = 0
  BY <1>7
<1>9. sum[at] = sum[{}] + weight[t][p]
  <2>1. at \in SUBSET at /\ at # {}
    BY <1>2
  <2>2. sum[at] = body(sum, at)
    BY <1>7, <2>1
  <2>3. QED
    BY <1>2, <1>4, <2>1, <2>2
<1>10. QED
  BY <1>1, <1>5, <1>8, <1>9 DEF v, p

\* The place of a token in an expert's result is its own.
LEMMA RowsOf ==
  ASSUME NEW t \in Tokens, NEW e, Routed(t, e)
  PROVE  Rows(e)[Cardinality({u \in 0..t : Routed(u, e)})] = t
<1> DEFINE S == {u \in Tokens : Routed(u, e)}
           Below(v) == {u \in S : u < v}
           n == Cardinality({u \in 0..t : Routed(u, e)})
<1>1. t \in Nat /\ t <= NumTokens - 1 /\ NumTokens \in Nat
  BY RoutingAssumption DEF Tokens
<1>2. S \in SUBSET Tokens /\ IsFiniteSet(S) /\ t \in S
  BY FiniteCandidates, FS_Subset
<1>3. {u \in 0..t : Routed(u, e)} = Below(t) \cup {t}
  BY <1>1 DEF Tokens
<1>4. \A v \in S : Below(v) \in SUBSET S /\ IsFiniteSet(Below(v)) /\ Cardinality(Below(v)) \in Nat
  BY <1>2, FS_Subset, FS_CardinalityType
<1>5. t \notin Below(t)
  BY <1>1
<1>6. n = Cardinality(Below(t)) + 1
  BY <1>2, <1>3, <1>4, <1>5, FS_AddElement
<1>7. n <= Cardinality(S) /\ Cardinality(S) \in Nat /\ n \in Nat /\ n >= 1
  <2>1. Below(t) \cup {t} \in SUBSET S
    BY <1>2
  <2>2. QED
    BY <1>2, <1>3, <1>4, <1>6, <2>1, FS_Subset, FS_CardinalityType
<1> HIDE DEF n
<1>8. Rows(e)[n] = CHOOSE v \in S : Cardinality(Below(v)) = n - 1
  <2>1. Rows(e) = [m \in 1..Cardinality(S) |->
                     CHOOSE v \in S : Cardinality(Below(v)) = m - 1]
    BY DEF Rows
  <2>2. n \in 1..Cardinality(S)
    BY <1>7
  <2> HIDE DEF S, Below
  <2>3. QED
    BY <2>1, <2>2
<1>9. Cardinality(Below(t)) = n - 1
  <2> HIDE DEF S, Below
  <2>1. Cardinality(Below(t)) \in Nat
    BY <1>2, <1>4
  <2>2. QED
    BY <1>6, <2>1
<1>10. ASSUME NEW a \in S, NEW b \in S, a < b
       PROVE  Cardinality(Below(a)) < Cardinality(Below(b))
  <2>1. a \in Int /\ b \in Int
    BY RoutingAssumption DEF Tokens
  <2>2. Below(a) \cup {a} \in SUBSET Below(b) /\ a \notin Below(a)
    <3>1. ASSUME NEW u \in Below(a) PROVE u < b
      BY <1>10, <2>1, <3>1, RoutingAssumption DEF Tokens
    <3>2. a \in Below(b) /\ a \notin Below(a) /\ Below(a) \in SUBSET S
      BY <1>10, <2>1
    <3>3. \A u \in Below(a) : u \in Below(b)
      BY <3>1, <3>2
    <3>4. QED
      BY <3>2, <3>3
  <2> HIDE DEF Below, S
  <2>3. Cardinality(Below(a) \cup {a}) = Cardinality(Below(a)) + 1
    BY <1>4, <2>2, FS_AddElement
  <2>4. Cardinality(Below(a) \cup {a}) <= Cardinality(Below(b))
    BY <1>4, <2>2, FS_Subset
  <2>5. QED
    BY <1>4, <2>3, <2>4
<1> HIDE DEF Below, n
<1>11. ASSUME NEW v \in S, Cardinality(Below(v)) = n - 1 PROVE v = t
  <2>1. v \in Int /\ t \in Int
    BY RoutingAssumption DEF Tokens
  <2>2. CASE v < t
    BY <1>2, <1>4, <1>7, <1>9, <1>10, <1>11, <2>2
  <2>3. CASE t < v
    BY <1>2, <1>4, <1>7, <1>9, <1>10, <1>11, <2>3
  <2>4. QED
    BY <2>1, <2>2, <2>3
<1>12. QED
  BY <1>2, <1>8, <1>9, <1>11 DEF n
-----------------------------------------------------------------------------
\* The invariant holds at the start and every step keeps it.
LEMMA RoutingStart == RoutingInit => RoutingInv
<1>1. SUFFICES ASSUME RoutingInit PROVE RoutingInv
  OBVIOUS
<1>2. RoutingType
  BY <1>1, RoutingAssumption DEF RoutingInit, RoutingType
<1>3. 0..(gated - 1) = {} /\ routing = "gate"
  BY <1>1 DEF RoutingInit
<1>4. QED
  BY <1>2, <1>3 DEF RoutingInv

\* What the gate did for a token is not touched by its coming to the next.
LEMMA EarlierKept ==
  ASSUME RoutingInv, NEW q, NEW v, NEW n, n = gated, n < NumTokens, routing = "gate",
         idx' = [idx EXCEPT ![gated] = q], weight' = [weight EXCEPT ![gated] = v],
         gated' = gated + 1, UNCHANGED <<kind, factor, score, queued, reqs, out, routing>>,
         q \in Seq(Candidates), v \in Seq(Nat),
         IF kind = "switch" THEN Switched(n)' ELSE Chosen(n)'
  PROVE  RoutingInv'
<1>1. RoutingType /\ gated \in Nat /\ NumTokens \in Nat /\ gated \in Tokens
  BY RoutingAssumption DEF RoutingInv, RoutingType, Tokens
<1>2. RoutingType'
  BY <1>1 DEF RoutingType
<1>3. ASSUME NEW t \in 0..(gated' - 1)
      PROVE  IF kind' = "switch" THEN Switched(t)' ELSE Chosen(t)'
  <2>1. CASE t = gated
    BY <2>1
  <2>2. CASE t # gated
    <3>1. t \in 0..(gated - 1) /\ t \in Tokens
      BY <1>1, <2>2 DEF Tokens
    <3>2. idx'[t] = idx[t] /\ weight'[t] = weight[t] /\ score' = score /\ kind' = kind
          /\ factor' = factor
      BY <1>1, <2>2, <3>1 DEF RoutingType
    <3>3. Switched(t) => Switched(t)'
      BY <3>2 DEF Switched
    <3>4. Chosen(t) => Chosen(t)'
      <4>1. Eligible(score[t])' = Eligible(score[t])
        BY <3>2 DEF Eligible
      <4>2. SUFFICES ASSUME NEW f \in Eligible(score[t]), NEW S \in TopSets(f, TopK),
                            NEW q0 \in Orderings(S), idx[t] = q0,
                            weight[t] = [j \in DOMAIN q0 |-> factor * f[q0[j]]]
                     PROVE  Chosen(t)'
        BY DEF Chosen
      <4>3. f \in Eligible(score[t])'
        BY <4>1
      <4>4. idx'[t] = q0 /\ weight'[t] = [j \in DOMAIN q0 |-> factor' * f[q0[j]]]
        BY <3>2, <4>2
      <4>5. \E p \in Orderings(S) :
             idx'[t] = p /\ weight'[t] = [j \in DOMAIN p |-> factor' * f[p[j]]]
        BY <4>2, <4>4
      <4>6. \E g \in Eligible(score[t])' : \E Q \in TopSets(g, TopK) : \E p \in Orderings(Q) :
             idx'[t] = p /\ weight'[t] = [j \in DOMAIN p |-> factor' * g[p[j]]]
        BY <4>2, <4>3, <4>5
      <4>7. QED
        BY <4>6 DEF Chosen
    <3>5. IF kind = "switch" THEN Switched(t) ELSE Chosen(t)
      BY <3>1 DEF RoutingInv
    <3>6. QED
      BY <3>2, <3>3, <3>4, <3>5
  <2>3. QED
    BY <2>1, <2>2
<1>4. QED
  BY <1>2, <1>3 DEF RoutingInv

\* The gate leaves a token with its choices.
LEMMA GateKeeps == RoutingInv /\ Gate => RoutingInv'
<1>1. SUFFICES ASSUME RoutingInv, Gate PROVE RoutingInv'
  OBVIOUS
<1>2. gated \in Tokens /\ RoutingType /\ score[gated] \in [Candidates -> Nat]
  BY <1>1, RoutingAssumption DEF RoutingInv, RoutingType, Gate, Tokens
<1>3. PICK f \in Eligible(score[gated]) : \E S \in TopSets(f, TopK) : \E q \in Orderings(S) :
        /\ idx' = [idx EXCEPT ![gated] = q]
        /\ weight' = [weight EXCEPT ![gated] = [j \in DOMAIN q |-> factor * f[q[j]]]]
  BY <1>1 DEF Gate
<1>4. PICK S \in TopSets(f, TopK) : \E q \in Orderings(S) :
        /\ idx' = [idx EXCEPT ![gated] = q]
        /\ weight' = [weight EXCEPT ![gated] = [j \in DOMAIN q |-> factor * f[q[j]]]]
  BY <1>3
<1>5. PICK q \in Orderings(S) :
        /\ idx' = [idx EXCEPT ![gated] = q]
        /\ weight' = [weight EXCEPT ![gated] = [j \in DOMAIN q |-> factor * f[q[j]]]]
  BY <1>4
<1> DEFINE v == [j \in DOMAIN q |-> factor * f[q[j]]]
<1>6. f \in [Candidates -> Nat] /\ factor \in Nat
  BY <1>2, <1>3, MaskedType DEF RoutingType
<1>7. S \in SUBSET Candidates /\ Cardinality(S) = TopK /\ TopK \in Nat
  BY <1>4, <1>6, RoutingAssumption DEF TopSets
<1>8. q \in [1..TopK -> S]
  BY <1>5, <1>7, FiniteCandidates, OrderOf
<1>9. q \in Seq(Candidates) /\ v \in Seq(Nat)
  <2>1. \A j \in 1..TopK : factor * f[q[j]] \in Nat
    BY <1>6, <1>7, <1>8
  <2>2. q \in [1..TopK -> Candidates] /\ v \in [1..TopK -> Nat]
    BY <1>7, <1>8, <2>1
  <2> HIDE DEF v
  <2>3. QED
    BY <1>7, <2>2
<1>10. kind # "switch" /\ UNCHANGED <<kind, factor, score>>
  BY <1>1 DEF Gate
<1>11. PICK n \in Tokens : n = gated
  BY <1>2
<1>12. Chosen(n)'
  <2>1. idx'[n] = q /\ weight'[n] = v /\ factor' = factor
    BY <1>2, <1>5, <1>10, <1>11 DEF RoutingType
  <2>2. f \in Eligible(score[n])' /\ S \in TopSets(f, TopK) /\ q \in Orderings(S)
    BY <1>3, <1>4, <1>5, <1>10, <1>11 DEF Eligible
  <2>3. \E p \in Orderings(S) : idx'[n] = p /\ weight'[n] = [j \in DOMAIN p |-> factor' * f[p[j]]]
    BY <2>1, <2>2
  <2>4. \E g \in Eligible(score[n])' : \E Q \in TopSets(g, TopK) : \E p \in Orderings(Q) :
         idx'[n] = p /\ weight'[n] = [j \in DOMAIN p |-> factor' * g[p[j]]]
    BY <2>2, <2>3
  <2>5. QED
    BY <2>4 DEF Chosen
<1>13. QED
  BY <1>1, <1>2, <1>5, <1>9, <1>10, <1>11, <1>12, EarlierKept DEF Gate

\* The Switch router leaves a token with one expert or, if that is full, none.
LEMMA SwitchGateKeeps == RoutingInv /\ SwitchGate => RoutingInv'
<1>1. SUFFICES ASSUME RoutingInv, SwitchGate PROVE RoutingInv'
  OBVIOUS
<1>2. gated \in Tokens /\ RoutingType /\ score[gated] \in [Candidates -> Nat]
  <2>1. RoutingType /\ gated < NumTokens
    BY <1>1 DEF RoutingInv, SwitchGate
  <2>2. gated \in Tokens /\ score[gated] \in Scores
    BY <2>1, RoutingAssumption DEF RoutingType, Tokens
  <2>3. QED
    BY <2>1, <2>2, RoutingAssumption
<1>3. PICK n \in Tokens : n = gated
  BY <1>2
<1>4. PICK S \in TopSets(score[n], 1) : \E e \in S :
        /\ idx' = [idx EXCEPT ![n] =
             IF Cardinality({t \in Tokens : idx[t] = <<e>>}) < Capacity THEN <<e>> ELSE <<>>]
        /\ weight' = [weight EXCEPT ![n] = <<score[n][e]>>]
  BY <1>1, <1>3 DEF SwitchGate
<1>5. PICK e \in S :
        /\ idx' = [idx EXCEPT ![n] =
             IF Cardinality({t \in Tokens : idx[t] = <<e>>}) < Capacity THEN <<e>> ELSE <<>>]
        /\ weight' = [weight EXCEPT ![n] = <<score[n][e]>>]
  BY <1>4
<1>6. e \in Candidates /\ score[n][e] \in Nat
  BY <1>2, <1>3, <1>4 DEF TopSets
<1> DEFINE full == ~(Cardinality({t \in Tokens : idx[t] = <<e>>}) < Capacity)
           q == IF full THEN <<>> ELSE <<e>>
           v == <<score[n][e]>>
<1>7. idx' = [idx EXCEPT ![n] = q] /\ weight' = [weight EXCEPT ![n] = v]
  BY <1>5
<1> HIDE DEF full
<1>8. q \in Seq(Candidates) /\ v \in Seq(Nat) /\ (q = <<>> \/ q = <<e>>) /\ Len(v) = 1
  BY <1>6
<1>9. Switched(n)'
  <2> HIDE DEF q, v
  <2>1. idx'[n] = q /\ weight'[n] = v
    BY <1>2, <1>7 DEF RoutingType
  <2>2. QED
    BY <1>6, <1>8, <2>1 DEF Switched
<1> HIDE DEF q, v
<1>10. kind = "switch" /\ gated < NumTokens /\ routing = "gate" /\ gated' = gated + 1
       /\ UNCHANGED <<kind, factor, score, queued, reqs, out, routing>>
  BY <1>1 DEF SwitchGate
<1>11. QED
  BY <1>1, <1>3, <1>7, <1>8, <1>9, <1>10, EarlierKept

\* Once the gate is through, every token has its choices.
LEMMA AllGated ==
  ASSUME RoutingInv, gated = NumTokens, NEW t \in Tokens
  PROVE  IF kind = "switch" THEN Switched(t) ELSE Chosen(t)
  BY DEF RoutingInv, Tokens

\* As long as neither gate nor choices change, what was said of them stays true.
LEMMA RoutingStable ==
  ASSUME RoutingInv, RoutingType', UNCHANGED <<kind, factor, score, idx, weight, gated>>,
         routing' = "collect" => \A t \in Tokens :
           out'[t] = IF kind = "switch" THEN One(SwitchTerm(t, queued'))
                     ELSE RowBut(t, queued'),
         routing' = "done" => \A t \in Tokens :
           out'[t] = IF kind = "switch" THEN SwitchRow(t) ELSE RowBut(t, {})
  PROVE  RoutingInv'
<1>1. ASSUME NEW t, Chosen(t) PROVE Chosen(t)'
  <2>1. Eligible(score[t])' = Eligible(score[t]) /\ idx'[t] = idx[t] /\ weight'[t] = weight[t]
    BY DEF Eligible
  <2>2. SUFFICES ASSUME NEW f \in Eligible(score[t]), NEW S \in TopSets(f, TopK),
                        NEW q \in Orderings(S), idx[t] = q,
                        weight[t] = [j \in DOMAIN q |-> factor * f[q[j]]]
                 PROVE  Chosen(t)'
    BY <1>1 DEF Chosen
  <2>3. f \in Eligible(score[t])'
    BY <2>1
  <2>4. idx'[t] = q /\ weight'[t] = [j \in DOMAIN q |-> factor' * f[q[j]]]
    BY <2>1, <2>2
  <2>5. \E p \in Orderings(S) : idx'[t] = p /\ weight'[t] = [j \in DOMAIN p |-> factor' * f[p[j]]]
    BY <2>2, <2>4
  <2>6. \E g \in Eligible(score[t])' : \E Q \in TopSets(g, TopK) : \E p \in Orderings(Q) :
         idx'[t] = p /\ weight'[t] = [j \in DOMAIN p |-> factor' * g[p[j]]]
    BY <2>2, <2>3, <2>5
  <2>7. QED
    BY <2>6 DEF Chosen
<1>2. ASSUME NEW t PROVE /\ Switched(t) => Switched(t)'
                         /\ SwitchRow(t)' = SwitchRow(t)
  BY DEF Switched, SwitchRow
<1>3. ASSUME NEW t, NEW Q PROVE /\ RowBut(t, Q)' = RowBut(t, Q)
                                /\ SwitchTerm(t, Q)' = SwitchTerm(t, Q)
  BY DEF RowBut, SwitchTerm, Routed, Place
<1>4. \A t \in 0..(gated' - 1) : IF kind' = "switch" THEN Switched(t)' ELSE Chosen(t)'
  BY <1>1, <1>2 DEF RoutingInv
<1>5. routing' = "collect" => \A t \in Tokens :
        out'[t] = IF kind' = "switch" THEN One(SwitchTerm(t, queued)')
                  ELSE RowBut(t, queued)'
  <2>1. ASSUME NEW t PROVE /\ RowBut(t, queued)' = RowBut(t, queued')
                           /\ SwitchTerm(t, queued)' = SwitchTerm(t, queued')
    BY DEF RowBut, SwitchTerm, Routed, Place
  <2>2. kind' = kind
    OBVIOUS
  <2>3. QED
    BY <2>1, <2>2
<1>6. routing' = "done" => \A t \in Tokens :
        out'[t] = IF kind' = "switch" THEN SwitchRow(t)' ELSE RowBut(t, {})'
  BY <1>2, <1>3
<1>7. QED
  BY <1>4, <1>5, <1>6 DEF RoutingInv

\* Every expert with a token is enqueued, so that no answer is counted yet.
LEMMA DispatchKeeps == RoutingInv /\ DispatchLocal => RoutingInv'
<1>1. SUFFICES ASSUME RoutingInv, DispatchLocal PROVE RoutingInv'
  OBVIOUS
<1>2. RoutingType /\ gated = NumTokens /\ UNCHANGED <<kind, factor, score, idx, weight, gated>>
      /\ routing' = "collect"
  BY <1>1 DEF RoutingInv, DispatchLocal
<1>3. RoutingType'
  BY <1>1, <1>2 DEF RoutingType, DispatchLocal
<1>4. ASSUME NEW t \in Tokens, NEW e \in Candidates, Routed(t, e)
      PROVE  e \in queued'
  <2> DEFINE S == {u \in Tokens : Routed(u, e)}
  <2>1. IsFiniteSet(S) /\ t \in S
    BY <1>4, FiniteCandidates, FS_Subset
  <2>2. Cardinality(S) \in Nat /\ Cardinality(S) # 0
    BY <2>1, FS_CardinalityType, FS_EmptySet
  <2>3. reqs'[e] = Cardinality(S)
    BY <1>1 DEF DispatchLocal
  <2> HIDE DEF S
  <2>4. queued' = {d \in Candidates : reqs'[d] > 0}
    BY <1>1 DEF DispatchLocal
  <2>5. QED
    BY <2>2, <2>3, <2>4
<1>5. ASSUME NEW t \in Tokens
      PROVE  out'[t] = IF kind = "switch" THEN One(SwitchTerm(t, queued'))
                       ELSE RowBut(t, queued')
  <2>1. CASE kind = "switch"
    <3>1. SwitchTerm(t, queued') = <<-1, t>>
      <4>1. CASE idx[t] = <<>>
        BY <4>1 DEF SwitchTerm
      <4>2. CASE idx[t] # <<>>
        <5>1. PICK e \in Candidates : idx[t] = <<e>>
          BY <1>1, <1>2, <2>1, <4>2, AllGated DEF Switched
        <5>2. Routed(t, e) /\ idx[t][1] = e
          BY <5>1 DEF Routed
        <5>3. QED
          BY <1>4, <5>2 DEF SwitchTerm
      <4>3. QED
        BY <4>1, <4>2
    <3>2. out'[t] = One(<<-1, t>>)
      BY <1>1, <2>1 DEF DispatchLocal
    <3>3. QED
      BY <2>1, <3>1, <3>2
  <2>2. CASE kind # "switch"
    <3>1. idx[t] \in [1..TopK -> Candidates]
      BY <1>1, <1>2, <2>2, AllGated, ChosenShape
    <3>2. \A e : Routed(t, e) => e \in queued'
      BY <1>4, <3>1 DEF Routed
    <3>3. RowBut(t, queued') = Zero
      BY <3>2 DEF RowBut, Zero
    <3>4. out'[t] = Zero
      BY <1>1, <2>2 DEF DispatchLocal
    <3>5. QED
      BY <2>2, <3>3, <3>4
  <2>3. QED
    BY <2>1, <2>2
<1>6. \A t \in 0..(gated - 1) : IF kind = "switch" THEN Switched(t) ELSE Chosen(t)
  BY <1>1 DEF RoutingInv
<1>7. QED
  BY <1>1, <1>2, <1>3, <1>5, <1>6, RoutingStable

\* An answer counts for the tokens that chose the expert, once and with its weight.
LEMMA AnswerCounts ==
  ASSUME RoutingInv, kind # "switch", gated = NumTokens, NEW t \in Tokens,
         NEW e \in queued, Routed(t, e)
  PROVE  Added(RowBut(t, queued), Weight(t, e), <<e, t>>) = RowBut(t, queued \ {e})
<1> DEFINE y == <<e, t>>
           v == weight[t][Place(t, e)]
           r == RowBut(t, queued)
           r1 == RowBut(t, queued \ {e})
<1>1. /\ idx[t] \in [1..TopK -> Candidates] /\ weight[t] \in [1..TopK -> Nat]
      /\ \A i, j \in 1..TopK : idx[t][i] = idx[t][j] => i = j
      /\ e \in Candidates
  <2>1. RoutingType /\ Chosen(t)
    BY AllGated DEF RoutingInv
  <2>2. QED
    BY <2>1, ChosenShape DEF RoutingType
<1>2. Weight(t, e) = v /\ v \in Nat
  BY <1>1, WeightOf, PlaceOf
<1>3. y \in Terms
  BY <1>1 DEF Terms
<1>4. r[y] = 0 /\ r1[y] = v
  BY <1>3 DEF RowBut
<1>5. ASSUME NEW x \in Terms, x # y PROVE r1[x] = r[x]
  <2>1. x[2] = t => x[1] # e
    BY <1>5 DEF Terms
  <2>2. QED
    BY <2>1 DEF RowBut
<1>6. r = [x \in Terms |-> r[x]] /\ r1 = [x \in Terms |-> r1[x]]
  BY DEF RowBut
<1>7. Added(r, v, y) = [r EXCEPT ![y] = @ + v]
  BY DEF Added, Plus
<1> HIDE DEF r, r1, v, y
<1>8. [r EXCEPT ![y] = @ + v] = r1
  BY <1>2, <1>3, <1>4, <1>5, <1>6
<1>9. QED
  BY <1>2, <1>7, <1>8 DEF r, r1, y

\* An answer counts for no other token.
LEMMA NoAnswerForOthers ==
  ASSUME NEW t \in Tokens, NEW e, ~Routed(t, e)
  PROVE  RowBut(t, queued \ {e}) = RowBut(t, queued)
<1>1. ASSUME NEW x \in Terms
      PROVE  x[1] \notin queued \ {e} /\ Routed(t, x[1]) <=> x[1] \notin queued /\ Routed(t, x[1])
  OBVIOUS
<1>2. QED
  BY <1>1 DEF RowBut

\* Collecting an answer adds it to the rows of its tokens, in whatever order.
LEMMA CollectKeeps == RoutingInv /\ Collect => RoutingInv'
<1>1. SUFFICES ASSUME RoutingInv, Collect PROVE RoutingInv'
  OBVIOUS
<1>2. RoutingType /\ gated = NumTokens /\ UNCHANGED <<kind, factor, score, idx, weight, gated>>
      /\ routing = "collect" /\ routing' = "collect"
  BY <1>1 DEF RoutingInv, RoutingType, Collect
<1>3. PICK e \in queued :
        /\ queued' = queued \ {e}
        /\ out' = [t \in Tokens |->
             IF ~Routed(t, e) THEN out[t]
             ELSE LET x == <<e, Rows(e)[Cardinality({u \in 0..t : Routed(u, e)})]>> IN
                  IF kind = "switch" THEN One(x) ELSE Added(out[t], Weight(t, e), x)]
  BY <1>1 DEF Collect
<1>4. RoutingType'
  BY <1>2, <1>3 DEF RoutingType
<1>5. ASSUME NEW t \in Tokens
      PROVE  out'[t] = IF kind = "switch" THEN One(SwitchTerm(t, queued'))
                       ELSE RowBut(t, queued')
  <2>1. out[t] = IF kind = "switch" THEN One(SwitchTerm(t, queued)) ELSE RowBut(t, queued)
    BY <1>1, <1>2 DEF RoutingInv
  <2>2. Routed(t, e) => Rows(e)[Cardinality({u \in 0..t : Routed(u, e)})] = t
    BY RowsOf
  <2>3. out'[t] = IF ~Routed(t, e) THEN out[t]
                  ELSE IF kind = "switch" THEN One(<<e, t>>)
                  ELSE Added(out[t], Weight(t, e), <<e, t>>)
    <3>1. out'[t] = IF ~Routed(t, e) THEN out[t]
             ELSE LET x == <<e, Rows(e)[Cardinality({u \in 0..t : Routed(u, e)})]>> IN
                  IF kind = "switch" THEN One(x) ELSE Added(out[t], Weight(t, e), x)
      BY <1>3
    <3>2. QED
      BY <2>2, <3>1
  <2>4. CASE kind = "switch"
    <3>1. idx[t] = <<>> \/ \E d \in Candidates : idx[t] = <<d>>
      BY <1>1, <1>2, <2>4, AllGated DEF Switched
    <3>2. idx[t] = <<>> \/ idx[t][1] \in Candidates
      BY <3>1
    <3>3. Routed(t, e) <=> idx[t] # <<>> /\ idx[t][1] = e
      BY <3>1 DEF Routed
    <3>4. CASE Routed(t, e)
      <4>1. SwitchTerm(t, queued \ {e}) = <<e, t>>
        BY <3>3, <3>4 DEF SwitchTerm
      <4>2. QED
        BY <1>3, <2>3, <2>4, <3>4, <4>1
    <3>5. CASE ~Routed(t, e)
      <4>1. SwitchTerm(t, queued \ {e}) = SwitchTerm(t, queued)
        BY <3>3, <3>5 DEF SwitchTerm
      <4>2. QED
        BY <1>3, <2>1, <2>3, <2>4, <3>5, <4>1
    <3>6. QED
      BY <3>4, <3>5
  <2>5. CASE kind # "switch"
    <3>1. CASE Routed(t, e)
      BY <1>1, <1>2, <1>3, <2>1, <2>3, <2>5, <3>1, AnswerCounts
    <3>2. CASE ~Routed(t, e)
      BY <1>3, <2>1, <2>3, <2>5, <3>2, NoAnswerForOthers
    <3>3. QED
      BY <3>1, <3>2
  <2>6. QED
    BY <2>4, <2>5
<1>6. QED
  BY <1>1, <1>2, <1>4, <1>5, RoutingStable

\* With all answers in, the rows are whole; those of the Switch router are scaled.
LEMMA FinishKeeps == RoutingInv /\ Finish => RoutingInv'
<1>1. SUFFICES ASSUME RoutingInv, Finish PROVE RoutingInv'
  OBVIOUS
<1>2. RoutingType /\ gated = NumTokens
      /\ UNCHANGED <<kind, factor, score, idx, weight, gated, queued>>
      /\ routing = "collect" /\ routing' = "done" /\ queued = {}
      /\ out' = IF kind = "switch" THEN Scaled ELSE out
  BY <1>1 DEF RoutingInv, RoutingType, Finish
<1>3. RoutingType'
  BY <1>2 DEF RoutingType
<1>4. ASSUME NEW t \in Tokens
      PROVE  out'[t] = IF kind = "switch" THEN SwitchRow(t) ELSE RowBut(t, {})
  <2>1. out[t] = IF kind = "switch" THEN One(SwitchTerm(t, {})) ELSE RowBut(t, {})
    BY <1>1, <1>2 DEF RoutingInv
  <2>2. CASE kind # "switch"
    BY <1>2, <2>1, <2>2
  <2>3. CASE kind = "switch"
    <3> DEFINE y == SwitchTerm(t, {})
               v == weight[t][1]
    <3>1. Switched(t)
      BY <1>1, <1>2, <2>3, AllGated
    <3>2. v \in Nat
      <4>1. weight[t] \in Seq(Nat) /\ Len(weight[t]) = 1
        BY <1>2, <3>1 DEF Switched, RoutingType
      <4>2. QED
        BY <4>1
    <3>3. y \in Terms /\ y = IF idx[t] = <<>> THEN <<-1, t>> ELSE <<idx[t][1], t>>
      BY <3>1 DEF Switched, SwitchTerm, Terms
    <3>4. out'[t] = [x \in Terms |-> v * One(y)[x]]
      BY <1>2, <2>1, <2>3 DEF Scaled
    <3>5. SwitchRow(t) = [Zero EXCEPT ![y] = @ + v]
      BY <3>3 DEF SwitchRow, Plus
    <3> HIDE DEF y, v
    <3>6. ASSUME NEW x \in Terms PROVE v * One(y)[x] = IF x = y THEN v ELSE 0
      BY <3>2, <3>3 DEF One, Zero
    <3>7. [Zero EXCEPT ![y] = @ + v] = [x \in Terms |-> IF x = y THEN v ELSE 0]
      BY <3>2, <3>3 DEF Zero
    <3>8. out'[t] = SwitchRow(t)
      BY <3>4, <3>5, <3>6, <3>7
    <3>9. QED
      BY <2>3, <3>8
  <2>4. QED
    BY <2>2, <2>3
<1>5. QED
  BY <1>1, <1>2, <1>3, <1>4, RoutingStable

\* The invariant is kept by every step.
LEMMA RoutingInductive == RoutingInv /\ [RoutingNext]_routingVars => RoutingInv'
<1>1. SUFFICES ASSUME RoutingInv, [RoutingNext]_routingVars PROVE RoutingInv'
  OBVIOUS
<1>2. CASE Gate
  BY <1>1, <1>2, GateKeeps
<1>3. CASE SwitchGate
  BY <1>1, <1>3, SwitchGateKeeps
<1>4. CASE DispatchLocal
  BY <1>1, <1>4, DispatchKeeps
<1>5. CASE Collect
  BY <1>1, <1>5, CollectKeeps
<1>6. CASE Finish
  BY <1>1, <1>6, FinishKeeps
<1>7. CASE UNCHANGED routingVars
  <2>1. UNCHANGED <<kind, factor, score, idx, weight, gated, queued, reqs, out, routing>>
    BY <1>7 DEF routingVars
  <2>2. RoutingType'
    BY <1>1, <2>1 DEF RoutingInv, RoutingType
  <2>3. /\ routing = "collect" => \A t \in Tokens :
             out[t] = IF kind = "switch" THEN One(SwitchTerm(t, queued)) ELSE RowBut(t, queued)
        /\ routing = "done" => \A t \in Tokens :
             out[t] = IF kind = "switch" THEN SwitchRow(t) ELSE RowBut(t, {})
    BY <1>1 DEF RoutingInv
  <2>4. QED
    BY <1>1, <2>1, <2>2, <2>3, RoutingStable
<1>8. QED
  BY <1>1, <1>2, <1>3, <1>4, <1>5, <1>6, <1>7 DEF RoutingNext
-----------------------------------------------------------------------------
\* The sum of a token's choices is a row with each term's weight, if no two of the terms
\* are the same.
LEMMA SumOfTerms ==
  ASSUME NEW ws \in [1..TopK -> Nat], NEW term \in [1..TopK -> Terms],
         \A i, j \in 1..TopK : term[i] = term[j] => i = j
  PROVE  SumOf(ws, term) =
           [x \in Terms |-> IF \E j \in 1..TopK : term[j] = x
                              THEN ws[CHOOSE j \in 1..TopK : term[j] = x] ELSE 0]
<1> DEFINE At(x) == CHOOSE j \in 1..TopK : term[j] = x
           UpTo(n) == [x \in Terms |-> IF \E j \in 1..n : term[j] = x
                                         THEN ws[At(x)] ELSE 0]
           body(g, n) == IF n = 0 THEN Zero ELSE Plus(g[n - 1], ws[n], term[n])
           Sums(g) == g = [n \in 0..TopK |-> body(g, n)]
           row == CHOOSE g : Sums(g)
           all == [n \in 0..TopK |-> UpTo(n)]
<1>1. TopK \in Nat
  BY RoutingAssumption
<1>2. \A n \in 1..TopK : At(term[n]) = n
  OBVIOUS
<1>3. ASSUME NEW n \in 0..TopK PROVE UpTo(n) = IF n = 0 THEN Zero
                                               ELSE Plus(UpTo(n - 1), ws[n], term[n])
  <2>1. CASE n = 0
    <3>1. \A x \in Terms : ~ \E j \in 1..n : term[j] = x
      BY <2>1
    <3>2. UpTo(n) = Zero
      BY <3>1 DEF Zero
    <3>3. QED
      BY <2>1, <3>2
  <2>2. CASE n # 0
    <3>1. n \in 1..TopK /\ n \in Nat /\ term[n] \in Terms /\ ws[n] \in Nat
          /\ At(term[n]) = n
      BY <1>1, <1>2, <2>2
    <3> DEFINE y == term[n]
               r == UpTo(n - 1)
               r1 == UpTo(n)
    <3>2. r[y] = 0
      <4>1. \A j \in 1..(n - 1) : term[j] # y
        BY <1>1, <3>1
      <4>2. QED
        BY <3>1, <4>1
    <3>3. r1[y] = ws[n]
      <4>1. n \in 1..n /\ term[n] = y
        BY <3>1
      <4>2. r1[y] = ws[At(y)]
        BY <3>1, <4>1
      <4>3. QED
        BY <3>1, <4>2
    <3>4. ASSUME NEW x \in Terms, x # y PROVE r1[x] = r[x]
      <4>1. (\E j \in 1..n : term[j] = x) <=> (\E j \in 1..(n - 1) : term[j] = x)
        BY <3>1, <3>4
      <4> HIDE DEF At
      <4>2. QED
        BY <4>1
    <3>5. r = [x \in Terms |-> r[x]] /\ r1 = [x \in Terms |-> r1[x]]
      OBVIOUS
    <3>6. y \in Terms
      BY <3>1
    <3> HIDE DEF UpTo, y, r, r1
    <3>7. [r EXCEPT ![y] = @ + ws[n]] = r1
      BY <3>1, <3>2, <3>3, <3>4, <3>5, <3>6
    <3>8. QED
      BY <2>2, <3>7 DEF Plus, r, r1, y
  <2>3. QED
    BY <2>1, <2>2
<1> HIDE DEF UpTo
<1>4. Sums(all)
  <2>1. ASSUME NEW n \in 0..TopK PROVE body(all, n) = UpTo(n)
    <3>1. CASE n = 0
      BY <1>3, <3>1
    <3>2. CASE n # 0
      <4>1. n - 1 \in 0..TopK
        BY <1>1, <3>2
      <4>2. all[n - 1] = UpTo(n - 1)
        BY <4>1
      <4>3. QED
        BY <1>3, <3>2, <4>2
    <3>3. QED
      BY <3>1, <3>2
  <2> HIDE DEF body
  <2>2. all = [n \in 0..TopK |-> body(all, n)]
    BY <2>1
  <2>3. QED
    BY <2>2
<1>5. Sums(row)
  <2> HIDE DEF all, Sums
  <2>1. QED
    BY <1>4
<1>6. SumOf(ws, term) = row[TopK]
  BY DEF SumOf
<1> HIDE DEF row
<1>7. \A n \in 0..TopK : row[n] = UpTo(n)
  <2> DEFINE Bad == {n \in 0..TopK : row[n] # UpTo(n)}
  <2>1. SUFFICES ASSUME Bad # {} PROVE FALSE
    OBVIOUS
  <2>2. Bad \subseteq Nat
    OBVIOUS
  <2> HIDE DEF Bad
  <2>3. PICK n \in Bad : \A y \in Bad : n <= y
    BY <2>1, <2>2, LowestExists
  <2>4. n \in 0..TopK /\ row[n] # UpTo(n) /\ n \in Nat
    BY <2>3 DEF Bad
  <2>5. row[n] = body(row, n)
    BY <1>5, <2>4
  <2>6. CASE n = 0
    BY <1>3, <2>4, <2>5, <2>6
  <2>7. CASE n # 0
    <3>1. n - 1 \in 0..TopK /\ ~(n <= n - 1)
      BY <1>1, <2>4, <2>7
    <3>2. row[n - 1] = UpTo(n - 1)
      BY <2>3, <3>1 DEF Bad
    <3>3. QED
      BY <1>3, <2>4, <2>5, <2>7, <3>2
  <2>8. QED
    BY <2>6, <2>7
<1>8. QED
  BY <1>1, <1>6, <1>7 DEF UpTo

\* Such a sum over the choices themselves is the row the block collects.
LEMMA SumOfChoices ==
  ASSUME NEW t \in Tokens, idx[t] \in [1..TopK -> Candidates], weight[t] \in [1..TopK -> Nat],
         \A i, j \in 1..TopK : idx[t][i] = idx[t][j] => i = j
  PROVE  SumOf(weight[t], [j \in 1..TopK |-> <<idx[t][j], t>>]) = RowBut(t, {})
<1> DEFINE term == [j \in 1..TopK |-> <<idx[t][j], t>>]
           At(x) == CHOOSE j \in 1..TopK : term[j] = x
           sum == [x \in Terms |-> IF \E j \in 1..TopK : term[j] = x
                                     THEN weight[t][At(x)] ELSE 0]
<1>1. /\ term \in [1..TopK -> Terms]
      /\ \A i, j \in 1..TopK : term[i] = term[j] => i = j
  BY DEF Terms
<1>2. SumOf(weight[t], term) = sum
  <2> HIDE DEF term
  <2>1. QED
    BY <1>1, SumOfTerms
<1>3. ASSUME NEW x \in Terms PROVE sum[x] = RowBut(t, {})[x]
  <2>1. x = <<x[1], x[2]>>
    BY DEF Terms
  <2>2. \A j \in 1..TopK : term[j] = x <=> x[2] = t /\ idx[t][j] = x[1]
    BY <2>1
  <2>3. CASE \E j \in 1..TopK : term[j] = x
    <3>1. x[2] = t /\ Routed(t, x[1])
      BY <2>2, <2>3 DEF Routed
    <3>2. Place(t, x[1]) \in 1..TopK /\ idx[t][Place(t, x[1])] = x[1]
      BY <3>1, PlaceOf
    <3>3. term[Place(t, x[1])] = x
      BY <2>2, <3>1, <3>2
    <3>4. At(x) \in 1..TopK /\ term[At(x)] = x
      BY <2>3
    <3> HIDE DEF term, At
    <3>5. At(x) = Place(t, x[1])
      BY <1>1, <3>2, <3>3, <3>4
    <3>6. QED
      BY <2>3, <3>1, <3>5 DEF RowBut
  <2>4. CASE ~ \E j \in 1..TopK : term[j] = x
    <3>1. ~(x[2] = t /\ Routed(t, x[1]))
      BY <2>2, <2>4 DEF Routed
    <3> HIDE DEF term, At
    <3>2. QED
      BY <2>4, <3>1 DEF RowBut
  <2>5. QED
    BY <2>3, <2>4
<1>4. sum = [x \in Terms |-> sum[x]] /\ RowBut(t, {}) = [x \in Terms |-> RowBut(t, {})[x]]
  BY DEF RowBut
<1> HIDE DEF sum
<1>5. QED
  BY <1>2, <1>3, <1>4
-----------------------------------------------------------------------------
(* moe_infer. The pairs below an expert in the sorting are those the counts of the
   experts before it add up to, so that the cut falls where the expert's pairs begin. *)
Settled == /\ RoutingType
           /\ \A t \in Tokens : /\ idx[t] \in [1..TopK -> Candidates]
                                /\ weight[t] \in [1..TopK -> Nat]
                                /\ \A i, j \in 1..TopK : idx[t][i] = idx[t][j] => i = j
PairsBelow(e) == {p \in Pairs : FlatId(p) < e}
PairAt(t, j) == t * TopK + j - 1

\* Pairs are the tokens' places, one after the other.
LEMMA PairPlace ==
  ASSUME Settled, NEW t \in Tokens, NEW j \in 1..TopK
  PROVE  /\ PairAt(t, j) \in Pairs /\ PairAt(t, j) \div TopK = t
         /\ FlatId(PairAt(t, j)) = idx[t][j]
<1>1. /\ t \in Nat /\ NumTokens \in Nat /\ TopK \in Nat /\ TopK >= 1 /\ j \in Nat
      /\ t <= NumTokens - 1 /\ 1 <= j /\ j <= TopK
  BY RoutingAssumption DEF Tokens
<1>2. t * TopK \in Nat /\ t * TopK <= (NumTokens - 1) * TopK
      /\ (NumTokens - 1) * TopK = NumTokens * TopK - TopK /\ NumTokens * TopK \in Nat
  BY <1>1
<1>3. PairAt(t, j) \in Pairs
  BY <1>1, <1>2 DEF PairAt, Pairs
<1>4. PairAt(t, j) \div TopK = t /\ (PairAt(t, j) % TopK) = j - 1
  BY <1>1, <1>2 DEF PairAt
<1>5. QED
  BY <1>1, <1>3, <1>4 DEF FlatId

\* Every pair is the place of a token and one of its choices.
LEMMA PlaceOfPair ==
  ASSUME Settled, NEW p \in Pairs
  PROVE  \E t \in Tokens : \E j \in 1..TopK : p = PairAt(t, j)
<1> DEFINE t == p \div TopK
           j == (p % TopK) + 1
<1>1. NumTokens \in Nat /\ TopK \in Nat /\ TopK >= 1 /\ p \in Nat /\ NumTokens * TopK \in Nat
      /\ p <= NumTokens * TopK - 1
  BY RoutingAssumption DEF Pairs
<1>2. t \in Nat /\ j \in 1..TopK /\ p = t * TopK + (j - 1) /\ t * TopK \in Nat
  BY <1>1
<1> HIDE DEF t, j
<1>3. t < NumTokens
  <2>1. SUFFICES ASSUME t >= NumTokens PROVE FALSE
    BY <1>1, <1>2
  <2>2. t * TopK >= NumTokens * TopK
    BY <1>1, <1>2, <2>1
  <2>3. QED
    BY <1>1, <1>2, <2>2
<1>4. t \in Tokens
  BY <1>1, <1>2, <1>3 DEF Tokens
<1>5. p = PairAt(t, j)
  BY <1>1, <1>2 DEF PairAt
<1>6. QED
  BY <1>2, <1>4, <1>5

\* There are TopK pairs for each token.
LEMMA FinitePairs ==
  /\ IsFiniteSet(Pairs) /\ Cardinality(Pairs) = NumTokens * TopK /\ NumTokens * TopK \in Nat
  /\ \A T \in SUBSET Pairs : IsFiniteSet(T) /\ Cardinality(T) \in Nat
<1>1. NumTokens * TopK \in Nat /\ NumTokens * TopK - 1 \in Int /\ 0 \in Int
  BY RoutingAssumption
<1>2. IsFiniteSet(0..(NumTokens * TopK - 1))
      /\ Cardinality(0..(NumTokens * TopK - 1))
           = IF 0 > NumTokens * TopK - 1 THEN 0 ELSE NumTokens * TopK - 1 - 0 + 1
  BY <1>1, FS_Interval
<1>3. IsFiniteSet(Pairs) /\ Cardinality(Pairs) = NumTokens * TopK
  BY <1>1, <1>2 DEF Pairs
<1>4. QED
  BY <1>1, <1>3, FS_Subset, FS_CardinalityType

\* As many pairs are of an expert as there are tokens that chose it.
LEMMA PairsOfExpert ==
  ASSUME Settled, NEW e \in Candidates
  PROVE  Cardinality({p \in Pairs : FlatId(p) = e}) = Cardinality({t \in Tokens : Routed(t, e)})
<1> DEFINE S == {t \in Tokens : Routed(t, e)}
           T == {p \in Pairs : FlatId(p) = e}
           f == [t \in S |-> PairAt(t, Place(t, e))]
<1>1. ASSUME NEW t \in S
      PROVE  /\ Place(t, e) \in 1..TopK /\ idx[t][Place(t, e)] = e
             /\ f[t] \in T /\ f[t] \div TopK = t
  <2>1. t \in Tokens /\ Routed(t, e) /\ idx[t] \in [1..TopK -> Candidates]
    BY DEF Settled
  <2>2. Place(t, e) \in 1..TopK /\ idx[t][Place(t, e)] = e
    BY <2>1, PlaceOf
  <2>3. f[t] = PairAt(t, Place(t, e))
    OBVIOUS
  <2>4. f[t] \in Pairs /\ FlatId(f[t]) = e /\ f[t] \div TopK = t
    BY <2>1, <2>2, <2>3, PairPlace
  <2>5. QED
    BY <2>2, <2>4
<1>2. ASSUME NEW p \in T PROVE \E t \in S : f[t] = p
  <2>1. PICK t \in Tokens : \E j \in 1..TopK : p = PairAt(t, j)
    BY PlaceOfPair
  <2>2. PICK j \in 1..TopK : p = PairAt(t, j)
    BY <2>1
  <2>3. idx[t][j] = e /\ idx[t] \in [1..TopK -> Candidates]
        /\ \A i, k \in 1..TopK : idx[t][i] = idx[t][k] => i = k
    BY <1>2, <2>2, PairPlace DEF Settled
  <2>4. t \in S
    BY <2>3 DEF Routed
  <2>5. Place(t, e) = j
    BY <1>1, <2>3, <2>4
  <2>6. QED
    BY <2>2, <2>4, <2>5
<1>3. f \in [S -> T]
  BY <1>1
<1>4. \A t, u \in S : f[t] = f[u] => t = u
  <2> HIDE DEF f, S
  <2>1. QED
    BY <1>1
<1>5. f \in Bijection(S, T)
  <2> HIDE DEF f, S, T
  <2>1. QED
    BY <1>2, <1>3, <1>4 DEF Bijection, Injection, IsInjective, Surjection
<1>6. ExistsBijection(S, T)
  BY <1>5 DEF ExistsBijection
<1>7. IsFiniteSet(S)
  BY FiniteCandidates, FS_Subset
<1>8. QED
  BY <1>6, <1>7, FS_Bijection

\* A pair is of an expert.
LEMMA FlatIdType ==
  ASSUME Settled, NEW p \in Pairs
  PROVE  FlatId(p) \in Candidates
<1>1. PICK t \in Tokens : \E j \in 1..TopK : p = PairAt(t, j)
  BY PlaceOfPair
<1>2. PICK j \in 1..TopK : p = PairAt(t, j)
  BY <1>1
<1>3. FlatId(p) = idx[t][j]
  BY <1>2, PairPlace
<1>4. idx[t] \in [1..TopK -> Candidates]
  BY <1>1 DEF Settled
<1>5. QED
  BY <1>2, <1>3, <1>4

\* The sums of the counts are the numbers of pairs of the experts before.
LEMMA CutOffCounts ==
  ASSUME Settled, NEW e \in 0..NumRouted
  PROVE  CutOff[e] = Cardinality(PairsBelow(e))
<1> DEFINE body(g, d) == IF d = 0 THEN 0
                         ELSE g[d - 1] + Cardinality({t \in Tokens : Routed(t, d - 1)})
           Cuts(g) == g = [d \in 0..NumRouted |-> body(g, d)]
           count == [d \in 0..NumRouted |-> Cardinality(PairsBelow(d))]
<1>1. NumRouted \in Nat
  BY RoutingAssumption
<1>2. ASSUME NEW d \in 0..NumRouted
      PROVE  Cardinality(PairsBelow(d)) =
               IF d = 0 THEN 0
               ELSE Cardinality(PairsBelow(d - 1)) + Cardinality({t \in Tokens : Routed(t, d - 1)})
  <2>1. CASE d = 0
    <3>1. PairsBelow(d) = {}
      <4>1. \A p \in Pairs : FlatId(p) \in Nat
        BY FlatIdType DEF Candidates
      <4>2. QED
        BY <2>1, <4>1 DEF PairsBelow
    <3>2. QED
      BY <2>1, <3>1, FS_EmptySet
  <2>2. CASE d # 0
    <3> DEFINE A == PairsBelow(d - 1)
               B == {p \in Pairs : FlatId(p) = d - 1}
    <3>1. d - 1 \in Candidates /\ d \in Nat
      BY <1>1, <2>2 DEF Candidates
    <3>2. \A p \in Pairs : FlatId(p) \in Nat
      BY FlatIdType DEF Candidates
    <3>3. PairsBelow(d) = A \cup B /\ A \cap B = {}
      BY <3>1, <3>2 DEF PairsBelow, Candidates
    <3>4. A \in SUBSET Pairs /\ B \in SUBSET Pairs
      BY DEF PairsBelow
    <3>5. Cardinality(B) = Cardinality({t \in Tokens : Routed(t, d - 1)})
      BY <3>1, PairsOfExpert
    <3> HIDE DEF A, B
    <3>6. /\ IsFiniteSet(A) /\ IsFiniteSet(B) /\ Cardinality(A) \in Nat /\ Cardinality(B) \in Nat
          /\ Cardinality({}) = 0
      BY <3>4, FinitePairs, FS_EmptySet
    <3>7. Cardinality(A \cup B) = Cardinality(A) + Cardinality(B)
      BY <3>3, <3>6, FS_Union
    <3>8. QED
      BY <2>2, <3>3, <3>5, <3>7 DEF A
  <2>3. QED
    BY <2>1, <2>2
<1>3. Cuts(count)
  <2>1. ASSUME NEW d \in 0..NumRouted PROVE body(count, d) = Cardinality(PairsBelow(d))
    <3>1. CASE d = 0
      BY <1>2, <3>1
    <3>2. CASE d # 0
      <4>1. d - 1 \in 0..NumRouted
        BY <1>1, <3>2
      <4>2. count[d - 1] = Cardinality(PairsBelow(d - 1))
        BY <4>1
      <4>3. QED
        BY <1>2, <3>2, <4>2
    <3>3. QED
      BY <3>1, <3>2
  <2> HIDE DEF body
  <2>2. count = [d \in 0..NumRouted |-> body(count, d)]
    BY <2>1
  <2>3. QED
    BY <2>2
<1>4. CutOff = CHOOSE g : Cuts(g)
  BY DEF CutOff
<1>5. Cuts(CutOff)
  <2> HIDE DEF count, Cuts
  <2>1. QED
    BY <1>3, <1>4
<1>6. ASSUME NEW d \in 0..NumRouted PROVE CutOff[d] = body(CutOff, d)
  <2> HIDE DEF body
  <2>1. QED
    BY <1>5
<1> HIDE DEF Cuts, count
<1>7. \A d \in 0..NumRouted : CutOff[d] = Cardinality(PairsBelow(d))
  <2> DEFINE Bad == {d \in 0..NumRouted : CutOff[d] # Cardinality(PairsBelow(d))}
  <2>1. SUFFICES ASSUME Bad # {} PROVE FALSE
    OBVIOUS
  <2>2. Bad \subseteq Nat
    OBVIOUS
  <2> HIDE DEF Bad
  <2>3. PICK d \in Bad : \A y \in Bad : d <= y
    BY <2>1, <2>2, LowestExists
  <2>4. d \in 0..NumRouted /\ CutOff[d] # Cardinality(PairsBelow(d)) /\ d \in Nat
    BY <2>3 DEF Bad
  <2>5. CASE d = 0
    BY <1>2, <1>6, <2>4, <2>5
  <2>6. CASE d # 0
    <3>1. d - 1 \in 0..NumRouted /\ ~(d <= d - 1)
      BY <1>1, <2>4, <2>6
    <3>2. CutOff[d - 1] = Cardinality(PairsBelow(d - 1))
      BY <2>3, <3>1 DEF Bad
    <3>3. QED
      BY <1>2, <1>6, <2>4, <2>6, <3>2
  <2>7. QED
    BY <2>5, <2>6
<1>8. QED
  BY <1>7

\* What is closed downwards among the first numbers are the first of them.
LEMMA FirstOnes ==
  ASSUME NEW m \in Nat, NEW D \in SUBSET (1..m),
         \A i \in D, k \in 1..m : k < i => k \in D
  PROVE  D = 1..Cardinality(D)
<1> DEFINE Out == {i \in 1..(m + 1) : i \notin D}
<1>1. m + 1 \in Out /\ Out \subseteq Nat
  OBVIOUS
<1> HIDE DEF Out
<1>2. PICK n \in Out : \A y \in Out : n <= y
  BY <1>1, LowestExists
<1>3. n \in 1..(m + 1) /\ n \notin D
  BY <1>2 DEF Out
<1>4. D = 1..(n - 1)
  <2>1. ASSUME NEW i \in D PROVE i \in 1..(n - 1)
    <3>1. i \in 1..m
      OBVIOUS
    <3>2. ~(n < i) /\ i # n
      BY <1>3, <3>1
    <3>3. QED
      BY <1>3, <3>1, <3>2
  <2>2. ASSUME NEW i \in 1..(n - 1) PROVE i \in D
    <3>1. i \in 1..(m + 1) /\ ~(n <= i)
      BY <1>3
    <3>2. QED
      BY <1>2, <3>1 DEF Out
  <2>3. QED
    BY <2>1, <2>2
<1>5. n - 1 \in Nat /\ 1 \in Int /\ n - 1 \in Int
  BY <1>3
<1>6. Cardinality(1..(n - 1)) = IF 1 > n - 1 THEN 0 ELSE n - 1 - 1 + 1
  BY <1>5, FS_Interval
<1>7. Cardinality(D) = n - 1
  BY <1>4, <1>5, <1>6
<1>8. QED
  BY <1>4, <1>7

\* In any of the sortings, a pair is cut off with its expert's.
LEMMA CutWithExpert ==
  ASSUME Settled, NEW q \in Sortings, NEW i \in 1..(NumTokens * TopK)
  PROVE  ExpertAt(i) = FlatId(q[i])
<1> DEFINE M == NumTokens * TopK
           D(e) == {k \in 1..M : FlatId(q[k]) < e}
           e0 == FlatId(q[i])
<1>1. /\ q \in [1..M -> Pairs] /\ Range(q) = Pairs
      /\ \A k, l \in 1..M : k < l => FlatId(q[k]) <= FlatId(q[l])
  BY DEF Sortings
<1>2. M \in Nat /\ IsFiniteSet(1..M) /\ Cardinality(1..M) = Cardinality(Pairs)
  <2>1. M \in Nat /\ Cardinality(Pairs) = M /\ M \in Int /\ 1 \in Int
    BY FinitePairs
  <2>2. IsFiniteSet(1..M) /\ Cardinality(1..M) = IF 1 > M THEN 0 ELSE M - 1 + 1
    BY <2>1, FS_Interval
  <2>3. QED
    BY <2>1, <2>2
<1> HIDE DEF M
<1>3. q \in Surjection(1..M, Pairs)
  <2>1. \A p \in Pairs : \E k \in 1..M : q[k] = p
    BY <1>1 DEF Range
  <2>2. QED
    BY <1>1, <2>1 DEF Surjection
<1>4. \A k, l \in 1..M : q[k] = q[l] => k = l
  <2>1. q \in Injection(1..M, Pairs)
    BY <1>2, <1>3, FS_SurjSameCardinalityImpliesInj
  <2>2. QED
    BY <2>1 DEF Injection, IsInjective
<1>5. \A k \in 1..M : FlatId(q[k]) \in Candidates /\ FlatId(q[k]) \in Nat
  BY <1>1, FlatIdType DEF Candidates
<1>6. ASSUME NEW e \in 0..NumRouted
      PROVE  D(e) = 1..CutOff[e]
  <2>1. ASSUME NEW k \in D(e), NEW l \in 1..M, l < k PROVE l \in D(e)
    <3>1. FlatId(q[l]) <= FlatId(q[k]) /\ FlatId(q[k]) < e
      BY <1>1, <2>1
    <3>2. FlatId(q[l]) \in Nat /\ FlatId(q[k]) \in Nat /\ e \in Nat
      BY <1>5, <2>1
    <3>3. FlatId(q[l]) < e
      BY <3>1, <3>2
    <3>4. QED
      BY <3>3
  <2>2. Cardinality(D(e)) = Cardinality(PairsBelow(e))
    <3> DEFINE f == [k \in D(e) |-> q[k]]
    <3>1. f \in [D(e) -> PairsBelow(e)]
      BY <1>1 DEF PairsBelow
    <3>2. \A k, l \in D(e) : f[k] = f[l] => k = l
      BY <1>4
    <3>3. ASSUME NEW p \in PairsBelow(e) PROVE \E k \in D(e) : f[k] = p
      <4>1. p \in Pairs /\ FlatId(p) < e
        BY DEF PairsBelow
      <4>2. PICK k \in 1..M : q[k] = p
        BY <1>3, <4>1 DEF Surjection
      <4>3. k \in D(e)
        BY <4>1, <4>2
      <4>4. QED
        BY <4>2, <4>3
    <3>4. IsFiniteSet(D(e))
      BY <1>2, FS_Subset
    <3> HIDE DEF f, D
    <3>5. f \in Bijection(D(e), PairsBelow(e))
      BY <3>1, <3>2, <3>3 DEF Bijection, Injection, IsInjective, Surjection
    <3>6. ExistsBijection(D(e), PairsBelow(e))
      BY <3>5 DEF ExistsBijection
    <3>7. QED
      BY <3>4, <3>6, FS_Bijection
  <2>3. D(e) \in SUBSET (1..M)
    OBVIOUS
  <2> HIDE DEF D
  <2>4. D(e) = 1..Cardinality(D(e))
    BY <1>2, <2>1, <2>3, FirstOnes
  <2>5. QED
    BY <2>2, <2>4, CutOffCounts
<1>7. /\ e0 \in Candidates /\ i \in 1..M
      /\ \A e \in Candidates : e \in 0..NumRouted /\ e + 1 \in 0..NumRouted /\ e \in Nat
  BY <1>5, RoutingAssumption DEF Candidates, M
<1>8. ASSUME NEW e \in 0..NumRouted
      PROVE  /\ CutOff[e] \in Nat
             /\ FlatId(q[i]) < e <=> i <= CutOff[e]
  <2>1. CutOff[e] \in Nat
    <3>1. PairsBelow(e) \in SUBSET Pairs
      BY DEF PairsBelow
    <3>2. QED
      BY <3>1, CutOffCounts, FinitePairs
  <2>2. i \in D(e) <=> i \in 1..CutOff[e]
    BY <1>6
  <2>3. QED
    BY <1>7, <2>1, <2>2
<1>9. CutOff[e0] < i /\ i <= CutOff[e0 + 1]
  <2>1. e0 < e0 + 1 /\ ~(e0 < e0) /\ i \in Nat
    BY <1>7
  <2>2. QED
    BY <1>7, <1>8, <2>1
<1>10. ASSUME NEW e \in Candidates, CutOff[e] < i, i <= CutOff[e + 1] PROVE e = e0
  <2>1. ~(e0 < e) /\ e0 < e + 1
    <3>1. CutOff[e] \in Nat /\ CutOff[e + 1] \in Nat /\ i \in Nat
      BY <1>7, <1>8
    <3>2. QED
      BY <1>7, <1>8, <1>10, <3>1
  <2>2. QED
    BY <1>7, <2>1
<1> HIDE DEF e0
<1>11. ExpertAt(i) = e0
  BY <1>7, <1>9, <1>10 DEF ExpertAt
<1>12. QED
  BY <1>11 DEF e0

\* So what moe_infer puts back are the tokens' own choices.
LEMMA InferredIsChosen ==
  ASSUME Settled, NEW q \in Sortings, NEW t \in Tokens
  PROVE  InferredRow(q, t) = SumOf(weight[t], [j \in 1..TopK |-> <<idx[t][j], t>>])
<1> DEFINE Pos(j) == CHOOSE i \in DOMAIN q : q[i] = t * TopK + j - 1
           term == [j \in 1..TopK |-> <<ExpertAt(Pos(j)), q[Pos(j)] \div TopK>>]
<1>1. q \in [1..(NumTokens * TopK) -> Pairs] /\ Range(q) = Pairs
  BY DEF Sortings
<1>2. ASSUME NEW j \in 1..TopK
      PROVE  ExpertAt(Pos(j)) = idx[t][j] /\ q[Pos(j)] \div TopK = t
  <2>1. PairAt(t, j) \in Pairs
    BY PairPlace
  <2>2. \E i \in DOMAIN q : q[i] = t * TopK + j - 1
    BY <1>1, <2>1 DEF Range, PairAt
  <2>3. Pos(j) \in DOMAIN q /\ q[Pos(j)] = t * TopK + j - 1
    BY <2>2
  <2> HIDE DEF Pos
  <2>4. Pos(j) \in 1..(NumTokens * TopK) /\ q[Pos(j)] = PairAt(t, j)
    BY <1>1, <2>3 DEF PairAt
  <2>5. ExpertAt(Pos(j)) = FlatId(q[Pos(j)])
    BY <2>4, CutWithExpert
  <2>6. QED
    BY <2>4, <2>5, PairPlace
<1>3. InferredRow(q, t) = SumOf(weight[t], term)
  BY DEF InferredRow
<1>4. term = [j \in 1..TopK |-> <<idx[t][j], t>>]
  <2> HIDE DEF Pos
  <2>1. QED
    BY <1>2
<1> HIDE DEF term
<1>5. QED
  BY <1>3, <1>4
-----------------------------------------------------------------------------
\* MoEGate.forward: whatever the scores and ties, an expert that a group-limited gate gives
\* weight is in one of the best groups, and no expert of that group left out is better.
THEOREM GateStaysInGroups == RoutingSpec => []LimitedToGroups
<1>1. RoutingInv => LimitedToGroups
  <2>1. SUFFICES ASSUME RoutingInv, kind = "group_limited_greedy",
                        NEW t \in 0..(gated - 1), NEW j \in DOMAIN idx[t], weight[t][j] > 0
                 PROVE  LET s == score[t]
                            Best(g) == Max({s[e] : e \in {x \in Candidates : GroupOf(x) = g}})
                            mine == GroupOf(idx[t][j])
                        IN /\ Cardinality({g \in Groups : Best(g) > Best(mine)}) < TopGroups
                           /\ \A e \in Candidates : GroupOf(e) = mine /\ s[e] > s[idx[t][j]]
                                                  => e \in Range(idx[t])
    BY DEF LimitedToGroups
  <2>2. RoutingType /\ t \in Tokens
    <3>1. RoutingType /\ gated \in 0..NumTokens /\ NumTokens \in Nat
      BY <2>1, RoutingAssumption DEF RoutingInv, RoutingType
    <3>2. QED
      BY <3>1 DEF Tokens
  <2>3. Chosen(t)
    BY <2>1 DEF RoutingInv
  <2> DEFINE s == score[t]
             mine == GroupOf(idx[t][j])
             Best(g) == Max({s[e] : e \in {x \in Candidates : GroupOf(x) = g}})
  <2>4. /\ mine \in Groups
        /\ Cardinality({g \in Groups : GroupScores(s)[g] > GroupScores(s)[mine]}) < TopGroups
        /\ \A e \in Candidates : GroupOf(e) = mine /\ s[e] > s[idx[t][j]]
                               => e \in Range(idx[t])
    BY <2>1, <2>2, <2>3, ChosenLimited
  <2>5. \A g \in Groups : GroupScores(s)[g] = Best(g)
    BY DEF GroupScores
  <2> HIDE DEF Best, mine, s
  <2>6. {g \in Groups : GroupScores(s)[g] > GroupScores(s)[mine]}
          = {g \in Groups : Best(g) > Best(mine)}
    BY <2>4, <2>5
  <2>7. /\ Cardinality({g \in Groups : Best(g) > Best(mine)}) < TopGroups
        /\ \A e \in Candidates : GroupOf(e) = mine /\ s[e] > s[idx[t][j]]
                               => e \in Range(idx[t])
    BY <2>4, <2>6
  <2>8. QED
    BY <2>7 DEF Best, mine, s
<1>2. QED
  BY <1>1, RoutingStart, RoutingInductive, PTL DEF RoutingSpec

\* The vLLM layer's own top-k can make the same choices as a plain gate that does not
\* scale, and is then the sum of them with the same weights.
LEMMA PlainIsVllm ==
  ASSUME RoutingType, NEW t \in Tokens, Chosen(t), kind = "greedy", factor = 1
  PROVE  SumOf(weight[t], [j \in 1..TopK |-> <<idx[t][j], t>>]) \in VllmRows(t)
<1> DEFINE s == score[t]
<1>1. s \in [Candidates -> Nat] /\ Eligible(s) = {s}
  BY RoutingAssumption DEF RoutingType, Eligible
<1>2. PICK S \in TopSets(s, TopK) : \E q \in Orderings(S) :
        idx[t] = q /\ weight[t] = [j \in DOMAIN q |-> factor * s[q[j]]]
  BY <1>1 DEF Chosen
<1>3. PICK q \in Orderings(S) : idx[t] = q /\ weight[t] = [j \in DOMAIN q |-> factor * s[q[j]]]
  BY <1>2
<1>4. S \in SUBSET Candidates /\ Cardinality(S) = TopK
  BY <1>1, <1>2 DEF TopSets
<1>5. q \in [1..TopK -> S]
  BY <1>3, <1>4, FiniteCandidates, OrderOf
<1>6. \A j \in 1..TopK : factor * s[q[j]] = s[q[j]]
  BY <1>1, <1>4, <1>5
<1>7. weight[t] = [j \in 1..TopK |-> s[q[j]]]
  BY <1>3, <1>5, <1>6
<1>8. q \in UNION {Orderings(T) : T \in TopSets(s, TopK)}
  BY <1>2, <1>3
<1>9. SumOf(weight[t], [j \in 1..TopK |-> <<idx[t][j], t>>])
        = SumOf([j \in 1..TopK |-> s[q[j]]], [j \in 1..TopK |-> <<q[j], t>>])
  BY <1>3, <1>7
<1>10. QED
  BY <1>8, <1>9 DEF VllmRows

\* Whatever order the results come in, the block returns what moe_infer of the block it
\* replaces returns for any sorting of the pairs and, where the gate is plain and does not
\* scale, what the vLLM port's layer may return from its own top-k; with the Switch router,
\* what that block's one expert answers, scaled.
THEOREM BlockAsReplaced == RoutingSpec => []SameAsReplaced
<1>1. RoutingInv => SameAsReplaced
  <2>1. SUFFICES ASSUME RoutingInv, routing = "done", NEW t \in Tokens
                 PROVE  IF kind = "switch" THEN out[t] = SwitchRow(t)
                        ELSE /\ \A q \in Sortings : out[t] = InferredRow(q, t)
                             /\ kind = "greedy" /\ factor = 1 => out[t] \in VllmRows(t)
    BY DEF SameAsReplaced
  <2>2. RoutingType /\ gated = NumTokens
    BY <2>1 DEF RoutingInv, RoutingType
  <2>3. CASE kind = "switch"
    BY <2>1, <2>3 DEF RoutingInv
  <2>4. CASE kind # "switch"
    <3>1. Settled
      BY <2>1, <2>2, <2>4, AllGated, ChosenShape DEF Settled
    <3> DEFINE sum == SumOf(weight[t], [j \in 1..TopK |-> <<idx[t][j], t>>])
    <3>2. sum = RowBut(t, {})
      BY <3>1, SumOfChoices DEF Settled
    <3>3. \A q \in Sortings : InferredRow(q, t) = sum
      BY <3>1, InferredIsChosen
    <3>4. out[t] = RowBut(t, {})
      BY <2>1, <2>4 DEF RoutingInv
    <3>5. kind = "greedy" /\ factor = 1 => sum \in VllmRows(t)
      BY <2>1, <2>2, <2>4, AllGated, PlainIsVllm
    <3> HIDE DEF sum
    <3>6. QED
      BY <2>4, <3>2, <3>3, <3>4, <3>5
  <2>5. QED
    BY <2>3, <2>4
<1>2. QED
  BY <1>1, RoutingStart, RoutingInductive, PTL DEF RoutingSpec
=============================================================================
