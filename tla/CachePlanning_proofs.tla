------------------------ MODULE CachePlanning_proofs ------------------------
(* Theorems about the planning of the cache's memory, for every trace, memory, list of
   weights and number of steps: the target is a distribution, the simulation averages
   over one distribution whatever the ratio, and the plan is kept.

   Half of it is about sums: those over a set, taken in the order the fold of the
   community modules takes them, and those over all choices of some experts, which the
   tables of the code add up expert by expert. *)
EXTENDS CachePlanning, FiniteSetTheorems, SequenceTheorems, WellFoundedInduction, TLAPS

------------------------------------------------------------------------------
(* Sums and products over finite sets. *)

\* A set of numbers that is not empty has a lowest.
LEMMA LowestExists ==
  ASSUME NEW T, T \subseteq Nat, T # {}
  PROVE  \E x \in T : \A y \in T : x <= y
<1>1. \E x \in T : \A y \in T : ~(<<y, x>> \in OpToRel(<, Nat))
  BY NatLessThanWellFounded, WFMin
<1>2. PICK x \in T : \A y \in T : ~(<<y, x>> \in OpToRel(<, Nat))
  BY <1>1
<1>3. ASSUME NEW y \in T PROVE x <= y
  <2>1. ~(<<y, x>> \in OpToRel(<, Nat))
    BY <1>2
  <2>2. x \in Nat /\ y \in Nat
    OBVIOUS
  <2>3. ~(y < x)
    BY <2>1, <2>2 DEF OpToRel
  <2>4. QED
    BY <2>2, <2>3
<1>4. QED
  BY <1>3

\* Induction over the numbers, for what a set G says of them.
LEMMA Numbers ==
  ASSUME NEW G, 0 \in G, \A n \in Nat : n \in G => n + 1 \in G
  PROVE  \A n \in Nat : n \in G
<1> DEFINE Bad == {n \in Nat : n \notin G}
<1>1. Bad \subseteq Nat
  OBVIOUS
<1>2. SUFFICES ASSUME Bad # {} PROVE FALSE
  OBVIOUS
<1> HIDE DEF Bad
<1>3. PICK n \in Bad : \A m \in Bad : n <= m
  BY <1>1, <1>2, LowestExists
<1> USE DEF Bad
<1>4. n \in Nat /\ n # 0
  BY <1>3
<1>5. n - 1 \in Nat /\ n - 1 \notin Bad
  <2>1. n - 1 \in Nat
    BY <1>4
  <2> HIDE DEF Bad
  <2>2. n - 1 \in Bad => n <= n - 1
    BY <1>3
  <2>3. QED
    BY <1>4, <2>1, <2>2
<1>6. n \in G
  <2>1. n - 1 \in G
    BY <1>5
  <2>2. (n - 1) + 1 \in G
    BY <1>5, <2>1
  <2>3. QED
    BY <1>4, <2>2
<1>7. QED
  BY <1>3, <1>6

\* Induction over the subsets of a finite set.
LEMMA SetsGrow ==
  ASSUME NEW S, IsFiniteSet(S), NEW G, {} \in G,
         \A T \in SUBSET S : \A x \in S \ T : T \in G => T \cup {x} \in G
  PROVE  \A T \in SUBSET S : T \in G
<1> DEFINE H == {n \in Nat : \A T \in SUBSET S : Cardinality(T) = n => T \in G}
<1>1. \A T \in SUBSET S : IsFiniteSet(T) /\ Cardinality(T) \in Nat
  BY FS_Subset, FS_CardinalityType
<1>2. 0 \in H
  <2>1. ASSUME NEW T \in SUBSET S, Cardinality(T) = 0 PROVE T = {}
    BY <1>1, <2>1, FS_EmptySet
  <2>2. QED
    BY <2>1
<1>3. ASSUME NEW n \in Nat, n \in H PROVE n + 1 \in H
  <2>1. ASSUME NEW T \in SUBSET S, Cardinality(T) = n + 1 PROVE T \in G
    <3>1. IsFiniteSet(T)
      BY <1>1
    <3>2. T # {}
      <4>1. Cardinality({}) = 0 /\ n + 1 # 0
        BY FS_EmptySet
      <4>2. QED
        BY <2>1, <4>1
    <3>3. PICK x \in T : TRUE
      BY <3>2
    <3>4. Cardinality(T \ {x}) = n
      <4>1. Cardinality(T \ {x}) = Cardinality(T) - 1
        BY <3>1, <3>3, FS_RemoveElement
      <4>2. QED
        BY <2>1, <4>1
    <3>5. T \ {x} \in SUBSET S /\ x \in S \ (T \ {x}) /\ (T \ {x}) \cup {x} = T
      OBVIOUS
    <3>6. T \ {x} \in G
      BY <1>3, <3>4, <3>5
    <3> HIDE DEF H
    <3>7. (T \ {x}) \cup {x} \in G
      BY <3>5, <3>6
    <3>8. QED
      BY <3>5, <3>7
  <2>2. QED
    BY <2>1
<1> HIDE DEF H
<1>4. \A n \in Nat : n \in H
  BY <1>2, <1>3, Numbers
<1>5. QED
  BY <1>1, <1>4 DEF H

\* One step of a fold over a set, as the community modules' MapThenFoldSet takes it.
FoldStep(f, o, base, g, s) ==
  IF s = {} THEN base ELSE o[<<f[CHOOSE y \in s : TRUE], g[s \ {CHOOSE y \in s : TRUE}]>>]
IsFold(g, S, f, o, base) ==
  /\ g \in [SUBSET S -> Nat]
  /\ \A s \in SUBSET S : g[s] = FoldStep(f, o, base, g, s)
  /\ \A s \in SUBSET S : \A x \in s : g[s] = o[<<f[x], g[s \ {x}]>>]
Adding == [p \in Nat \X Nat |-> p[1] + p[2]]
Multiplying == [p \in Nat \X Nat |-> p[1] * p[2]]
Commutes(o) ==
  /\ \A a, b \in Nat : o[<<a, b>>] \in Nat
  /\ \A a, b, c \in Nat : o[<<a, o[<<b, c>>]>>] = o[<<b, o[<<a, c>>]>>]

\* A fold exists, and takes the elements in any order.
LEMMA FoldExists ==
  ASSUME NEW S, IsFiniteSet(S), NEW f, \A x \in S : f[x] \in Nat,
         NEW o, Commutes(o), NEW base \in Nat
  PROVE  \E g : IsFold(g, S, f, o, base)
<1> DEFINE Good(g, n) == \A s \in SUBSET S : Cardinality(s) <= n =>
                           g[s] = FoldStep(f, o, base, g, s)
           H == {n \in Nat : \E g \in [SUBSET S -> Nat] : Good(g, n)}
<1>1. \A s \in SUBSET S : IsFiniteSet(s) /\ Cardinality(s) \in Nat
  BY FS_Subset, FS_CardinalityType
<1>2. \A s \in SUBSET S : s # {} => (CHOOSE y \in s : TRUE) \in s
  OBVIOUS
<1>3. \A s \in SUBSET S : \A x \in s : /\ s \ {x} \in SUBSET S /\ f[x] \in Nat
                                      /\ Cardinality(s \ {x}) = Cardinality(s) - 1
  BY <1>1, FS_RemoveElement
<1>4. 0 \in H
  <2> DEFINE g == [s \in SUBSET S |-> base]
  <2>1. g \in [SUBSET S -> Nat]
    OBVIOUS
  <2>2. \A s \in SUBSET S : Cardinality(s) <= 0 => s = {}
    BY <1>1, FS_EmptySet
  <2>3. Good(g, 0)
    BY <2>2 DEF IsFold, FoldStep
  <2>4. QED
    BY <2>1, <2>3
<1>5. ASSUME NEW n \in Nat, n \in H PROVE n + 1 \in H
  <2>1. PICK g \in [SUBSET S -> Nat] : Good(g, n)
    BY <1>5
  <2> DEFINE h == [s \in SUBSET S |-> IF Cardinality(s) = n + 1
                                      THEN FoldStep(f, o, base, g, s) ELSE g[s]]
  <2>2. \A s \in SUBSET S : FoldStep(f, o, base, g, s) \in Nat
    BY <1>2, <1>3 DEF FoldStep, Commutes
  <2>3. h \in [SUBSET S -> Nat]
    BY <2>2
  <2>4. ASSUME NEW s \in SUBSET S, Cardinality(s) <= n + 1
        PROVE  h[s] = FoldStep(f, o, base, h, s)
    <3>1. h[s] = FoldStep(f, o, base, g, s)
      BY <1>1, <2>1, <2>4
    <3>2. CASE s = {}
      BY <3>1, <3>2 DEF FoldStep
    <3>3. CASE s # {}
      <4> DEFINE x == CHOOSE y \in s : TRUE
      <4>1. x \in s /\ s \ {x} \in SUBSET S /\ Cardinality(s \ {x}) = Cardinality(s) - 1
        BY <1>2, <1>3, <3>3
      <4>2. h[s \ {x}] = g[s \ {x}]
        <5> HIDE DEF x
        <5>1. Cardinality(s \ {x}) # n + 1
          BY <1>1, <2>4, <4>1
        <5>2. QED
          BY <4>1, <5>1
      <4> HIDE DEF h
      <4>3. QED
        BY <3>1, <3>3, <4>2 DEF FoldStep
    <3>4. QED
      BY <3>2, <3>3
  <2>5. Good(h, n + 1)
    BY <2>4
  <2> HIDE DEF h, Good
  <2>6. \E k \in [SUBSET S -> Nat] : Good(k, n + 1)
    BY <2>3, <2>5
  <2>7. QED
    BY <2>6
<1> HIDE DEF H
<1>6. \A n \in Nat : n \in H
  BY <1>4, <1>5, Numbers
<1>7. PICK g \in [SUBSET S -> Nat] : Good(g, Cardinality(S))
  BY <1>1, <1>6 DEF H
<1>8. \A s \in SUBSET S : g[s] = FoldStep(f, o, base, g, s)
  BY <1>1, <1>7, FS_Subset
<1> DEFINE G == {s \in SUBSET S : \A x \in s : g[s] = o[<<f[x], g[s \ {x}]>>]}
<1>9. \A s \in SUBSET S : s \in G
  <2> DEFINE K == {n \in Nat : \A s \in SUBSET S : Cardinality(s) = n => s \in G}
  <2>1. 0 \in K
    <3>1. \A s \in SUBSET S : Cardinality(s) = 0 => s = {}
      BY <1>1, FS_EmptySet
    <3>2. QED
      BY <3>1
  <2>2. ASSUME NEW n \in Nat, n \in K PROVE n + 1 \in K
    <3>1. ASSUME NEW s \in SUBSET S, Cardinality(s) = n + 1, NEW y \in s
          PROVE  g[s] = o[<<f[y], g[s \ {y}]>>]
      <4> DEFINE x == CHOOSE z \in s : TRUE
      <4>1. x \in s
        OBVIOUS
      <4>2. g[s] = o[<<f[x], g[s \ {x}]>>]
        BY <1>8, <4>1 DEF FoldStep
      <4> HIDE DEF x
      <4>3. CASE y = x
        BY <4>2, <4>3
      <4>4. CASE y # x
        <5> DEFINE r == s \ {x, y}
        <5>1. s \ {x} \in SUBSET S /\ s \ {y} \in SUBSET S /\ r \in SUBSET S
          OBVIOUS
        <5>2. Cardinality(s \ {x}) = n /\ Cardinality(s \ {y}) = n
          BY <1>3, <3>1, <4>1
        <5>3. s \ {x} \in G /\ s \ {y} \in G
          BY <2>2, <5>1, <5>2
        <5>4. y \in s \ {x} /\ x \in s \ {y} /\ (s \ {x}) \ {y} = r /\ (s \ {y}) \ {x} = r
          BY <4>1, <4>4
        <5>5. /\ g[s \ {x}] = o[<<f[y], g[(s \ {x}) \ {y}]>>]
              /\ g[s \ {y}] = o[<<f[x], g[(s \ {y}) \ {x}]>>]
          BY <5>3, <5>4
        <5>6. f[x] \in Nat /\ f[y] \in Nat /\ g[r] \in Nat
          BY <4>1, <5>1
        <5>7. QED
          <6>1. o[<<f[x], o[<<f[y], g[r]>>]>>] = o[<<f[y], o[<<f[x], g[r]>>]>>]
            BY <5>6 DEF Commutes
          <6> HIDE DEF r
          <6>2. QED
            BY <4>2, <5>4, <5>5, <6>1
      <4>5. QED
        BY <4>3, <4>4
    <3> HIDE DEF G
    <3>2. ASSUME NEW s \in SUBSET S, Cardinality(s) = n + 1 PROVE s \in G
      <4>1. \A y \in s : g[s] = o[<<f[y], g[s \ {y}]>>]
        BY <3>1, <3>2
      <4>2. QED
        BY <4>1 DEF G
    <3>3. QED
      BY <3>2
  <2> HIDE DEF K, G
  <2>3. \A n \in Nat : n \in K
    BY <2>1, <2>2, Numbers
  <2>4. QED
    BY <1>1, <2>3 DEF K
<1>10. IsFold(g, S, f, o, base)
  BY <1>8, <1>9 DEF IsFold
<1>11. QED
  BY <1>10

\* A sum over a set is such a fold.
LEMMA SumIsFold ==
  ASSUME NEW S, IsFiniteSet(S), NEW f, \A x \in S : f[x] \in Nat,
         NEW g, IsFold(g, S, f, Adding, 0)
  PROVE  \A R \in SUBSET S : SumFunctionOnSet(f, R) = g[R]
<1> SUFFICES ASSUME NEW R \in SUBSET S PROVE SumFunctionOnSet(f, R) = g[R]
  OBVIOUS
<1> DEFINE o == Adding
           Body(h, s) == IF s = {} THEN 0
                         ELSE LET x == CHOOSE y \in s : TRUE IN f[x] + h[s \ {x}]
           sum == CHOOSE h : h = [s \in SUBSET R |-> Body(h, s)]
           z == [s \in SUBSET R |-> g[s]]
<1>1. SumFunctionOnSet(f, R) = sum[R]
  BY DEF SumFunctionOnSet, FoldFunctionOnSet, MapThenFoldSet
<1>2. ASSUME NEW s \in SUBSET R PROVE z[s] = Body(z, s)
  <2>1. CASE s = {}
    <3>1. g[s] = 0
      BY <2>1 DEF IsFold, FoldStep
    <3>2. QED
      BY <2>1, <3>1
  <2>2. CASE s # {}
    <3> DEFINE x == CHOOSE y \in s : TRUE
    <3>1. x \in s
      BY <2>2
    <3>2. g[s] = o[<<f[x], g[s \ {x}]>>]
      BY <2>2 DEF IsFold, FoldStep
    <3> HIDE DEF x
    <3>3. f[x] \in Nat /\ g[s \ {x}] \in Nat /\ z[s \ {x}] = g[s \ {x}]
      BY <3>1 DEF IsFold
    <3>4. g[s] = f[x] + g[s \ {x}]
      BY <3>2, <3>3 DEF Adding
    <3>5. z[s] = f[x] + z[s \ {x}]
      BY <3>3, <3>4
    <3>6. QED
      BY <2>2, <3>5 DEF x
  <2>3. QED
    BY <2>1, <2>2
<1> HIDE DEF Body
<1>3. z = [s \in SUBSET R |-> Body(z, s)]
  BY <1>2
<1>4. sum = [s \in SUBSET R |-> Body(sum, s)]
  <2> HIDE DEF z
  <2>1. QED
    BY <1>3
<1> HIDE DEF sum, z
<1> DEFINE H == {n \in Nat : \A s \in SUBSET R : Cardinality(s) = n => sum[s] = g[s]}
<1>5. \A s \in SUBSET R : sum[s] = Body(sum, s) /\ g[s] = Body(z, s)
  BY <1>2, <1>4 DEF z
<1>6. \A s \in SUBSET R : IsFiniteSet(s) /\ Cardinality(s) \in Nat
  BY FS_Subset, FS_CardinalityType
<1>7. 0 \in H
  <2>1. \A s \in SUBSET R : Cardinality(s) = 0 => s = {}
    BY <1>6, FS_EmptySet
  <2>2. sum[{}] = 0 /\ g[{}] = 0
    BY <1>5 DEF Body
  <2>3. QED
    BY <2>1, <2>2
<1>8. ASSUME NEW n \in Nat, n \in H PROVE n + 1 \in H
  <2>1. ASSUME NEW s \in SUBSET R, Cardinality(s) = n + 1 PROVE sum[s] = g[s]
    <3> DEFINE x == CHOOSE y \in s : TRUE
    <3>1. s # {}
      <4>1. Cardinality({}) = 0 /\ n + 1 # 0
        BY FS_EmptySet
      <4>2. QED
        BY <2>1, <4>1
    <3>2. x \in s
      BY <3>1
    <3>3. sum[s] = f[x] + sum[s \ {x}] /\ g[s] = f[x] + z[s \ {x}]
      BY <1>5, <3>1 DEF Body
    <3> HIDE DEF x
    <3>4. Cardinality(s \ {x}) = n /\ s \ {x} \in SUBSET R
      <4>1. Cardinality(s \ {x}) = Cardinality(s) - 1
        BY <1>6, <3>2, FS_RemoveElement
      <4>2. QED
        BY <2>1, <4>1
    <3>5. sum[s \ {x}] = g[s \ {x}] /\ z[s \ {x}] = g[s \ {x}]
      BY <1>8, <3>4 DEF z
    <3>6. QED
      BY <3>3, <3>5
  <2>2. QED
    BY <2>1
<1> HIDE DEF H
<1>9. \A n \in Nat : n \in H
  BY <1>7, <1>8, Numbers
<1>10. QED
  BY <1>1, <1>6, <1>9 DEF H

\* A sum over a finite set, and over one element less.
LEMMA SumParts ==
  ASSUME NEW S, IsFiniteSet(S), NEW f, \A x \in S : f[x] \in Nat
  PROVE  /\ SumFunctionOnSet(f, {}) = 0
         /\ SumFunctionOnSet(f, S) \in Nat
         /\ \A x \in S : SumFunctionOnSet(f, S) = f[x] + SumFunctionOnSet(f, S \ {x})
<1> DEFINE o == Adding
<1>1. Commutes(o)
  BY DEF Commutes, Adding
<1>2. 0 \in Nat
  OBVIOUS
<1>3. PICK g : IsFold(g, S, f, o, 0)
  <2> HIDE DEF o
  <2>1. QED
    BY <1>1, <1>2, FoldExists
<1>4. \A s \in SUBSET S : g[s] = FoldStep(f, o, 0, g, s) /\ g[s] \in Nat
  <2> HIDE DEF o
  <2>1. QED
    BY <1>3 DEF IsFold
<1>5. \A R \in SUBSET S : SumFunctionOnSet(f, R) = g[R]
  BY <1>3, SumIsFold
<1>6. g[{}] = 0
  BY <1>4 DEF FoldStep
<1>7. ASSUME NEW x \in S PROVE g[S] = f[x] + g[S \ {x}]
  BY <1>3, <1>4 DEF IsFold, Adding
<1>8. \A x \in S : S \ {x} \in SUBSET S
  OBVIOUS
<1> HIDE DEF o
<1>9. QED
  BY <1>4, <1>5, <1>6, <1>7, <1>8

\* A product over a set is such a fold.
LEMMA ProductIsFold ==
  ASSUME NEW S, IsFiniteSet(S), NEW f, \A x \in S : f[x] \in Nat,
         NEW g, IsFold(g, S, f, Multiplying, 1)
  PROVE  \A R \in SUBSET S : ProductOnSet(f, R) = g[R]
<1> SUFFICES ASSUME NEW R \in SUBSET S PROVE ProductOnSet(f, R) = g[R]
  OBVIOUS
<1> DEFINE o == Multiplying
           Body(h, s) == IF s = {} THEN 1
                         ELSE LET x == CHOOSE y \in s : TRUE IN f[x] * h[s \ {x}]
           product == CHOOSE h : h = [s \in SUBSET R |-> Body(h, s)]
           z == [s \in SUBSET R |-> g[s]]
<1>1. ProductOnSet(f, R) = product[R]
  BY DEF ProductOnSet, FoldFunctionOnSet, MapThenFoldSet
<1>2. ASSUME NEW s \in SUBSET R PROVE z[s] = Body(z, s)
  <2>1. CASE s = {}
    <3>1. g[s] = 1
      BY <2>1 DEF IsFold, FoldStep
    <3>2. QED
      BY <2>1, <3>1
  <2>2. CASE s # {}
    <3> DEFINE x == CHOOSE y \in s : TRUE
    <3>1. x \in s
      BY <2>2
    <3>2. g[s] = o[<<f[x], g[s \ {x}]>>]
      BY <2>2 DEF IsFold, FoldStep
    <3> HIDE DEF x
    <3>3. f[x] \in Nat /\ g[s \ {x}] \in Nat /\ z[s \ {x}] = g[s \ {x}]
      BY <3>1 DEF IsFold
    <3>4. g[s] = f[x] * g[s \ {x}]
      BY <3>2, <3>3 DEF Multiplying
    <3>5. z[s] = f[x] * z[s \ {x}]
      BY <3>3, <3>4
    <3>6. QED
      BY <2>2, <3>5 DEF x
  <2>3. QED
    BY <2>1, <2>2
<1> HIDE DEF Body
<1>3. z = [s \in SUBSET R |-> Body(z, s)]
  BY <1>2
<1>4. product = [s \in SUBSET R |-> Body(product, s)]
  <2> HIDE DEF z
  <2>1. QED
    BY <1>3
<1> HIDE DEF product, z
<1> DEFINE H == {n \in Nat : \A s \in SUBSET R : Cardinality(s) = n => product[s] = g[s]}
<1>5. \A s \in SUBSET R : product[s] = Body(product, s) /\ g[s] = Body(z, s)
  BY <1>2, <1>4 DEF z
<1>6. \A s \in SUBSET R : IsFiniteSet(s) /\ Cardinality(s) \in Nat
  BY FS_Subset, FS_CardinalityType
<1>7. 0 \in H
  <2>1. \A s \in SUBSET R : Cardinality(s) = 0 => s = {}
    BY <1>6, FS_EmptySet
  <2>2. product[{}] = 1 /\ g[{}] = 1
    BY <1>5 DEF Body
  <2>3. QED
    BY <2>1, <2>2
<1>8. ASSUME NEW n \in Nat, n \in H PROVE n + 1 \in H
  <2>1. ASSUME NEW s \in SUBSET R, Cardinality(s) = n + 1 PROVE product[s] = g[s]
    <3> DEFINE x == CHOOSE y \in s : TRUE
    <3>1. s # {}
      <4>1. Cardinality({}) = 0 /\ n + 1 # 0
        BY FS_EmptySet
      <4>2. QED
        BY <2>1, <4>1
    <3>2. x \in s
      BY <3>1
    <3>3. product[s] = f[x] * product[s \ {x}] /\ g[s] = f[x] * z[s \ {x}]
      BY <1>5, <3>1 DEF Body
    <3> HIDE DEF x
    <3>4. Cardinality(s \ {x}) = n /\ s \ {x} \in SUBSET R
      <4>1. Cardinality(s \ {x}) = Cardinality(s) - 1
        BY <1>6, <3>2, FS_RemoveElement
      <4>2. QED
        BY <2>1, <4>1
    <3>5. product[s \ {x}] = g[s \ {x}] /\ z[s \ {x}] = g[s \ {x}]
      BY <1>8, <3>4 DEF z
    <3>6. QED
      BY <3>3, <3>5
  <2>2. QED
    BY <2>1
<1> HIDE DEF H
<1>9. \A n \in Nat : n \in H
  BY <1>7, <1>8, Numbers
<1>10. QED
  BY <1>1, <1>6, <1>9 DEF H

\* A product over a finite set, and over one element less.
LEMMA ProductParts ==
  ASSUME NEW S, IsFiniteSet(S), NEW f, \A x \in S : f[x] \in Nat
  PROVE  /\ ProductOnSet(f, {}) = 1
         /\ ProductOnSet(f, S) \in Nat
         /\ \A x \in S : ProductOnSet(f, S) = f[x] * ProductOnSet(f, S \ {x})
<1> DEFINE o == Multiplying
<1>1. Commutes(o)
  <2>1. \A a, b \in Nat : a * b \in Nat /\ o[<<a, b>>] = a * b
    BY DEF Multiplying
  <2>2. \A a, b, c \in Nat : a * (b * c) = b * (a * c)
    OBVIOUS
  <2> HIDE DEF o
  <2>3. \A a, b, c \in Nat : /\ o[<<a, o[<<b, c>>]>>] = a * (b * c)
                              /\ o[<<b, o[<<a, c>>]>>] = b * (a * c)
    BY <2>1
  <2>4. QED
    BY <2>1, <2>2, <2>3 DEF Commutes
<1>2. 1 \in Nat
  OBVIOUS
<1>3. PICK g : IsFold(g, S, f, o, 1)
  <2> HIDE DEF o
  <2>1. QED
    BY <1>1, <1>2, FoldExists
<1>4. \A s \in SUBSET S : g[s] = FoldStep(f, o, 1, g, s) /\ g[s] \in Nat
  <2> HIDE DEF o
  <2>1. QED
    BY <1>3 DEF IsFold
<1>5. \A R \in SUBSET S : ProductOnSet(f, R) = g[R]
  BY <1>3, ProductIsFold
<1>6. g[{}] = 1
  BY <1>4 DEF FoldStep
<1>7. ASSUME NEW x \in S PROVE g[S] = f[x] * g[S \ {x}]
  BY <1>3, <1>4 DEF IsFold, Multiplying
<1>8. \A x \in S : S \ {x} \in SUBSET S
  OBVIOUS
<1> HIDE DEF o
<1>9. QED
  BY <1>4, <1>5, <1>6, <1>7, <1>8

\* A quotient rounded down.
LEMMA Quotient ==
  ASSUME NEW a \in Int, NEW b \in Nat \ {0}
  PROVE  /\ a \div b \in Int /\ b * (a \div b) <= a /\ a < b * (a \div b) + b
         /\ a >= 0 => a \div b >= 0
<1>1. a \div b \in Int
  OBVIOUS
<1>2. a = b * (a \div b) + (a % b) /\ 0 <= a % b /\ a % b < b
  OBVIOUS
<1>3. \A q \in Int : a >= 0 /\ a < b * q + b => q >= 0
  <2>1. ASSUME NEW q \in Int, q < 0 PROVE b * q + b <= 0
    <3>1. b * (q + 1) <= 0
      BY <2>1
    <3>2. QED
      BY <3>1
  <2>2. QED
    BY <2>1
<1>4. QED
  BY <1>1, <1>2, <1>3

\* A sum over one element more.
LEMMA SumGrows ==
  ASSUME NEW S, IsFiniteSet(S), NEW f, \A x \in S : f[x] \in Nat
  PROVE  \A T \in SUBSET S :
           /\ SumFunctionOnSet(f, T) \in Nat
           /\ \A x \in S \ T : SumFunctionOnSet(f, T \cup {x}) = f[x] + SumFunctionOnSet(f, T)
           /\ \A x \in T : SumFunctionOnSet(f, T) = f[x] + SumFunctionOnSet(f, T \ {x})
<1> TAKE T \in SUBSET S
<1>1. IsFiniteSet(T) /\ \A x \in T : f[x] \in Nat
  BY FS_Subset
<1>2. /\ SumFunctionOnSet(f, T) \in Nat
      /\ \A x \in T : SumFunctionOnSet(f, T) = f[x] + SumFunctionOnSet(f, T \ {x})
  BY <1>1, SumParts
<1>3. ASSUME NEW x \in S \ T
      PROVE  SumFunctionOnSet(f, T \cup {x}) = f[x] + SumFunctionOnSet(f, T)
  <2> DEFINE U == T \cup {x}
  <2>1. IsFiniteSet(U) /\ (\A y \in U : f[y] \in Nat) /\ x \in U /\ U \ {x} = T
    BY <1>1, FS_AddElement
  <2> HIDE DEF U
  <2>2. SumFunctionOnSet(f, U) = f[x] + SumFunctionOnSet(f, U \ {x})
    BY <2>1, SumParts
  <2>3. QED
    BY <2>1, <2>2 DEF U
<1>4. QED
  BY <1>2, <1>3

\* A sum depends on the values summed only, and no higher values sum to no more.
LEMMA SumMonotone ==
  ASSUME NEW S, IsFiniteSet(S), NEW f, NEW g,
         \A x \in S : f[x] \in Nat /\ g[x] \in Nat /\ f[x] <= g[x]
  PROVE  SumFunctionOnSet(f, S) <= SumFunctionOnSet(g, S)
<1> DEFINE G == {T \in SUBSET S : SumFunctionOnSet(f, T) <= SumFunctionOnSet(g, T)}
<1>1. \A T \in SUBSET S : SumFunctionOnSet(f, T) \in Nat /\ SumFunctionOnSet(g, T) \in Nat
  BY SumGrows
<1>2. {} \in G
  BY SumParts
<1>3. ASSUME NEW T \in SUBSET S, NEW x \in S \ T, T \in G PROVE T \cup {x} \in G
  <2>1. /\ SumFunctionOnSet(f, T \cup {x}) = f[x] + SumFunctionOnSet(f, T)
        /\ SumFunctionOnSet(g, T \cup {x}) = g[x] + SumFunctionOnSet(g, T)
    BY SumGrows
  <2>2. SumFunctionOnSet(f, T \cup {x}) <= SumFunctionOnSet(g, T \cup {x})
    BY <1>1, <1>3, <2>1
  <2>3. QED
    BY <2>2
<1> HIDE DEF G
<1>4. S \in G
  BY <1>2, <1>3, SetsGrow
<1>5. QED
  BY <1>4 DEF G

\* Functions with the same values have the same sum.
LEMMA SumSame ==
  ASSUME NEW S, IsFiniteSet(S), NEW f, NEW g, \A x \in S : f[x] \in Nat /\ g[x] = f[x]
  PROVE  SumFunctionOnSet(g, S) = SumFunctionOnSet(f, S)
<1>1. \A x \in S : f[x] \in Nat /\ g[x] \in Nat /\ f[x] <= g[x] /\ g[x] <= f[x]
  OBVIOUS
<1>2. SumFunctionOnSet(f, S) <= SumFunctionOnSet(g, S)
  BY <1>1, SumMonotone
<1>3. SumFunctionOnSet(g, S) <= SumFunctionOnSet(f, S)
  BY <1>1, SumMonotone
<1>4. SumFunctionOnSet(f, S) \in Nat /\ SumFunctionOnSet(g, S) \in Nat
  BY <1>1, SumParts
<1>5. QED
  BY <1>2, <1>3, <1>4

\* A sum of sums.
LEMMA SumAdds ==
  ASSUME NEW S, IsFiniteSet(S), NEW f, NEW g, NEW h,
         \A x \in S : f[x] \in Nat /\ g[x] \in Nat /\ h[x] = f[x] + g[x]
  PROVE  SumFunctionOnSet(h, S) = SumFunctionOnSet(f, S) + SumFunctionOnSet(g, S)
<1> DEFINE G == {T \in SUBSET S : SumFunctionOnSet(h, T)
                                    = SumFunctionOnSet(f, T) + SumFunctionOnSet(g, T)}
<1>1. \A x \in S : h[x] \in Nat
  OBVIOUS
<1>2. \A T \in SUBSET S : SumFunctionOnSet(f, T) \in Nat /\ SumFunctionOnSet(g, T) \in Nat
  BY SumGrows
<1>3. {} \in G
  BY <1>1, SumParts
<1>4. ASSUME NEW T \in SUBSET S, NEW x \in S \ T, T \in G PROVE T \cup {x} \in G
  <2>1. /\ SumFunctionOnSet(f, T \cup {x}) = f[x] + SumFunctionOnSet(f, T)
        /\ SumFunctionOnSet(g, T \cup {x}) = g[x] + SumFunctionOnSet(g, T)
        /\ SumFunctionOnSet(h, T \cup {x}) = h[x] + SumFunctionOnSet(h, T)
    BY <1>1, SumGrows
  <2>2. SumFunctionOnSet(h, T \cup {x})
          = SumFunctionOnSet(f, T \cup {x}) + SumFunctionOnSet(g, T \cup {x})
    BY <1>2, <1>4, <2>1
  <2>3. QED
    BY <2>2
<1> HIDE DEF G
<1>5. S \in G
  BY <1>3, <1>4, SetsGrow
<1>6. QED
  BY <1>5 DEF G

\* A multiple of a sum.
LEMMA SumScales ==
  ASSUME NEW S, IsFiniteSet(S), NEW f, NEW h, NEW c \in Nat,
         \A x \in S : f[x] \in Nat /\ h[x] = c * f[x]
  PROVE  SumFunctionOnSet(h, S) = c * SumFunctionOnSet(f, S)
<1> DEFINE G == {T \in SUBSET S : SumFunctionOnSet(h, T) = c * SumFunctionOnSet(f, T)}
<1>1. \A x \in S : h[x] \in Nat
  OBVIOUS
<1>2. \A T \in SUBSET S : SumFunctionOnSet(f, T) \in Nat
  BY SumGrows
<1>3. {} \in G
  BY <1>1, SumParts
<1>4. ASSUME NEW T \in SUBSET S, NEW x \in S \ T, T \in G PROVE T \cup {x} \in G
  <2>1. /\ SumFunctionOnSet(f, T \cup {x}) = f[x] + SumFunctionOnSet(f, T)
        /\ SumFunctionOnSet(h, T \cup {x}) = h[x] + SumFunctionOnSet(h, T)
    BY <1>1, SumGrows
  <2>2. \A a, b \in Nat : c * (a + b) = c * a + c * b
    OBVIOUS
  <2>3. c * (f[x] + SumFunctionOnSet(f, T)) = c * f[x] + c * SumFunctionOnSet(f, T)
    BY <1>2, <2>2
  <2>4. SumFunctionOnSet(h, T \cup {x}) = c * SumFunctionOnSet(f, T \cup {x})
    BY <1>4, <2>1, <2>3
  <2>5. QED
    BY <2>4
<1> HIDE DEF G
<1>5. S \in G
  BY <1>3, <1>4, SetsGrow
<1>6. QED
  BY <1>5 DEF G

\* The sum of a constant.
LEMMA SumOfConstant ==
  ASSUME NEW S, IsFiniteSet(S), NEW f, NEW c \in Nat, \A x \in S : f[x] = c
  PROVE  SumFunctionOnSet(f, S) = c * Cardinality(S)
<1> DEFINE G == {T \in SUBSET S : SumFunctionOnSet(f, T) = c * Cardinality(T)}
<1>1. \A x \in S : f[x] \in Nat
  OBVIOUS
<1>2. \A T \in SUBSET S : IsFiniteSet(T) /\ Cardinality(T) \in Nat
  BY FS_Subset, FS_CardinalityType
<1>3. {} \in G
  <2>1. SumFunctionOnSet(f, {}) = 0 /\ Cardinality({}) = 0
    BY <1>1, SumParts, FS_EmptySet
  <2>2. QED
    BY <2>1
<1>4. ASSUME NEW T \in SUBSET S, NEW x \in S \ T, T \in G PROVE T \cup {x} \in G
  <2>1. SumFunctionOnSet(f, T \cup {x}) = f[x] + SumFunctionOnSet(f, T)
    BY <1>1, SumGrows
  <2>2. Cardinality(T \cup {x}) = Cardinality(T) + 1
    BY <1>2, FS_AddElement
  <2>3. \A n \in Nat : c + c * n = c * (n + 1)
    OBVIOUS
  <2>4. c + c * Cardinality(T) = c * (Cardinality(T) + 1)
    BY <1>2, <2>3
  <2>5. SumFunctionOnSet(f, T \cup {x}) = c * Cardinality(T \cup {x})
    BY <1>4, <2>1, <2>2, <2>4
  <2>6. QED
    BY <2>5
<1> HIDE DEF G
<1>5. S \in G
  BY <1>3, <1>4, SetsGrow
<1>6. QED
  BY <1>5 DEF G

\* A sum over two sets apart.
LEMMA SumUnion ==
  ASSUME NEW S, IsFiniteSet(S), NEW f, \A x \in S : f[x] \in Nat,
         NEW A \in SUBSET S, NEW B \in SUBSET S, A \cap B = {}
  PROVE  SumFunctionOnSet(f, A \cup B) = SumFunctionOnSet(f, A) + SumFunctionOnSet(f, B)
<1> DEFINE G == {T \in SUBSET B : SumFunctionOnSet(f, A \cup T)
                                    = SumFunctionOnSet(f, A) + SumFunctionOnSet(f, T)}
<1>1. \A T \in SUBSET S : SumFunctionOnSet(f, T) \in Nat
  BY SumGrows
<1>2. {} \in G
  <2>1. A \cup {} = A /\ SumFunctionOnSet(f, {}) = 0
    BY SumParts
  <2>2. QED
    BY <1>1, <2>1
<1>3. ASSUME NEW T \in SUBSET B, NEW x \in B \ T, T \in G PROVE T \cup {x} \in G
  <2>1. x \in S /\ x \notin A \cup T /\ T \in SUBSET S /\ A \cup T \in SUBSET S
    OBVIOUS
  <2>2. /\ SumFunctionOnSet(f, T \cup {x}) = f[x] + SumFunctionOnSet(f, T)
        /\ SumFunctionOnSet(f, (A \cup T) \cup {x}) = f[x] + SumFunctionOnSet(f, A \cup T)
    BY <2>1, SumGrows
  <2>3. (A \cup T) \cup {x} = A \cup (T \cup {x})
    OBVIOUS
  <2>4. SumFunctionOnSet(f, A \cup T) = SumFunctionOnSet(f, A) + SumFunctionOnSet(f, T)
    BY <1>3
  <2>5. f[x] \in Nat /\ SumFunctionOnSet(f, A) \in Nat /\ SumFunctionOnSet(f, T) \in Nat
    BY <1>1, <2>1
  <2>6. SumFunctionOnSet(f, (A \cup T) \cup {x})
          = SumFunctionOnSet(f, A) + SumFunctionOnSet(f, T \cup {x})
    BY <2>2, <2>4, <2>5
  <2>7. QED
    BY <2>3, <2>6
<1>4. IsFiniteSet(B)
  BY FS_Subset
<1> HIDE DEF G
<1>5. \A T \in SUBSET B : T \in G
  BY <1>2, <1>3, <1>4, SetsGrow
<1>6. B \in G
  BY <1>5
<1>7. QED
  BY <1>6 DEF G

\* Zeros do not count.
LEMMA SumOfZeros ==
  ASSUME NEW S, IsFiniteSet(S), NEW f, \A x \in S : f[x] \in Nat,
         NEW A \in SUBSET S, \A x \in S \ A : f[x] = 0
  PROVE  SumFunctionOnSet(f, S) = SumFunctionOnSet(f, A)
<1>1. S \ A \in SUBSET S /\ A \cap (S \ A) = {} /\ A \cup (S \ A) = S
  OBVIOUS
<1>2. SumFunctionOnSet(f, S) = SumFunctionOnSet(f, A) + SumFunctionOnSet(f, S \ A)
  <2>1. SumFunctionOnSet(f, A \cup (S \ A))
          = SumFunctionOnSet(f, A) + SumFunctionOnSet(f, S \ A)
    BY <1>1, SumUnion
  <2>2. QED
    BY <1>1, <2>1
<1>3. IsFiniteSet(S \ A) /\ Cardinality(S \ A) \in Nat
  BY <1>1, FS_Subset, FS_CardinalityType
<1>4. SumFunctionOnSet(f, S \ A) = 0 * Cardinality(S \ A)
  BY <1>3, SumOfConstant
<1>5. SumFunctionOnSet(f, A) \in Nat
  BY SumGrows
<1>6. QED
  BY <1>2, <1>3, <1>4, <1>5

\* An image of a finite set is finite.
LEMMA FiniteImage ==
  ASSUME NEW S, IsFiniteSet(S), NEW b
  PROVE  IsFiniteSet({b[x] : x \in S})
<1> DEFINE Image(T) == {b[x] : x \in T}
           G == {T \in SUBSET S : IsFiniteSet(Image(T))}
<1>1. {} \in G
  <2>1. Image({}) = {}
    OBVIOUS
  <2>2. QED
    BY <2>1, FS_EmptySet
<1>2. ASSUME NEW T \in SUBSET S, NEW x \in S \ T, T \in G PROVE T \cup {x} \in G
  <2>1. Image(T \cup {x}) = Image(T) \cup {b[x]}
    OBVIOUS
  <2>2. IsFiniteSet(Image(T \cup {x}))
    <3>1. IsFiniteSet(Image(T))
      BY <1>2
    <3> HIDE DEF Image
    <3>2. IsFiniteSet(Image(T) \cup {b[x]})
      BY <3>1, FS_AddElement
    <3>3. QED
      BY <2>1, <3>2
  <2>3. QED
    BY <2>2
<1> HIDE DEF G
<1>3. S \in G
  BY <1>1, <1>2, SetsGrow
<1>4. QED
  BY <1>3 DEF G

\* A sum over the image of a set.
LEMMA SumOverImage ==
  ASSUME NEW S, IsFiniteSet(S), NEW b, NEW f, NEW h,
         \A x \in S : f[b[x]] \in Nat /\ h[x] = f[b[x]],
         \A x, y \in S : b[x] = b[y] => x = y
  PROVE  SumFunctionOnSet(f, {b[x] : x \in S}) = SumFunctionOnSet(h, S)
<1> DEFINE Image(T) == {b[x] : x \in T}
           G == {T \in SUBSET S : SumFunctionOnSet(f, Image(T)) = SumFunctionOnSet(h, T)}
<1>1. \A x \in S : h[x] \in Nat
  OBVIOUS
<1>2. IsFiniteSet(Image(S)) /\ \A y \in Image(S) : f[y] \in Nat
  BY FiniteImage
<1>3. {} \in G
  <2>1. Image({}) = {}
    OBVIOUS
  <2>2. SumFunctionOnSet(f, {}) = 0 /\ SumFunctionOnSet(h, {}) = 0
    BY <1>1, <1>2, SumParts
  <2>3. QED
    BY <2>1, <2>2
<1>4. ASSUME NEW T \in SUBSET S, NEW x \in S \ T, T \in G PROVE T \cup {x} \in G
  <2>1. /\ Image(T \cup {x}) = Image(T) \cup {b[x]} /\ Image(T) \in SUBSET Image(S)
        /\ b[x] \in Image(S) /\ b[x] \notin Image(T)
    OBVIOUS
  <2>2. SumFunctionOnSet(h, T \cup {x}) = h[x] + SumFunctionOnSet(h, T)
    BY <1>1, SumGrows
  <2> HIDE DEF Image
  <2>3. SumFunctionOnSet(f, Image(T) \cup {b[x]}) = f[b[x]] + SumFunctionOnSet(f, Image(T))
    BY <1>2, <2>1, SumGrows
  <2>4. SumFunctionOnSet(f, Image(T \cup {x})) = SumFunctionOnSet(h, T \cup {x})
    BY <1>4, <2>1, <2>2, <2>3
  <2>5. QED
    BY <2>4
<1> HIDE DEF G
<1>5. S \in G
  BY <1>3, <1>4, SetsGrow
<1>6. QED
  BY <1>5 DEF G

\* Products: of the same factors, of positive ones, and over one element less.
LEMMA ProductGrows ==
  ASSUME NEW S, IsFiniteSet(S), NEW f, \A x \in S : f[x] \in Nat
  PROVE  \A T \in SUBSET S :
           /\ ProductOnSet(f, T) \in Nat
           /\ \A x \in S \ T : ProductOnSet(f, T \cup {x}) = f[x] * ProductOnSet(f, T)
           /\ \A x \in T : ProductOnSet(f, T) = f[x] * ProductOnSet(f, T \ {x})
<1> TAKE T \in SUBSET S
<1>1. IsFiniteSet(T) /\ \A x \in T : f[x] \in Nat
  BY FS_Subset
<1>2. /\ ProductOnSet(f, T) \in Nat
      /\ \A x \in T : ProductOnSet(f, T) = f[x] * ProductOnSet(f, T \ {x})
  BY <1>1, ProductParts
<1>3. ASSUME NEW x \in S \ T
      PROVE  ProductOnSet(f, T \cup {x}) = f[x] * ProductOnSet(f, T)
  <2> DEFINE U == T \cup {x}
  <2>1. IsFiniteSet(U) /\ (\A y \in U : f[y] \in Nat) /\ x \in U /\ U \ {x} = T
    BY <1>1, FS_AddElement
  <2> HIDE DEF U
  <2>2. ProductOnSet(f, U) = f[x] * ProductOnSet(f, U \ {x})
    BY <2>1, ProductParts
  <2>3. QED
    BY <2>1, <2>2 DEF U
<1>4. QED
  BY <1>2, <1>3

\* Functions with the same values have the same product.
LEMMA ProductSame ==
  ASSUME NEW S, IsFiniteSet(S), NEW f, NEW g, \A x \in S : f[x] \in Nat /\ g[x] = f[x]
  PROVE  ProductOnSet(g, S) = ProductOnSet(f, S)
<1> DEFINE G == {T \in SUBSET S : ProductOnSet(g, T) = ProductOnSet(f, T)}
<1>1. {} \in G
  BY ProductParts
<1>2. ASSUME NEW T \in SUBSET S, NEW x \in S \ T, T \in G PROVE T \cup {x} \in G
  <2>1. /\ ProductOnSet(f, T \cup {x}) = f[x] * ProductOnSet(f, T)
        /\ ProductOnSet(g, T \cup {x}) = g[x] * ProductOnSet(g, T)
    BY ProductGrows
  <2>2. QED
    BY <1>2, <2>1
<1> HIDE DEF G
<1>3. S \in G
  BY <1>1, <1>2, SetsGrow
<1>4. QED
  BY <1>3 DEF G

\* A product of positive numbers is positive.
LEMMA ProductPositive ==
  ASSUME NEW S, IsFiniteSet(S), NEW f, \A x \in S : f[x] \in Nat /\ f[x] > 0
  PROVE  ProductOnSet(f, S) \in Nat /\ ProductOnSet(f, S) > 0
<1> DEFINE G == {T \in SUBSET S : ProductOnSet(f, T) > 0}
<1>1. \A T \in SUBSET S : ProductOnSet(f, T) \in Nat
  BY ProductGrows
<1>2. {} \in G
  BY ProductParts
<1>3. ASSUME NEW T \in SUBSET S, NEW x \in S \ T, T \in G PROVE T \cup {x} \in G
  <2>1. ProductOnSet(f, T \cup {x}) = f[x] * ProductOnSet(f, T)
    BY ProductGrows
  <2>2. \A a, b \in Nat : a > 0 /\ b > 0 => a * b > 0
    OBVIOUS
  <2>3. f[x] * ProductOnSet(f, T) > 0
    BY <1>1, <1>3, <2>2
  <2>4. QED
    BY <2>1, <2>3
<1> HIDE DEF G
<1>4. S \in G
  BY <1>2, <1>3, SetsGrow
<1>5. QED
  BY <1>1, <1>4 DEF G

------------------------------------------------------------------------------
(* The counts of a trace by rank. *)

\* A finite set of numbers that is not empty has a highest, which Max chooses.
LEMMA MaxOf ==
  ASSUME NEW S, IsFiniteSet(S), S \subseteq Nat, S # {}
  PROVE  Max(S) \in S /\ \A y \in S : Max(S) >= y
<1> DEFINE G == {T \in SUBSET S : T = {} \/ \E x \in T : \A y \in T : x >= y}
<1>1. {} \in G
  OBVIOUS
<1>2. ASSUME NEW T \in SUBSET S, NEW z \in S \ T, T \in G PROVE T \cup {z} \in G
  <2>1. CASE T = {}
    <3>1. z \in T \cup {z} /\ \A y \in T \cup {z} : z >= y
      BY <2>1
    <3>2. QED
      BY <3>1
  <2>2. CASE T # {}
    <3>1. PICK x \in T : \A y \in T : x >= y
      BY <1>2, <2>2
    <3>2. CASE x >= z
      <4>1. x \in T \cup {z} /\ \A y \in T \cup {z} : x >= y
        BY <3>1, <3>2
      <4>2. QED
        BY <4>1
    <3>3. CASE ~(x >= z)
      <4>1. \A y \in T : z >= y
        <5>1. x \in Nat /\ z \in Nat /\ \A y \in T : y \in Nat
          OBVIOUS
        <5>2. QED
          BY <3>1, <3>3, <5>1
      <4>2. z \in T \cup {z} /\ \A y \in T \cup {z} : z >= y
        BY <4>1
      <4>3. QED
        BY <4>2
    <3>4. QED
      BY <3>2, <3>3
  <2>3. QED
    BY <2>1, <2>2
<1> HIDE DEF G
<1>3. S \in G
  BY <1>1, <1>2, SetsGrow
<1>4. \E x \in S : \A y \in S : x >= y
  BY <1>3 DEF G
<1>5. QED
  BY <1>4 DEF Max

\* What the assumption on the constants says of intervals of experts.
LEMMA FiniteRanks ==
  /\ RankedExperts \in Nat \ {0} /\ PerToken \in Nat \ {0} /\ Unit \in Nat \ {0}
  /\ IsFiniteSet(Ranks) /\ Cardinality(Ranks) = RankedExperts
  /\ \A T \in SUBSET Ranks : IsFiniteSet(T) /\ Cardinality(T) \in Nat
<1>1. RankedExperts \in Nat \ {0} /\ PerToken \in Nat \ {0} /\ Unit \in Nat \ {0}
  BY PlanningAssumption
<1>2. RankedExperts \in Int /\ 1 \in Int
  BY <1>1
<1>3. IsFiniteSet(1..RankedExperts) /\ Cardinality(1..RankedExperts) = RankedExperts
  BY <1>1, <1>2, FS_Interval
<1>4. QED
  BY <1>1, <1>3, FS_Subset, FS_CardinalityType DEF Ranks

\* Sorting keeps to numbers, the highest first.
LEMMA DescendingSorts ==
  ASSUME NEW s \in [Ranks -> Nat]
  PROVE  /\ Descending(s) \in [Ranks -> Nat]
         /\ \A i, j \in Ranks : i < j => Descending(s)[i] >= Descending(s)[j]
<1> DEFINE Above(v) == {e \in Ranks : s[e] >= v}
           V(i) == {v \in Range(s) : Cardinality(Above(v)) >= i}
<1>1. Range(s) = {s[e] : e \in Ranks} /\ Range(s) \subseteq Nat
  BY DEF Range
<1>2. IsFiniteSet(Range(s))
  BY <1>1, FiniteRanks, FiniteImage
<1>3. 1 \in Ranks
  BY FiniteRanks DEF Ranks
<1>4. PICK low \in Range(s) : \A v \in Range(s) : low <= v
  <2>1. Range(s) # {}
    BY <1>1, <1>3
  <2>2. QED
    BY <1>1, <2>1, LowestExists
<1>5. Above(low) = Ranks
  <2>1. ASSUME NEW e \in Ranks PROVE s[e] >= low
    BY <1>1, <1>4
  <2>2. QED
    BY <2>1
<1>6. \A v \in Range(s) : Cardinality(Above(v)) \in Nat
  BY FiniteRanks
<1>7. ASSUME NEW i \in Ranks
      PROVE  Max(V(i)) \in V(i) /\ \A y \in V(i) : Max(V(i)) >= y
  <2>1. low \in V(i)
    <3>1. Cardinality(Above(low)) >= i
      <4>1. Cardinality(Ranks) = RankedExperts /\ RankedExperts \in Nat
        BY FiniteRanks
      <4>2. i \in 1..RankedExperts
        BY DEF Ranks
      <4>3. Cardinality(Above(low)) = RankedExperts
        BY <1>5, <4>1
      <4> HIDE DEF Above
      <4>4. QED
        BY <4>1, <4>2, <4>3
    <3>2. QED
      BY <3>1
  <2>2. V(i) \in SUBSET Range(s)
    OBVIOUS
  <2> HIDE DEF V
  <2>3. IsFiniteSet(V(i)) /\ V(i) \subseteq Nat /\ V(i) # {}
    BY <1>1, <1>2, <2>1, <2>2, FS_Subset
  <2>4. QED
    BY <2>3, MaxOf
<1>8. \A i \in Ranks : Descending(s)[i] = Max(V(i))
  BY DEF Descending
<1>9. \A i \in Ranks : V(i) \subseteq Nat
  BY <1>1
<1>10. Descending(s) \in [Ranks -> Nat]
  <2>1. \A i \in Ranks : Max(V(i)) \in Nat
    <3> HIDE DEF V
    <3>1. QED
      BY <1>7, <1>9
  <2>2. Descending(s) = [i \in Ranks |-> Max(V(i))]
    BY DEF Descending
  <2> HIDE DEF V
  <2>3. QED
    BY <2>1, <2>2
<1>11. ASSUME NEW i \in Ranks, NEW j \in Ranks, i < j
       PROVE  Max(V(i)) >= Max(V(j))
  <2>1. Max(V(j)) \in V(j)
    BY <1>7
  <2>2. Max(V(j)) \in V(i)
    <3>1. ASSUME NEW v \in V(j) PROVE v \in V(i)
      <4>1. v \in Range(s) /\ Cardinality(Above(v)) >= j /\ Cardinality(Above(v)) \in Nat
        BY <1>6
      <4> HIDE DEF Above
      <4>2. Cardinality(Above(v)) >= i
        BY <1>11, <4>1, FiniteRanks DEF Ranks
      <4>3. QED
        BY <4>1, <4>2
    <3> HIDE DEF V
    <3>2. QED
      BY <2>1, <3>1
  <2> HIDE DEF V
  <2>3. QED
    BY <1>7, <2>2
<1> HIDE DEF V
<1>12. QED
  BY <1>8, <1>10, <1>11

\* The counts of the batches are numbers, no smaller for an expert used more.
LEMMA CountsDescend ==
  ASSUME trace \in Traces
  PROVE  /\ RankCounts \in [Ranks -> Nat]
         /\ \A e, f \in Ranks : e < f => RankCounts[e] >= RankCounts[f]
<1> DEFINE L == DOMAIN trace[1]
           B == 0..(NumBatches - 1)
           S(b, e) == [l \in L |-> Descending(BatchLayer(b, l))[e]]
           T(e) == [b \in B |-> SumFunctionOnSet(S(b, e), L)]
<1>1. BatchSize \in Nat \ {0} /\ Len(trace) \in Nat /\ Len(trace) > 0
      /\ trace \in Seq(Seq([Ranks -> Nat]))
      /\ \A i \in DOMAIN trace : Len(trace[i]) = Len(trace[1])
  <2>1. BatchSize \in Nat \ {0}
    BY PlanningAssumption
  <2>2. \A t \in Traces : /\ t \in Seq(Seq([Ranks -> Nat])) /\ Len(t) > 0
                         /\ \A i \in DOMAIN t : Len(t[i]) = Len(t[1])
    BY PlanningAssumption
  <2>3. /\ trace \in Seq(Seq([Ranks -> Nat])) /\ Len(trace) > 0
        /\ \A i \in DOMAIN trace : Len(trace[i]) = Len(trace[1])
    BY <2>2
  <2>4. QED
    BY <2>1, <2>3
<1>2. NumBatches \in Nat /\ NumBatches * BatchSize <= Len(trace)
  <2>1. /\ NumBatches \in Int /\ BatchSize * NumBatches <= Len(trace)
        /\ Len(trace) >= 0 => NumBatches >= 0
    BY <1>1, Quotient DEF NumBatches
  <2>2. QED
    BY <1>1, <2>1
<1>3. \A i \in 1..Len(trace) : trace[i] \in Seq([Ranks -> Nat]) /\ DOMAIN trace[i] = L
  <2>1. DOMAIN trace = 1..Len(trace) /\ 1 \in 1..Len(trace)
    BY <1>1
  <2>2. \A i \in 1..Len(trace) : trace[i] \in Seq([Ranks -> Nat])
    BY <1>1
  <2>3. \A i \in 1..Len(trace) : DOMAIN trace[i] = 1..Len(trace[i])
    BY <2>2
  <2>4. QED
    BY <1>1, <2>1, <2>2, <2>3
<1>4. IsFiniteSet(L) /\ IsFiniteSet(B) /\ IsFiniteSet(1..BatchSize)
  <2>1. 1 \in 1..Len(trace)
    BY <1>1
  <2>2. L = 1..Len(trace[1]) /\ Len(trace[1]) \in Nat
    BY <1>3, <2>1
  <2>3. 1 \in Int /\ 0 \in Int /\ Len(trace[1]) \in Int /\ NumBatches - 1 \in Int
        /\ BatchSize \in Int
    BY <1>1, <1>2, <2>2
  <2>4. IsFiniteSet(1..Len(trace[1])) /\ IsFiniteSet(0..(NumBatches - 1))
        /\ IsFiniteSet(1..BatchSize)
    BY <2>3, FS_Interval
  <2>5. QED
    BY <2>2, <2>4
<1>5. ASSUME NEW b \in B, NEW i \in 1..BatchSize
      PROVE  (b * BatchSize) + i \in 1..Len(trace)
  <2>1. b \in Nat /\ b + 1 <= NumBatches
    BY <1>2
  <2>2. \A x, y, z \in Nat : x <= y => x * z <= y * z
    OBVIOUS
  <2>3. (b + 1) * BatchSize <= NumBatches * BatchSize
    BY <1>1, <1>2, <2>1, <2>2
  <2>4. \A x, y \in Nat : (x + 1) * y = x * y + y /\ x * y \in Nat
    OBVIOUS
  <2> DEFINE x == b * BatchSize
             n == NumBatches * BatchSize
  <2>5. x \in Nat /\ (b + 1) * BatchSize = x + BatchSize
    BY <1>1, <2>1, <2>4
  <2>6. n \in Nat /\ x + BatchSize <= n /\ n <= Len(trace) /\ Len(trace) \in Nat
        /\ BatchSize \in Nat
    BY <1>1, <1>2, <2>3, <2>4, <2>5
  <2> HIDE DEF x, n
  <2>7. x + i \in 1..Len(trace)
    BY <2>5, <2>6
  <2>8. QED
    BY <2>7 DEF x
<1>6. ASSUME NEW b \in B, NEW l \in L PROVE BatchLayer(b, l) \in [Ranks -> Nat]
  <2>1. ASSUME NEW e \in Ranks, NEW i \in 1..BatchSize
        PROVE  trace[(b * BatchSize) + i][l][e] \in Nat
    <3> DEFINE n == (b * BatchSize) + i
    <3>1. n \in 1..Len(trace)
      BY <1>5
    <3> HIDE DEF n
    <3>2. trace[n] \in Seq([Ranks -> Nat]) /\ l \in DOMAIN trace[n]
      BY <1>3, <3>1
    <3>3. trace[n][l] \in [Ranks -> Nat]
      BY <3>2
    <3>4. trace[n][l][e] \in Nat
      BY <3>3
    <3>5. QED
      BY <3>4 DEF n
  <2>2. ASSUME NEW e \in Ranks
        PROVE  SumFunctionOnSet([i \in 1..BatchSize |-> trace[(b * BatchSize) + i][l][e]],
                                1..BatchSize) \in Nat
    <3> DEFINE f == [i \in 1..BatchSize |-> trace[(b * BatchSize) + i][l][e]]
    <3>1. \A i \in 1..BatchSize : f[i] \in Nat
      BY <2>1
    <3> HIDE DEF f
    <3>2. SumFunctionOnSet(f, 1..BatchSize) \in Nat
      BY <1>4, <3>1, SumParts
    <3>3. QED
      BY <3>2 DEF f
  <2>3. QED
    BY <2>2 DEF BatchLayer
<1>7. \A b \in B, l \in L :
        /\ \A e \in Ranks : Descending(BatchLayer(b, l))[e] \in Nat
        /\ \A e, f \in Ranks : e < f => Descending(BatchLayer(b, l))[e]
                                          >= Descending(BatchLayer(b, l))[f]
  <2>1. ASSUME NEW b \in B, NEW l \in L
        PROVE  /\ Descending(BatchLayer(b, l)) \in [Ranks -> Nat]
               /\ \A e, f \in Ranks : e < f => Descending(BatchLayer(b, l))[e]
                                                 >= Descending(BatchLayer(b, l))[f]
    BY <1>6, DescendingSorts
  <2> HIDE DEF B, L
  <2>2. QED
    BY <2>1
<1>8. RankCounts = [e \in Ranks |-> SumFunctionOnSet(T(e), B)]
  BY DEF RankCounts
<1>9. ASSUME NEW b \in B, NEW e \in Ranks
      PROVE  /\ SumFunctionOnSet(S(b, e), L) \in Nat
             /\ \A f \in Ranks : e < f => SumFunctionOnSet(S(b, f), L)
                                            <= SumFunctionOnSet(S(b, e), L)
  <2>1. \A f \in Ranks : \A l \in L : S(b, f)[l] \in Nat
    BY <1>7
  <2>2. \A f \in Ranks : e < f => \A l \in L : S(b, f)[l] <= S(b, e)[l]
    BY <1>7
  <2> HIDE DEF S, L, B
  <2>3. SumFunctionOnSet(S(b, e), L) \in Nat
    BY <1>4, <2>1, SumParts
  <2>4. ASSUME NEW f \in Ranks, e < f
        PROVE  SumFunctionOnSet(S(b, f), L) <= SumFunctionOnSet(S(b, e), L)
    <3>1. \A l \in L : S(b, f)[l] \in Nat /\ S(b, e)[l] \in Nat /\ S(b, f)[l] <= S(b, e)[l]
      BY <2>1, <2>2, <2>4
    <3>2. QED
      BY <1>4, <3>1, SumMonotone
  <2>5. QED
    BY <2>3, <2>4
<1>10. ASSUME NEW e \in Ranks
       PROVE  /\ SumFunctionOnSet(T(e), B) \in Nat
              /\ \A f \in Ranks : e < f => SumFunctionOnSet(T(f), B)
                                             <= SumFunctionOnSet(T(e), B)
  <2>0. \A f \in Ranks : \A b \in B : T(f)[b] = SumFunctionOnSet(S(b, f), L)
    OBVIOUS
  <2> HIDE DEF S, T, L, B
  <2>1. \A f \in Ranks : \A b \in B : T(f)[b] \in Nat
    BY <1>9, <2>0
  <2>3. SumFunctionOnSet(T(e), B) \in Nat
    BY <1>4, <2>1, SumParts
  <2>4. ASSUME NEW f \in Ranks, e < f
        PROVE  SumFunctionOnSet(T(f), B) <= SumFunctionOnSet(T(e), B)
    <3>1. \A b \in B : T(f)[b] \in Nat /\ T(e)[b] \in Nat /\ T(f)[b] <= T(e)[b]
      BY <1>9, <2>0, <2>1, <2>4
    <3>2. QED
      BY <1>4, <3>1, SumMonotone
  <2>5. QED
    BY <2>3, <2>4
<1> HIDE DEF S, T, L, B
<1>11. RankCounts \in [Ranks -> Nat]
  BY <1>8, <1>10
<1>12. ASSUME NEW e \in Ranks, NEW f \in Ranks, e < f PROVE RankCounts[e] >= RankCounts[f]
  <2>1. RankCounts[e] = SumFunctionOnSet(T(e), B) /\ RankCounts[f] = SumFunctionOnSet(T(f), B)
    BY <1>8
  <2>2. QED
    BY <1>10, <1>12, <2>1
<1>13. QED
  BY <1>11, <1>12

------------------------------------------------------------------------------
(* Cutting the target at 1. *)

\* The counts are numbers, the highest first.
CountsSorted == /\ counts \in [Ranks -> Nat]
                /\ \A e, f \in Ranks : e < f => counts[e] >= counts[f]
Used == {e \in Ranks : counts[e] > 0}
\* What is cut is used, and while there is use left something of k is.
CutInv ==
  /\ target \in [ones : 0..RankedExperts, left : Nat]
  /\ target.ones + target.left = PerToken
  /\ \A e \in Ranks : e <= target.ones => counts[e] > 0
  /\ Rest(target.ones) > 0 => target.left > 0

\* Of the first experts, and of those left, sums and numbers add up.
LEMMA RestAfter ==
  ASSUME CountsSorted, NEW n \in 0..RankedExperts, NEW m \in 0..RankedExperts, n <= m
  PROVE  /\ Rest(n) \in Nat /\ SumFunctionOnSet(counts, (n + 1)..m) \in Nat
         /\ Rest(n) = SumFunctionOnSet(counts, (n + 1)..m) + Rest(m)
<1> DEFINE A == (n + 1)..m
           B == (m + 1)..RankedExperts
<1>1. RankedExperts \in Nat /\ n \in Nat /\ m \in Nat /\ m <= RankedExperts
  BY FiniteRanks
<1>2. A \in SUBSET Ranks /\ B \in SUBSET Ranks /\ A \cap B = {}
      /\ A \cup B = (n + 1)..RankedExperts
  BY <1>1 DEF Ranks
<1>3. IsFiniteSet(Ranks) /\ \A e \in Ranks : counts[e] \in Nat
  BY FiniteRanks DEF CountsSorted
<1> HIDE DEF A, B
<1>4. SumFunctionOnSet(counts, A \cup B)
        = SumFunctionOnSet(counts, A) + SumFunctionOnSet(counts, B)
  BY <1>2, <1>3, SumUnion
<1>5. SumFunctionOnSet(counts, A) \in Nat /\ SumFunctionOnSet(counts, B) \in Nat
  BY <1>2, <1>3, SumGrows
<1>6. Rest(n) = SumFunctionOnSet(counts, A \cup B)
  BY <1>2 DEF Rest
<1>7. Rest(m) = SumFunctionOnSet(counts, B)
  BY DEF Rest, B
<1>8. Rest(n) \in Nat /\ SumFunctionOnSet(counts, A) \in Nat
      /\ Rest(n) = SumFunctionOnSet(counts, A) + Rest(m)
  BY <1>4, <1>5, <1>6, <1>7
<1>9. QED
  BY <1>8 DEF A

\* The experts to cut are the first of those left.
LEMMA OverFirst ==
  ASSUME CountsSorted, CutInv
  PROVE  /\ Cardinality(OverOnes) \in Nat
         /\ target.ones + Cardinality(OverOnes) <= RankedExperts
         /\ OverOnes = (target.ones + 1)..(target.ones + Cardinality(OverOnes))
<1> DEFINE n == target.ones
<1>1. n \in Nat /\ n <= RankedExperts /\ RankedExperts \in Nat /\ target.left \in Nat
  BY FiniteRanks DEF CutInv
<1>2. Rest(n) \in Nat
  <2>1. n \in 0..RankedExperts
    BY <1>1
  <2>2. QED
    BY <2>1, RestAfter
<1>3. OverOnes \in SUBSET Ranks /\ IsFiniteSet(OverOnes) /\ OverOnes \subseteq Nat
      /\ Cardinality(OverOnes) \in Nat
  <2>1. OverOnes \in SUBSET Ranks /\ OverOnes \subseteq Nat
    BY <1>1 DEF OverOnes, Ranks
  <2>2. QED
    BY <2>1, FiniteRanks
<1>4. CASE OverOnes = {}
  <2>1. Cardinality(OverOnes) = 0
    BY <1>4, FS_EmptySet
  <2>2. QED
    BY <1>1, <1>4, <2>1
<1>5. CASE OverOnes # {}
  <2> DEFINE m == Max(OverOnes)
  <2>1. m \in OverOnes /\ \A e \in OverOnes : m >= e
    BY <1>3, <1>5, MaxOf
  <2> HIDE DEF m
  <2>2. m \in Nat /\ n + 1 <= m /\ m <= RankedExperts /\ counts[m] * target.left >= Rest(n)
    BY <1>1, <2>1 DEF OverOnes
  <2>3. ASSUME NEW e \in (n + 1)..m PROVE e \in OverOnes
    <3>1. e \in Ranks /\ m \in Ranks /\ e \in (n + 1)..RankedExperts
      BY <1>1, <2>2 DEF Ranks
    <3>2. counts[e] >= counts[m] /\ counts[e] \in Nat /\ counts[m] \in Nat
      <4>1. e < m \/ e = m
        BY <1>1, <2>2
      <4>2. QED
        BY <3>1, <4>1 DEF CountsSorted
    <3>3. counts[e] * target.left >= counts[m] * target.left
      BY <1>1, <3>2
    <3>4. counts[e] * target.left \in Nat /\ counts[m] * target.left \in Nat
      BY <1>1, <3>2
    <3>5. counts[e] * target.left >= Rest(n)
      BY <1>2, <2>2, <3>3, <3>4
    <3>6. QED
      BY <3>1, <3>5 DEF OverOnes
  <2>4. OverOnes = (n + 1)..m
    <3>1. ASSUME NEW e \in OverOnes PROVE e \in (n + 1)..m
      <4>1. e \in (n + 1)..RankedExperts /\ m >= e
        BY <2>1 DEF OverOnes
      <4>2. QED
        BY <1>1, <2>2, <4>1
    <3>2. QED
      BY <2>3, <3>1
  <2>5. Cardinality(OverOnes) = m - n
    <3>1. n + 1 \in Int /\ m \in Int
      BY <1>1, <2>2
    <3>2. Cardinality((n + 1)..m) = m - (n + 1) + 1
      BY <1>1, <2>2, <3>1, FS_Interval
    <3>3. QED
      BY <1>1, <2>2, <2>4, <3>2
  <2>6. QED
    BY <1>1, <2>2, <2>4, <2>5
<1>6. QED
  BY <1>4, <1>5

\* A cut leaves enough of k, and if nothing of it, no use.
LEMMA CutLeaves ==
  ASSUME CountsSorted, CutInv, ~CutDone
  PROVE  LET c == Cardinality(OverOnes) IN
         /\ c <= target.left
         /\ \A e \in OverOnes : counts[e] > 0
         /\ target.left = c => Rest(target.ones + c) = 0
<1> DEFINE n == target.ones
           c == Cardinality(OverOnes)
           l == target.left
           O == SumFunctionOnSet(counts, OverOnes)
<1>1. n \in 0..RankedExperts /\ RankedExperts \in Nat /\ l \in Nat /\ l > 0 /\ Rest(n) # 0
  BY FiniteRanks DEF CutInv, CutDone
<1>2. c \in Nat /\ n + c \in 0..RankedExperts /\ OverOnes = (n + 1)..(n + c)
  BY <1>1, OverFirst
<1>3. /\ Rest(n) \in Nat /\ Rest(n + c) \in Nat /\ O \in Nat
      /\ Rest(n) = O + Rest(n + c)
  <2>1. n <= n + c
    BY <1>1, <1>2
  <2> HIDE DEF c, n
  <2>2. Rest(n) \in Nat /\ Rest(n + c) \in Nat
    BY <1>1, <1>2, RestAfter
  <2>3. /\ SumFunctionOnSet(counts, (n + 1)..(n + c)) \in Nat
        /\ Rest(n) = SumFunctionOnSet(counts, (n + 1)..(n + c)) + Rest(n + c)
    BY <1>1, <1>2, <2>1, RestAfter
  <2>4. QED
    BY <1>2, <2>2, <2>3
<1>4. OverOnes \in SUBSET Ranks /\ IsFiniteSet(OverOnes)
  <2>1. OverOnes \in SUBSET Ranks
    BY <1>1 DEF OverOnes, Ranks
  <2>2. QED
    BY <2>1, FiniteRanks
<1>5. \A e \in OverOnes : counts[e] \in Nat /\ counts[e] * l >= Rest(n)
  BY <1>4 DEF OverOnes, CountsSorted
<1>6. c * Rest(n) <= l * O
  <2> DEFINE f == [e \in OverOnes |-> Rest(n)]
             g == [e \in OverOnes |-> l * counts[e]]
  <2>1. \A e \in OverOnes : /\ f[e] \in Nat /\ g[e] \in Nat /\ f[e] <= g[e]
                            /\ f[e] = Rest(n) /\ g[e] = l * counts[e]
    <3>1. ASSUME NEW e \in OverOnes PROVE l * counts[e] \in Nat /\ Rest(n) <= l * counts[e]
      <4>1. counts[e] * l = l * counts[e] /\ l * counts[e] \in Nat
        BY <1>1, <1>5
      <4>2. QED
        BY <1>3, <1>5, <4>1
    <3>2. QED
      BY <1>3, <3>1
  <2> HIDE DEF f, g
  <2>2. SumFunctionOnSet(f, OverOnes) <= SumFunctionOnSet(g, OverOnes)
    BY <1>4, <2>1, SumMonotone
  <2>3. SumFunctionOnSet(f, OverOnes) = Rest(n) * c
    BY <1>3, <1>4, <2>1, SumOfConstant
  <2>4. SumFunctionOnSet(g, OverOnes) = l * O
    BY <1>1, <1>4, <1>5, <2>1, SumScales
  <2>5. Rest(n) * c = c * Rest(n)
    BY <1>2, <1>3
  <2>6. QED
    BY <2>2, <2>3, <2>4, <2>5
<1> HIDE DEF O, l, c, n
<1>7. c <= l
  <2>1. l * O <= l * Rest(n)
    BY <1>1, <1>3
  <2>2. c * Rest(n) <= l * Rest(n)
    <3>1. c * Rest(n) \in Nat /\ l * O \in Nat /\ l * Rest(n) \in Nat
      BY <1>1, <1>2, <1>3
    <3>2. QED
      BY <1>6, <2>1, <3>1
  <2>3. \A a, b, r \in Nat : r > 0 /\ a * r <= b * r => a <= b
    OBVIOUS
  <2>4. QED
    BY <1>1, <1>2, <1>3, <2>2, <2>3
<1>8. \A e \in OverOnes : counts[e] > 0
  <2>1. ASSUME NEW e \in OverOnes, counts[e] = 0 PROVE FALSE
    <3>1. counts[e] * l = 0
      BY <1>1, <2>1
    <3>2. QED
      BY <1>1, <1>3, <1>5, <3>1
  <2>2. QED
    BY <1>5, <2>1
<1>9. l = c => Rest(n + c) = 0
  <2>1. SUFFICES ASSUME l = c PROVE Rest(n + c) = 0
    OBVIOUS
  <2>2. l * (O + Rest(n + c)) = l * O + l * Rest(n + c)
    BY <1>1, <1>3
  <2>3. l * Rest(n + c) \in Nat /\ l * O \in Nat
    BY <1>1, <1>3
  <2>4. l * Rest(n + c) = 0
    BY <1>3, <1>6, <2>1, <2>2, <2>3
  <2>5. \A a, b \in Nat : a > 0 /\ a * b = 0 => b = 0
    OBVIOUS
  <2>6. QED
    BY <1>1, <1>3, <2>4, <2>5
<1>10. QED
  BY <1>7, <1>8, <1>9 DEF l, c, n

\* When cutting is done the target sums to k exactly if enough experts are used.
LEMMA DoneSums ==
  ASSUME CountsSorted, CutInv, CutDone
  PROVE  /\ SumsToK <=> Cardinality(Used) >= PerToken
         /\ \A e \in Ranks : 0 <= Target(e) /\ Target(e) <= Rest(target.ones)
         /\ \A e, f \in Ranks : e < f => Target(e) >= Target(f)
<1> DEFINE n == target.ones
           l == target.left
           R == Rest(n)
           First == 1..n
           Last == (n + 1)..RankedExperts
           A == {e \in Last : counts[e] > 0}
<1>1. n \in 0..RankedExperts /\ n \in Nat /\ RankedExperts \in Nat /\ l \in Nat
      /\ n + l = PerToken /\ PerToken \in Nat
  BY FiniteRanks DEF CutInv
<1>2. R \in Nat
  BY <1>1, RestAfter
<1>3. First \in SUBSET Ranks /\ Last \in SUBSET Ranks /\ First \cap Last = {}
      /\ First \cup Last = Ranks /\ Cardinality(First) = n
      /\ (\A e \in Ranks : e \in First <=> e <= n)
      /\ IsFiniteSet(First) /\ IsFiniteSet(Last) /\ IsFiniteSet(A)
      /\ A \in SUBSET Last
  <2>1. 1 \in Int /\ n \in Int
    BY <1>1
  <2>2. Cardinality(First) = n
    <3>1. Cardinality(1..n) = IF 1 > n THEN 0 ELSE n - 1 + 1
      BY <2>1, FS_Interval
    <3> HIDE DEF n
    <3>2. QED
      BY <1>1, <3>1
  <2>3. First \in SUBSET Ranks /\ Last \in SUBSET Ranks /\ First \cap Last = {}
        /\ First \cup Last = Ranks /\ (\A e \in Ranks : e \in First <=> e <= n)
    BY <1>1 DEF Ranks
  <2>4. A \in SUBSET Last
    OBVIOUS
  <2> HIDE DEF First, Last, A
  <2>5. A \in SUBSET Ranks
    BY <2>3, <2>4
  <2>6. QED
    BY <2>2, <2>3, <2>4, <2>5, FiniteRanks
<1>4. \A e \in Ranks : counts[e] \in Nat
  BY DEF CountsSorted
<1>5. R = SumFunctionOnSet(counts, Last)
  BY DEF Rest
<1>6. Used = First \cup A /\ First \cap A = {} /\ Cardinality(A) \in Nat
      /\ Cardinality(Used) = n + Cardinality(A)
  <2>1. Used = First \cup A /\ First \cap A = {}
    <3>1. \A e \in First : counts[e] > 0
      BY <1>3 DEF CutInv
    <3> HIDE DEF First, Last
    <3>2. QED
      BY <1>3, <3>1 DEF Used
  <2> HIDE DEF First, A
  <2>2. Cardinality(A) \in Nat /\ Cardinality({}) = 0
    BY <1>3, FS_CardinalityType, FS_EmptySet
  <2>3. Cardinality(First \cup A)
          = Cardinality(First) + Cardinality(A) - Cardinality(First \cap A)
    BY <1>3, FS_Union
  <2>4. Cardinality(Used) = n + Cardinality(A)
    <3>1. Cardinality(First) = n
      BY <1>3
    <3>2. Cardinality(First \cap A) = 0 /\ Cardinality(Used) = Cardinality(First \cup A)
      BY <2>1, <2>2
    <3>3. n \in Nat
      BY <1>1
    <3> HIDE DEF n
    <3>4. QED
      BY <2>2, <2>3, <3>1, <3>2, <3>3
  <2>5. QED
    BY <2>1, <2>2, <2>4
<1> HIDE DEF First, Last, A, n, l, R
<1>7. CASE R = 0
  <2>1. ASSUME NEW e \in Last PROVE counts[e] = 0
    <3>1. /\ SumFunctionOnSet(counts, Last)
               = counts[e] + SumFunctionOnSet(counts, Last \ {e})
          /\ SumFunctionOnSet(counts, Last \ {e}) \in Nat
      <4>1. Last \ {e} \in SUBSET Last /\ \A d \in Last : counts[d] \in Nat
        BY <1>3, <1>4
      <4>2. QED
        BY <1>3, <4>1, SumGrows
    <3>2. counts[e] \in Nat
      BY <1>3, <1>4
    <3> DEFINE others == SumFunctionOnSet(counts, Last \ {e})
    <3>3. others \in Nat /\ 0 = counts[e] + others
      BY <1>5, <1>7, <3>1
    <3> HIDE DEF others
    <3>4. QED
      BY <3>2, <3>3
  <2>2. A = {}
    BY <2>1 DEF A
  <2>3. Cardinality(A) = 0
    BY <2>2, FS_EmptySet
  <2>4. SumsToK <=> n = PerToken
    BY <1>7 DEF SumsToK, R, n
  <2>5. \A e \in Ranks : Target(e) = 0
    BY <1>7 DEF Target, R, n
  <2>6. QED
    BY <1>1, <1>2, <1>6, <1>7, <2>3, <2>4, <2>5 DEF R, n
<1>8. CASE R # 0
  <2>1. R > 0 /\ l > 0
    BY <1>1, <1>2, <1>8 DEF CutInv, R, n, l
  <2>2. n # RankedExperts
    <3>1. SUFFICES ASSUME n = RankedExperts PROVE FALSE
      OBVIOUS
    <3>2. Last = {}
      BY <1>1, <3>1 DEF Last
    <3>3. SumFunctionOnSet(counts, {}) = 0
      BY <1>3, <1>4, SumParts
    <3>4. QED
      BY <1>5, <1>8, <3>2, <3>3
  <2>3. OverOnes = {}
    BY <1>1, <1>8, <2>1, <2>2 DEF CutDone, R, n, l
  <2>4. ASSUME NEW e \in Last PROVE counts[e] * l < R /\ counts[e] * l \in Nat
    <3>1. ~(counts[e] * l >= R)
      BY <2>3 DEF OverOnes, Last, n, l, R
    <3>2. counts[e] * l \in Nat
      BY <1>1, <1>3, <1>4
    <3>3. QED
      BY <1>2, <3>1, <3>2
  <2>5. \A e \in Ranks : Target(e) = IF e \in First THEN R ELSE counts[e] * l
    BY <1>1, <1>3, <1>8, <2>1 DEF Target, R, n, l
  <2>6. \A e \in Ranks : e \in First \/ e \in Last
    BY <1>3
  <2>7. \A e \in Ranks : 0 <= Target(e) /\ Target(e) <= R
    BY <1>2, <2>4, <2>5, <2>6
  <2>8. ASSUME NEW e \in Ranks, NEW f \in Ranks, e < f PROVE Target(e) >= Target(f)
    <3>1. CASE e \in First
      <4>1. Target(e) = R
        BY <2>5, <3>1
      <4>2. QED
        BY <1>2, <2>4, <2>5, <2>6, <4>1
    <3>2. CASE e \notin First
      <4>1. f \notin First
        BY <1>1, <1>3, <2>8, <3>2 DEF Ranks
      <4>2. Target(e) = counts[e] * l /\ Target(f) = counts[f] * l
        BY <2>5, <3>2, <4>1
      <4>3. counts[e] >= counts[f] /\ counts[e] \in Nat /\ counts[f] \in Nat
        BY <1>4, <2>8 DEF CountsSorted
      <4>4. QED
        BY <1>1, <4>2, <4>3
    <3>3. QED
      BY <3>1, <3>2
  <2>9. SumFunctionOnSet([e \in Ranks |-> Target(e)], Ranks) = PerToken * R
    <3> DEFINE t == [e \in Ranks |-> Target(e)]
    <3>1. \A e \in First : t[e] = R
      BY <1>3, <2>5
    <3>2. \A e \in Last : t[e] = l * counts[e] /\ counts[e] \in Nat
      <4>1. ASSUME NEW e \in Last PROVE t[e] = l * counts[e] /\ counts[e] \in Nat
        <5>1. e \in Ranks /\ e \notin First /\ counts[e] \in Nat
          BY <1>3, <1>4
        <5>2. t[e] = counts[e] * l
          BY <2>5, <5>1
        <5>3. QED
          BY <1>1, <5>1, <5>2
      <4>2. QED
        BY <4>1
    <3>3. \A e \in Ranks : t[e] \in Nat
      <4>1. ASSUME NEW e \in Ranks PROVE t[e] \in Nat
        BY <1>2, <2>4, <2>5, <2>6
      <4>2. QED
        BY <4>1
    <3> HIDE DEF t
    <3>4. SumFunctionOnSet(t, First \cup Last)
            = SumFunctionOnSet(t, First) + SumFunctionOnSet(t, Last)
      BY <1>3, <3>3, FiniteRanks, SumUnion
    <3>5. SumFunctionOnSet(t, First) = R * n
      BY <1>2, <1>3, <3>1, SumOfConstant
    <3>6. SumFunctionOnSet(t, Last) = l * R
      BY <1>1, <1>3, <1>5, <3>2, SumScales
    <3>7. R * n + l * R = (n + l) * R
      BY <1>1, <1>2
    <3>8. SumFunctionOnSet(t, Ranks) = PerToken * R
      BY <1>1, <1>3, <3>4, <3>5, <3>6, <3>7
    <3>9. QED
      BY <3>8 DEF t
  <2>10. SumsToK
    BY <1>8, <2>9 DEF SumsToK, R, n
  <2>11. l < Cardinality(A)
    <3> DEFINE f == [e \in A |-> l * counts[e]]
               g == [e \in A |-> R - 1]
               a == Cardinality(A)
    <3>1. \A e \in A : /\ f[e] \in Nat /\ g[e] \in Nat /\ f[e] <= g[e]
                       /\ f[e] = l * counts[e] /\ g[e] = R - 1 /\ counts[e] \in Nat
      <4>1. ASSUME NEW e \in A
            PROVE  l * counts[e] \in Nat /\ l * counts[e] <= R - 1 /\ counts[e] \in Nat
        <5>1. e \in Last /\ e \in Ranks
          BY <1>3
        <5>2. counts[e] * l < R /\ counts[e] \in Nat
          BY <1>4, <2>4, <5>1
        <5>3. counts[e] * l = l * counts[e] /\ l * counts[e] \in Nat
          BY <1>1, <5>2
        <5>4. QED
          BY <1>2, <5>2, <5>3
      <4>2. QED
        BY <1>2, <2>1, <4>1
    <3> HIDE DEF f, g
    <3>2. SumFunctionOnSet(f, A) <= SumFunctionOnSet(g, A)
      BY <1>3, <3>1, SumMonotone
    <3>3. SumFunctionOnSet(f, A) = l * SumFunctionOnSet(counts, A)
      <4>1. \A e \in A : counts[e] \in Nat /\ f[e] = l * counts[e]
        BY <3>1
      <4>2. QED
        BY <1>1, <1>3, <4>1, SumScales
    <3>4. SumFunctionOnSet(counts, Last) = SumFunctionOnSet(counts, A)
      <4>1. \A e \in Last : counts[e] \in Nat
        BY <1>3, <1>4
      <4>2. \A e \in Last \ A : counts[e] = 0
        BY <4>1 DEF A
      <4>3. QED
        BY <1>3, <4>1, <4>2, SumOfZeros
    <3>5. SumFunctionOnSet(g, A) = (R - 1) * a
      <4>1. R - 1 \in Nat
        BY <1>2, <2>1
      <4>2. QED
        BY <1>3, <3>1, <4>1, SumOfConstant
    <3>6. l * R <= (R - 1) * a
      BY <1>5, <3>2, <3>3, <3>4, <3>5
    <3>7. a \in Nat
      BY <1>6
    <3> HIDE DEF a
    <3>8. ~(a <= l)
      <4>1. SUFFICES ASSUME a <= l PROVE FALSE
        OBVIOUS
      <4>2. (R - 1) * a <= (R - 1) * l
        BY <1>1, <1>2, <2>1, <3>7, <4>1
      <4>3. (R - 1) * l = l * R - l /\ l * R \in Nat /\ (R - 1) * a \in Int
        BY <1>1, <1>2, <3>7
      <4>4. QED
        BY <1>1, <2>1, <3>6, <4>2, <4>3
    <3>9. QED
      BY <1>1, <3>7, <3>8 DEF a
  <2>12. Cardinality(Used) >= PerToken
    BY <1>1, <1>6, <2>11
  <2>13. QED
    BY <2>7, <2>8, <2>10, <2>12 DEF R, n
<1>9. QED
  BY <1>7, <1>8

------------------------------------------------------------------------------
(* The target is a distribution. *)

\* Of the counts and the target; what makes both inductive.
TargetInv ==
  /\ trace \in Traces /\ memory \in Nat
  /\ planning \in {"trace", "scale", "cut", "simulate", "done", "raised"}
  /\ planning # "trace" => CountsSorted
  /\ planning \in {"cut", "simulate", "done"} => CutInv
  /\ planning \in {"simulate", "done"} => /\ CutDone /\ Cardinality(Used) >= PerToken
                                          /\ probWeight \in [Ranks -> Nat]
  /\ planning = "raised" => Cardinality(Used) < PerToken

\* Nothing is counted at first.
LEMMA TargetStart == PlanningInit => TargetInv
  BY PlanningAssumption DEF PlanningInit, TargetInv

\* Counting the batches leaves the counts in descending order.
LEMMA CountingKeeps == TargetInv /\ ObtainDistFromTrace => TargetInv'
<1> SUFFICES ASSUME TargetInv, ObtainDistFromTrace PROVE TargetInv'
  OBVIOUS
<1>1. trace \in Traces /\ memory \in Nat /\ trace' = trace /\ memory' = memory
      /\ counts' = RankCounts
  BY DEF TargetInv, ObtainDistFromTrace
<1>2. CountsSorted'
  BY <1>1, CountsDescend DEF CountsSorted
<1>3. CASE SumFunctionOnSet(RankCounts, Ranks) = 0
  <2>1. planning' = "raised"
    BY <1>3 DEF ObtainDistFromTrace
  <2>2. \A e \in Ranks : RankCounts[e] \in Nat
    BY <1>1, CountsDescend
  <2>3. ASSUME NEW e \in Ranks PROVE RankCounts[e] = 0
    <3>1. /\ SumFunctionOnSet(RankCounts, Ranks)
               = RankCounts[e] + SumFunctionOnSet(RankCounts, Ranks \ {e})
          /\ SumFunctionOnSet(RankCounts, Ranks \ {e}) \in Nat
      <4>1. Ranks \ {e} \in SUBSET Ranks /\ Ranks \in SUBSET Ranks
        OBVIOUS
      <4>2. QED
        BY <2>2, <4>1, FiniteRanks, SumGrows
    <3> DEFINE others == SumFunctionOnSet(RankCounts, Ranks \ {e})
    <3>2. others \in Nat /\ 0 = RankCounts[e] + others /\ RankCounts[e] \in Nat
      BY <1>3, <2>2, <3>1
    <3> HIDE DEF others
    <3>3. QED
      BY <3>2
  <2>4. Used' = {}
    BY <1>1, <2>3 DEF Used
  <2>5. Cardinality(Used') = 0 /\ PerToken > 0
    BY <2>4, FS_EmptySet, FiniteRanks
  <2>6. Cardinality(Used)' < PerToken
    BY <2>5, FiniteRanks
  <2>7. QED
    BY <1>1, <1>2, <2>1, <2>6 DEF TargetInv
<1>4. CASE SumFunctionOnSet(RankCounts, Ranks) # 0
  <2>1. planning' = "scale"
    BY <1>4 DEF ObtainDistFromTrace
  <2>2. QED
    BY <1>1, <1>2, <2>1 DEF TargetInv
<1>5. QED
  BY <1>3, <1>4

\* No expert is cut before the first turn.
LEMMA StartScaleKeeps == TargetInv /\ StartScale => TargetInv'
<1> SUFFICES ASSUME TargetInv, StartScale PROVE TargetInv'
  OBVIOUS
<1>1. /\ trace \in Traces /\ memory \in Nat /\ trace' = trace /\ memory' = memory
      /\ CountsSorted /\ counts' = counts /\ planning' = "cut"
      /\ target' = [ones |-> 0, left |-> PerToken]
  BY DEF TargetInv, StartScale
<1>2. CountsSorted'
  BY <1>1 DEF CountsSorted
<1>3. PerToken \in Nat /\ PerToken > 0 /\ RankedExperts \in Nat
  BY FiniteRanks
<1>4. CutInv'
  <2>1. target' \in [ones : 0..RankedExperts, left : Nat]
    BY <1>1, <1>3
  <2>2. target'.ones = 0 /\ target'.left = PerToken
    BY <1>1
  <2>3. \A e \in Ranks : ~(e <= target'.ones)
    BY <1>3, <2>2 DEF Ranks
  <2>4. QED
    BY <1>3, <2>1, <2>2, <2>3 DEF CutInv
<1>5. QED
  BY <1>1, <1>2, <1>4 DEF TargetInv

\* A turn cuts the first experts of those left.
LEMMA CutKeeps == TargetInv /\ Cut => TargetInv'
<1> SUFFICES ASSUME TargetInv, Cut PROVE TargetInv'
  OBVIOUS
<1> DEFINE c == Cardinality(OverOnes)
           n == target.ones
<1>1. /\ trace \in Traces /\ memory \in Nat /\ trace' = trace /\ memory' = memory
      /\ CountsSorted /\ CutInv /\ ~CutDone /\ counts' = counts /\ planning' = "cut"
      /\ target' = [ones |-> n + c, left |-> target.left - c]
  BY DEF TargetInv, Cut, LeftAfter
<1>2. CountsSorted'
  BY <1>1 DEF CountsSorted
<1>3. /\ c \in Nat /\ n + c <= RankedExperts /\ OverOnes = (n + 1)..(n + c)
      /\ c <= target.left /\ (\A e \in OverOnes : counts[e] > 0)
      /\ target.left = c => Rest(n + c) = 0
  BY <1>1, OverFirst, CutLeaves
<1>4. /\ n \in Nat /\ target.left \in Nat /\ n + target.left = PerToken
      /\ RankedExperts \in Nat /\ \A e \in Ranks : e <= n => counts[e] > 0
  BY <1>1, FiniteRanks DEF CutInv
<1> HIDE DEF c, n
<1>5. target'.ones = n + c /\ target'.left = target.left - c
  BY <1>1
<1>6. Rest(target'.ones) > 0 => target'.left > 0
  BY <1>3, <1>4, <1>5
<1>7. ASSUME NEW e \in Ranks, e <= n + c PROVE counts[e] > 0
  <2>1. e <= n \/ e \in OverOnes
    BY <1>3, <1>4, <1>7 DEF Ranks
  <2>2. QED
    BY <1>3, <1>4, <2>1
<1>8. CutInv'
  <2>1. target' \in [ones : 0..RankedExperts, left : Nat]
    BY <1>1, <1>3, <1>4
  <2>2. target'.ones + target'.left = PerToken
    BY <1>3, <1>4, <1>5
  <2>3. \A e \in Ranks : e <= target'.ones => counts'[e] > 0
    BY <1>1, <1>5, <1>7
  <2>4. Rest(target.ones)' = Rest(target'.ones)
    BY <1>1 DEF Rest
  <2>5. QED
    BY <1>6, <2>1, <2>2, <2>3, <2>4 DEF CutInv
<1>9. QED
  BY <1>1, <1>2, <1>8 DEF TargetInv

\* The counts and the target stay with the variables they are read from.
LEMMA TargetStable ==
  ASSUME counts' = counts, target' = target
  PROVE  /\ CountsSorted' = CountsSorted /\ CutInv' = CutInv /\ CutDone' = CutDone
         /\ Used' = Used
<1>1. \A n : Rest(n)' = Rest(n)
  BY DEF Rest
<1>2. OverOnes' = OverOnes
  BY DEF OverOnes, Rest
<1>3. Rest(target.ones)' = Rest(target.ones)
  BY DEF Rest
<1>4. QED
  BY <1>2, <1>3 DEF CountsSorted, CutInv, CutDone, Used

\* Done cutting, the target sums to k, or too few experts are used.
LEMMA FindWeightsKeeps == TargetInv /\ FindWeights => TargetInv'
<1> SUFFICES ASSUME TargetInv, FindWeights PROVE TargetInv'
  OBVIOUS
<1>1. /\ trace \in Traces /\ memory \in Nat /\ trace' = trace /\ memory' = memory
      /\ CountsSorted /\ CutInv /\ CutDone /\ counts' = counts /\ target' = target
  BY DEF TargetInv, FindWeights
<1>2. CountsSorted' /\ CutInv' /\ CutDone' /\ Used' = Used
  BY <1>1, TargetStable
<1>3. SumsToK <=> Cardinality(Used) >= PerToken
  BY <1>1, DoneSums
<1>4. Cardinality(Used) \in Nat /\ PerToken \in Nat
  <2>1. Used \in SUBSET Ranks
    BY DEF Used
  <2>2. QED
    BY <2>1, FiniteRanks
<1>5. CASE SumsToK
  <2>1. planning' = "simulate" /\ probWeight' \in [Ranks -> Nat]
    BY <1>5, PlanningAssumption DEF FindWeights
  <2>2. Cardinality(Used)' >= PerToken
    BY <1>2, <1>3, <1>5
  <2>3. QED
    BY <1>1, <1>2, <2>1, <2>2 DEF TargetInv
<1>6. CASE ~SumsToK
  <2>1. planning' = "raised"
    BY <1>6 DEF FindWeights
  <2>2. Cardinality(Used)' < PerToken
    BY <1>2, <1>3, <1>4, <1>6
  <2>3. QED
    BY <1>1, <1>2, <2>1, <2>2 DEF TargetInv
<1>7. QED
  BY <1>5, <1>6

\* The simulation does not touch the target.
LEMMA LaterKeepsTarget == TargetInv /\ (Simulate \/ Choose) => TargetInv'
<1> SUFFICES ASSUME TargetInv, Simulate \/ Choose PROVE TargetInv'
  OBVIOUS
<1>1. /\ planning = "simulate" /\ planning' \in {"simulate", "done"}
      /\ trace' = trace /\ memory' = memory
      /\ counts' = counts /\ target' = target /\ probWeight' = probWeight
  BY DEF Simulate, Choose
<1>2. /\ trace \in Traces /\ memory \in Nat /\ CountsSorted /\ CutInv /\ CutDone
      /\ Cardinality(Used) >= PerToken /\ probWeight \in [Ranks -> Nat]
  BY <1>1 DEF TargetInv
<1>3. CountsSorted' /\ CutInv' /\ CutDone' /\ Used' = Used
  BY <1>1, <1>2, TargetStable
<1>4. Cardinality(Used)' >= PerToken
  BY <1>2, <1>3
<1>5. QED
  BY <1>1, <1>2, <1>3, <1>4 DEF TargetInv

\* Every step keeps what the target is.
LEMMA TargetInductive == TargetInv /\ [PlanningNext]_planningVars => TargetInv'
<1> SUFFICES ASSUME TargetInv, [PlanningNext]_planningVars PROVE TargetInv'
  OBVIOUS
<1>1. CASE UNCHANGED planningVars
  <2>1. CountsSorted' = CountsSorted /\ CutInv' = CutInv /\ CutDone' = CutDone /\ Used' = Used
    BY <1>1, TargetStable DEF planningVars
  <2>2. Cardinality(Used)' = Cardinality(Used)
    BY <2>1
  <2>3. QED
    BY <1>1, <2>1, <2>2 DEF planningVars, TargetInv
<1>2. CASE ObtainDistFromTrace
  BY <1>2, CountingKeeps
<1>3. CASE StartScale
  BY <1>3, StartScaleKeeps
<1>4. CASE Cut
  BY <1>4, CutKeeps
<1>5. CASE FindWeights
  BY <1>5, FindWeightsKeeps
<1>6. CASE Simulate \/ Choose
  BY <1>6, LaterKeepsTarget
<1>7. QED
  BY <1>1, <1>2, <1>3, <1>4, <1>5, <1>6 DEF PlanningNext

\* The target is a distribution over the experts that sums to k whenever planning goes
\* on, and planning stops exactly if fewer experts than k are used: for every trace.
THEOREM TargetIsDistribution == PlanningSpec => []TargetsSumToK
<1>1. TargetInv => TargetsSumToK
  <2> SUFFICES ASSUME TargetInv PROVE TargetsSumToK
    OBVIOUS
  <2>1. Cardinality(Used) \in Nat /\ PerToken \in Nat
    <3>1. Used \in SUBSET Ranks
      BY DEF Used
    <3>2. QED
      BY <3>1, FiniteRanks
  <2>2. planning \in {"simulate", "done"} =>
          /\ \A e \in Ranks : 0 <= Target(e) /\ Target(e) <= Rest(target.ones)
          /\ \A e, f \in Ranks : e < f => Target(e) >= Target(f)
    BY DoneSums DEF TargetInv
  <2>3. planning \in {"simulate", "done", "raised"} =>
          (planning = "raised" <=> Cardinality(Used) < PerToken)
    BY <2>1 DEF TargetInv
  <2>4. QED
    BY <2>2, <2>3 DEF TargetsSumToK, Used
<1>2. QED
  BY <1>1, TargetStart, TargetInductive, PTL DEF PlanningSpec

------------------------------------------------------------------------------
(* Choices of experts by number. *)

\* The weights of a choice from one more expert.
LEMMA OneMoreFactor ==
  ASSUME probWeight \in [Ranks -> Nat], NEW v \in Nat,
         NEW S \in SUBSET Ranks, NEW x \in Ranks \ S, NEW T \in SUBSET S
  PROVE  /\ ChoiceWeight(S, T, v) \in Nat
         /\ ChoiceWeight(S \cup {x}, T, v) = v * ChoiceWeight(S, T, v)
         /\ ChoiceWeight(S \cup {x}, T \cup {x}, v) = probWeight[x] * ChoiceWeight(S, T, v)
<1> DEFINE U == S \cup {x}
           f == [e \in S |-> IF e \in T THEN probWeight[e] ELSE v]
           g == [e \in U |-> IF e \in T THEN probWeight[e] ELSE v]
           h == [e \in U |-> IF e \in T \cup {x} THEN probWeight[e] ELSE v]
<1>1. /\ S \in SUBSET U /\ x \in U \ S /\ U \in SUBSET Ranks /\ IsFiniteSet(S)
      /\ IsFiniteSet(U) /\ S \cup {x} = U
  <2>1. S \in SUBSET U /\ x \in U \ S /\ U \in SUBSET Ranks /\ S \cup {x} = U
    OBVIOUS
  <2>2. QED
    BY <2>1, FiniteRanks
<1>2. \A e \in U : /\ g[e] \in Nat /\ h[e] \in Nat /\ (e \in S => g[e] = f[e] /\ h[e] = f[e])
                   /\ (e \in S => f[e] \in Nat)
  BY <1>1
<1>3. g[x] = v /\ h[x] = probWeight[x]
  <2>1. x \notin T
    OBVIOUS
  <2>2. QED
    BY <2>1
<1>4. /\ ChoiceWeight(S, T, v) = ProductOnSet(f, S)
      /\ ChoiceWeight(U, T, v) = ProductOnSet(g, U)
      /\ ChoiceWeight(U, T \cup {x}, v) = ProductOnSet(h, U)
  BY DEF ChoiceWeight
<1> HIDE DEF f, g, h, U
<1>5. \A e \in S : f[e] \in Nat /\ g[e] = f[e] /\ h[e] = f[e]
  BY <1>1, <1>2
<1>6. ProductOnSet(g, S) = ProductOnSet(f, S) /\ ProductOnSet(h, S) = ProductOnSet(f, S)
  BY <1>1, <1>5, ProductSame
<1>7. ProductOnSet(g, S \cup {x}) = g[x] * ProductOnSet(g, S)
  BY <1>1, <1>2, ProductGrows
<1>8. ProductOnSet(h, S \cup {x}) = h[x] * ProductOnSet(h, S)
  BY <1>1, <1>2, ProductGrows
<1>9. ProductOnSet(f, S) \in Nat
  BY <1>1, <1>5, ProductParts
<1>10. QED
  BY <1>1, <1>3, <1>4, <1>6, <1>7, <1>8, <1>9 DEF U

\* The choices sum up to a number.
LEMMA ChoicesFinite ==
  ASSUME probWeight \in [Ranks -> Nat], NEW v \in Nat, NEW S \in SUBSET Ranks
  PROVE  /\ IsFiniteSet(SUBSET S)
         /\ \A T \in SUBSET S : ChoiceWeight(S, T, v) \in Nat
         /\ \A n \in Int : /\ AllChoices(S, n, v) \in Nat
                           /\ (n < 0 \/ n > Cardinality(S)) => AllChoices(S, n, v) = 0
<1>1. IsFiniteSet(S) /\ IsFiniteSet(SUBSET S) /\ Cardinality(S) \in Nat
  BY FiniteRanks, FS_SUBSET
<1>2. ASSUME NEW T \in SUBSET S PROVE ChoiceWeight(S, T, v) \in Nat
  <2> DEFINE f == [e \in S |-> IF e \in T THEN probWeight[e] ELSE v]
  <2>1. \A e \in S : f[e] \in Nat
    OBVIOUS
  <2> HIDE DEF f
  <2>2. ProductOnSet(f, S) \in Nat
    BY <1>1, <2>1, ProductParts
  <2>3. QED
    BY <2>2 DEF ChoiceWeight, f
<1>3. ASSUME NEW n \in Int
      PROVE  /\ AllChoices(S, n, v) \in Nat
             /\ (n < 0 \/ n > Cardinality(S)) => AllChoices(S, n, v) = 0
  <2> DEFINE f == [T \in SUBSET S |-> ChoiceWeight(S, T, v)]
             C == kSubset(n, S)
  <2>1. C \in SUBSET SUBSET S /\ \A T \in SUBSET S : f[T] \in Nat
    BY <1>2 DEF kSubset
  <2>2. AllChoices(S, n, v) = SumFunctionOnSet(f, C)
    BY DEF AllChoices
  <2>3. n < 0 \/ n > Cardinality(S) => C = {}
    <3>1. ASSUME NEW T \in SUBSET S
          PROVE  Cardinality(T) \in Nat /\ Cardinality(T) <= Cardinality(S)
      BY <1>1, FS_Subset, FS_CardinalityType
    <3>2. ASSUME n < 0 \/ n > Cardinality(S), NEW T \in SUBSET S PROVE Cardinality(T) # n
      BY <1>1, <3>1, <3>2
    <3>3. QED
      BY <3>2 DEF kSubset
  <2> HIDE DEF f, C
  <2>4. SumFunctionOnSet(f, C) \in Nat /\ SumFunctionOnSet(f, {}) = 0
    BY <1>1, <2>1, SumGrows, SumParts
  <2>5. QED
    BY <2>2, <2>3, <2>4
<1>4. QED
  BY <1>1, <1>2, <1>3

\* The choices from no expert, and from one more.
LEMMA ChoicesOfNone ==
  ASSUME probWeight \in [Ranks -> Nat], NEW v \in Nat, NEW n \in Int
  PROVE  AllChoices({}, n, v) = IF n = 0 THEN 1 ELSE 0
<1>1. Cardinality({}) = 0 /\ IsFiniteSet({}) /\ {} \in SUBSET Ranks
  BY FS_EmptySet
<1>2. CASE n # 0
  <2>1. \A m \in Int : (m < 0 \/ m > Cardinality({})) => AllChoices({}, m, v) = 0
    BY <1>1, ChoicesFinite
  <2>2. n < 0 \/ n > Cardinality({})
    BY <1>1, <1>2
  <2>3. QED
    BY <1>2, <2>1, <2>2
<1>3. CASE n = 0
  <2> DEFINE f == [T \in SUBSET {} |-> ChoiceWeight({}, T, v)]
             c == [e \in {} |-> IF e \in {} THEN probWeight[e] ELSE v]
  <2>1. kSubset(n, {}) = {{}}
    BY <1>1, <1>3 DEF kSubset
  <2>2. ChoiceWeight({}, {}, v) = ProductOnSet(c, {})
    BY DEF ChoiceWeight
  <2>3. \A e \in {} : c[e] \in Nat
    OBVIOUS
  <2>4. ProductOnSet(c, {}) = 1
    <3> HIDE DEF c
    <3>1. QED
      BY <1>1, <2>3, ProductParts
  <2>5. IsFiniteSet({{}}) /\ f[{}] = 1 /\ {{}} \ {{}} = {}
    BY <2>2, <2>4, FS_Singleton
  <2>6. AllChoices({}, n, v) = SumFunctionOnSet(f, {{}})
    BY <2>1 DEF AllChoices
  <2> HIDE DEF f
  <2>7. SumFunctionOnSet(f, {}) = 0
        /\ SumFunctionOnSet(f, {{}}) = f[{}] + SumFunctionOnSet(f, {{}} \ {{}})
    <3>1. \A T \in {{}} : f[T] \in Nat
      BY <2>5
    <3>2. QED
      BY <2>5, <3>1, SumParts
  <2>8. SumFunctionOnSet(f, {{}}) = 1 + 0
    BY <2>5, <2>7
  <2>9. QED
    BY <1>3, <2>6, <2>8
<1>4. QED
  BY <1>2, <1>3

\* Of one more expert: the choices without it, and those with it.
LEMMA ChoicesOfOneMore ==
  ASSUME probWeight \in [Ranks -> Nat], NEW v \in Nat,
         NEW S \in SUBSET Ranks, NEW x \in Ranks \ S, NEW n \in Int
  PROVE  AllChoices(S \cup {x}, n, v)
           = v * AllChoices(S, n, v) + probWeight[x] * AllChoices(S, n - 1, v)
<1> DEFINE U == S \cup {x}
           f == [T \in SUBSET U |-> ChoiceWeight(U, T, v)]
           g == [T \in SUBSET S |-> ChoiceWeight(S, T, v)]
           b == [T \in SUBSET S |-> T \cup {x}]
           h == [T \in SUBSET S |-> probWeight[x] * ChoiceWeight(S, T, v)]
           A == kSubset(n, S)
           B == kSubset(n - 1, S)
           I == {b[T] : T \in B}
<1>1. U \in SUBSET Ranks /\ IsFiniteSet(S) /\ IsFiniteSet(U)
      /\ IsFiniteSet(SUBSET S) /\ IsFiniteSet(SUBSET U)
  <2>1. U \in SUBSET Ranks
    OBVIOUS
  <2>2. QED
    BY <2>1, FiniteRanks, FS_SUBSET
<1>2. \A T \in SUBSET S :
        /\ T \in SUBSET U /\ b[T] \in SUBSET U /\ g[T] \in Nat
        /\ f[T] = v * g[T] /\ f[b[T]] = h[T] /\ h[T] = probWeight[x] * g[T]
  BY OneMoreFactor
<1>3. A \in SUBSET SUBSET S /\ B \in SUBSET SUBSET S
  BY DEF kSubset
<1>4. \A T \in SUBSET U : f[T] \in Nat
  BY <1>1, ChoicesFinite
<1>5. \A T, V \in SUBSET S : b[T] = b[V] => T = V
  <2>1. ASSUME NEW T \in SUBSET S PROVE b[T] \ {x} = T
    OBVIOUS
  <2> HIDE DEF b
  <2>2. QED
    BY <2>1
<1>6. kSubset(n, U) = A \cup I
  <2>1. ASSUME NEW T \in A PROVE T \in kSubset(n, U)
    BY DEF kSubset
  <2>2. ASSUME NEW T \in B PROVE b[T] \in kSubset(n, U)
    <3>1. T \in SUBSET S /\ Cardinality(T) = n - 1
      BY DEF kSubset
    <3>2. IsFiniteSet(T) /\ x \notin T
      BY <1>1, <3>1, FS_Subset
    <3>3. Cardinality(T \cup {x}) = (n - 1) + 1
      BY <3>1, <3>2, FS_AddElement
    <3>4. b[T] = T \cup {x} /\ b[T] \in SUBSET U
      BY <3>1
    <3>5. QED
      BY <3>3, <3>4 DEF kSubset
  <2>3. ASSUME NEW T \in kSubset(n, U) PROVE T \in A \cup I
    <3>1. T \in SUBSET U /\ Cardinality(T) = n
      BY DEF kSubset
    <3>2. CASE x \notin T
      BY <3>1, <3>2 DEF kSubset
    <3>3. CASE x \in T
      <4>1. T \ {x} \in SUBSET S /\ b[T \ {x}] = T
        BY <3>1, <3>3
      <4>2. IsFiniteSet(T)
        BY <1>1, <3>1, FS_Subset
      <4>3. Cardinality(T \ {x}) = n - 1
        BY <3>1, <3>3, <4>2, FS_RemoveElement
      <4>4. T \ {x} \in B
        BY <4>1, <4>3 DEF kSubset
      <4>5. QED
        BY <4>1, <4>4
    <3>4. QED
      BY <3>2, <3>3
  <2> HIDE DEF A, B, b, U
  <2>4. QED
    BY <2>1, <2>2, <2>3
<1>7. A \cap I = {} /\ A \in SUBSET SUBSET U /\ I \in SUBSET SUBSET U
  <2>1. \A T \in B : x \in b[T] /\ b[T] \in SUBSET U
    BY <1>2, <1>3
  <2>2. \A T \in A : x \notin T /\ T \in SUBSET U
    BY <1>3
  <2> HIDE DEF A, B, b, U
  <2>3. QED
    BY <2>1, <2>2
<1>8. AllChoices(U, n, v) = SumFunctionOnSet(f, kSubset(n, U))
  BY DEF AllChoices
<1>9. AllChoices(S, n, v) = SumFunctionOnSet(g, A)
      /\ AllChoices(S, n - 1, v) = SumFunctionOnSet(g, B)
  BY DEF AllChoices
<1> HIDE DEF f, g, h, b, A, B, U
<1>10. SumFunctionOnSet(f, A \cup I) = SumFunctionOnSet(f, A) + SumFunctionOnSet(f, I)
  <2> HIDE DEF I
  <2>1. QED
    BY <1>1, <1>4, <1>7, SumUnion
<1>11. IsFiniteSet(A) /\ IsFiniteSet(B)
  BY <1>1, <1>3, FS_Subset
<1>12. SumFunctionOnSet(f, A) = v * SumFunctionOnSet(g, A)
  <2>1. \A T \in A : g[T] \in Nat /\ f[T] = v * g[T]
    BY <1>2, <1>3
  <2>2. QED
    BY <1>11, <2>1, SumScales
<1>13. SumFunctionOnSet(f, I) = SumFunctionOnSet(h, B)
  <2>1. \A T \in B : f[b[T]] \in Nat /\ h[T] = f[b[T]]
    BY <1>2, <1>3, <1>4
  <2>2. \A T, V \in B : b[T] = b[V] => T = V
    BY <1>3, <1>5
  <2>3. QED
    BY <1>11, <2>1, <2>2, SumOverImage
<1>14. SumFunctionOnSet(h, B) = probWeight[x] * SumFunctionOnSet(g, B)
  <2>1. \A T \in B : g[T] \in Nat /\ h[T] = probWeight[x] * g[T]
    BY <1>2, <1>3
  <2>2. probWeight[x] \in Nat
    OBVIOUS
  <2>3. QED
    BY <1>11, <2>1, <2>2, SumScales
<1>15. QED
  BY <1>6, <1>8, <1>9, <1>10, <1>12, <1>13, <1>14 DEF U

\* A sum over one element.
LEMMA SumOfOne ==
  ASSUME NEW f, NEW a, f[a] \in Nat
  PROVE  SumFunctionOnSet(f, {a}) = f[a]
<1>1. IsFiniteSet({a}) /\ (\A x \in {a} : f[x] \in Nat) /\ {a} \ {a} = {}
  BY FS_Singleton
<1>2. /\ SumFunctionOnSet(f, {}) = 0
      /\ SumFunctionOnSet(f, {a}) = f[a] + SumFunctionOnSet(f, {a} \ {a})
  BY <1>1, SumParts
<1>3. SumFunctionOnSet(f, {a}) = f[a] + 0
  BY <1>1, <1>2
<1>4. QED
  BY <1>3

\* A product with a sum of two products.
LEMMA Distributes ==
  ASSUME NEW a \in Nat, NEW b \in Nat, NEW c \in Nat, NEW v \in Nat, NEW w \in Nat
  PROVE  a * (v * b + w * c) = v * (a * b) + w * (a * c)
  OBVIOUS

\* A choice from two sets apart is a choice from each.
LEMMA ChoicesOfBoth ==
  ASSUME probWeight \in [Ranks -> Nat], NEW v \in Nat,
         NEW S \in SUBSET Ranks, NEW T \in SUBSET Ranks, S \cap T = {}
  PROVE  \A n \in Int : AllChoices(S \cup T, n, v)
           = SumFunctionOnSet([m \in 0..n |-> AllChoices(S, m, v) * AllChoices(T, n - m, v)],
                              0..n)
<1> DEFINE P(V, k) == [m \in 0..k |-> AllChoices(S, m, v) * AllChoices(V, k - m, v)]
           G == {V \in SUBSET T : \A k \in Int : AllChoices(S \cup V, k, v)
                                                   = SumFunctionOnSet(P(V, k), 0..k)}
<1>1. \A k \in Int : IsFiniteSet(0..k)
  BY FS_Interval
<1>2. \A V \in SUBSET Ranks : \A k \in Int :
        AllChoices(V, k, v) \in Nat /\ (k < 0 => AllChoices(V, k, v) = 0)
  BY ChoicesFinite
<1>3. ASSUME NEW V \in SUBSET T, NEW k \in Int
      PROVE  /\ \A m \in 0..k : P(V, k)[m] = AllChoices(S, m, v) * AllChoices(V, k - m, v)
             /\ \A m \in 0..k : P(V, k)[m] \in Nat
             /\ k < 0 => AllChoices(S \cup V, k, v) = SumFunctionOnSet(P(V, k), 0..k)
  <2>1. \A m \in 0..k : P(V, k)[m] = AllChoices(S, m, v) * AllChoices(V, k - m, v)
    OBVIOUS
  <2>2. ASSUME NEW m \in 0..k
        PROVE  AllChoices(S, m, v) * AllChoices(V, k - m, v) \in Nat
    <3>1. V \in SUBSET Ranks /\ m \in Int /\ k - m \in Int
      OBVIOUS
    <3>2. AllChoices(S, m, v) \in Nat /\ AllChoices(V, k - m, v) \in Nat
      BY <1>2, <3>1
    <3>3. QED
      BY <3>2
  <2> HIDE DEF P
  <2>3. \A m \in 0..k : P(V, k)[m] \in Nat
    BY <2>1, <2>2
  <2>4. ASSUME k < 0 PROVE AllChoices(S \cup V, k, v) = SumFunctionOnSet(P(V, k), 0..k)
    <3>1. 0..k = {} /\ S \cup V \in SUBSET Ranks
      BY <2>4
    <3>2. SumFunctionOnSet(P(V, k), {}) = 0
      BY <1>1, <2>3, SumParts
    <3>3. AllChoices(S \cup V, k, v) = 0
      BY <1>2, <2>4, <3>1
    <3>4. QED
      BY <3>1, <3>2, <3>3
  <2>5. QED
    BY <2>1, <2>3, <2>4
<1> HIDE DEF P
<1>4. {} \in G
  <2>1. ASSUME NEW k \in Int, k >= 0
        PROVE  AllChoices(S \cup {}, k, v) = SumFunctionOnSet(P({}, k), 0..k)
    <3>1. {k} \in SUBSET (0..k) /\ {} \in SUBSET T /\ k \in 0..k /\ S \cup {} = S
      BY <2>1
    <3>2. ASSUME NEW m \in (0..k) \ {k} PROVE P({}, k)[m] = 0
      <4>1. k - m \in Int /\ k - m # 0 /\ m \in Int /\ m \in 0..k
        BY <2>1
      <4>2. AllChoices({}, k - m, v) = 0
        BY <4>1, ChoicesOfNone
      <4>3. P({}, k)[m] = AllChoices(S, m, v) * 0
        BY <1>3, <3>1, <4>1, <4>2
      <4>4. AllChoices(S, m, v) \in Nat
        BY <1>2, <4>1
      <4>5. QED
        BY <4>3, <4>4
    <3>3. P({}, k)[k] = AllChoices(S, k, v) /\ AllChoices(S, k, v) \in Nat
      <4>1. k - k = 0 /\ 0 \in Int
        OBVIOUS
      <4>2. AllChoices({}, 0, v) = 1
        BY <4>1, ChoicesOfNone
      <4>3. P({}, k)[k] = AllChoices(S, k, v) * AllChoices({}, k - k, v)
        BY <1>3, <3>1
      <4>4. AllChoices(S, k, v) \in Nat
        BY <1>2
      <4>5. QED
        BY <4>1, <4>2, <4>3, <4>4
    <3>4. \A m \in 0..k : P({}, k)[m] \in Nat
      BY <1>3, <3>1
    <3>5. SumFunctionOnSet(P({}, k), 0..k) = SumFunctionOnSet(P({}, k), {k})
      BY <1>1, <3>1, <3>2, <3>4, SumOfZeros
    <3>6. SumFunctionOnSet(P({}, k), {k}) = P({}, k)[k]
      BY <3>3, SumOfOne
    <3>7. QED
      BY <3>1, <3>3, <3>5, <3>6
  <2>2. \A k \in Int : k < 0 => AllChoices(S \cup {}, k, v) = SumFunctionOnSet(P({}, k), 0..k)
    BY <1>3
  <2>3. QED
    BY <2>1, <2>2
<1>5. ASSUME NEW V \in SUBSET T, NEW x \in T \ V, V \in G PROVE V \cup {x} \in G
  <2> DEFINE X == V \cup {x}
             w == probWeight[x]
  <2>1. /\ V \in SUBSET Ranks /\ X \in SUBSET T /\ S \cup V \in SUBSET Ranks
        /\ x \in Ranks \ V /\ x \in Ranks \ (S \cup V) /\ S \cup X = (S \cup V) \cup {x}
        /\ w \in Nat
    OBVIOUS
  <2> HIDE DEF X, w
  <2>2. ASSUME NEW k \in Int, k >= 0
        PROVE  AllChoices(S \cup X, k, v) = SumFunctionOnSet(P(X, k), 0..k)
    <3> DEFINE q == [m \in 0..k |-> AllChoices(S, m, v) * AllChoices(V, (k - 1) - m, v)]
               hv == [m \in 0..k |-> v * P(V, k)[m]]
               hw == [m \in 0..k |-> w * q[m]]
    <3>1. \A m \in 0..k : /\ m \in Int /\ k - m \in Int /\ (k - 1) - m \in Int
                          /\ (k - m) - 1 = (k - 1) - m
      OBVIOUS
    <3>2. AllChoices(S \cup X, k, v)
            = v * AllChoices(S \cup V, k, v) + w * AllChoices(S \cup V, k - 1, v)
      BY <2>1, ChoicesOfOneMore DEF w
    <3>3. \A m \in 0..k : AllChoices(X, k - m, v)
            = v * AllChoices(V, k - m, v) + w * AllChoices(V, (k - 1) - m, v)
      <4>1. ASSUME NEW m \in 0..k
            PROVE  AllChoices(X, k - m, v)
                     = v * AllChoices(V, k - m, v) + w * AllChoices(V, (k - m) - 1, v)
        <5>1. k - m \in Int
          OBVIOUS
        <5>2. \A i \in Int :
                AllChoices(V \cup {x}, i, v)
                  = v * AllChoices(V, i, v) + probWeight[x] * AllChoices(V, i - 1, v)
          BY <2>1, ChoicesOfOneMore
        <5>3. \A i \in Int :
                AllChoices(X, i, v) = v * AllChoices(V, i, v) + w * AllChoices(V, i - 1, v)
          BY <5>2 DEF w, X
        <5>4. QED
          BY <5>1, <5>3
      <4>2. QED
        BY <3>1, <4>1
    <3>4. \A m \in 0..k : /\ AllChoices(S, m, v) \in Nat /\ AllChoices(V, k - m, v) \in Nat
                          /\ AllChoices(V, (k - 1) - m, v) \in Nat
      BY <1>2, <2>1, <3>1
    <3>5. \A m \in 0..k : /\ P(V, k)[m] = AllChoices(S, m, v) * AllChoices(V, k - m, v)
                          /\ P(X, k)[m] = AllChoices(S, m, v) * AllChoices(X, k - m, v)
                          /\ P(V, k)[m] \in Nat /\ P(X, k)[m] \in Nat
      BY <1>3, <2>1
    <3>6. \A m \in 0..k : q[m] = AllChoices(S, m, v) * AllChoices(V, (k - 1) - m, v)
      OBVIOUS
    <3>7. \A m \in 0..k : hv[m] = v * P(V, k)[m] /\ hw[m] = w * q[m]
      OBVIOUS
    <3> HIDE DEF q, hv, hw
    <3>8. \A m \in 0..k : /\ q[m] \in Nat /\ hv[m] \in Nat /\ hw[m] \in Nat
                          /\ P(X, k)[m] = hv[m] + hw[m]
      <4>1. ASSUME NEW m \in 0..k
            PROVE  /\ q[m] \in Nat /\ hv[m] \in Nat /\ hw[m] \in Nat
                   /\ P(X, k)[m] = hv[m] + hw[m]
        <5> DEFINE a == AllChoices(S, m, v)
                   b == AllChoices(V, k - m, v)
                   c == AllChoices(V, (k - 1) - m, v)
        <5>1. a \in Nat /\ b \in Nat /\ c \in Nat
          BY <3>4
        <5>2. /\ P(X, k)[m] = a * (v * b + w * c)
              /\ hv[m] = v * (a * b) /\ hw[m] = w * (a * c) /\ q[m] = a * c
          BY <3>3, <3>5, <3>6, <3>7
        <5> HIDE DEF a, b, c
        <5>3. a * (v * b + w * c) = v * (a * b) + w * (a * c)
          BY <2>1, <5>1, Distributes
        <5>4. v * (a * b) \in Nat /\ w * (a * c) \in Nat /\ a * c \in Nat
          BY <2>1, <5>1
        <5>5. QED
          BY <5>2, <5>3, <5>4
      <4>2. QED
        BY <4>1
    <3>9. SumFunctionOnSet(P(X, k), 0..k)
            = SumFunctionOnSet(hv, 0..k) + SumFunctionOnSet(hw, 0..k)
      BY <1>1, <3>8, SumAdds
    <3>10. SumFunctionOnSet(hv, 0..k) = v * SumFunctionOnSet(P(V, k), 0..k)
      <4>1. \A m \in 0..k : P(V, k)[m] \in Nat /\ hv[m] = v * P(V, k)[m]
        BY <3>5, <3>7
      <4>2. QED
        BY <1>1, <4>1, SumScales
    <3>11. SumFunctionOnSet(hw, 0..k) = w * SumFunctionOnSet(q, 0..k)
      <4>1. \A m \in 0..k : q[m] \in Nat /\ hw[m] = w * q[m]
        BY <3>7, <3>8
      <4>2. QED
        BY <1>1, <2>1, <4>1, SumScales
    <3>12. SumFunctionOnSet(q, 0..k) = SumFunctionOnSet(P(V, k - 1), 0..(k - 1))
      <4>1. k - 1 \in Int /\ 0..(k - 1) \in SUBSET (0..k)
        BY <2>2
      <4>2. ASSUME NEW m \in (0..k) \ (0..(k - 1)) PROVE q[m] = 0
        <5>1. (k - 1) - m < 0 /\ m \in 0..k
          BY <2>2
        <5>2. AllChoices(V, (k - 1) - m, v) = 0
          BY <1>2, <2>1, <3>1, <5>1
        <5>3. q[m] = AllChoices(S, m, v) * 0
          BY <3>6, <5>1, <5>2
        <5>4. QED
          BY <3>4, <5>1, <5>3
      <4>3. SumFunctionOnSet(q, 0..k) = SumFunctionOnSet(q, 0..(k - 1))
        BY <1>1, <3>8, <4>1, <4>2, SumOfZeros
      <4>4. \A m \in 0..(k - 1) : P(V, k - 1)[m] \in Nat /\ q[m] = P(V, k - 1)[m]
        <5>1. ASSUME NEW m \in 0..(k - 1)
              PROVE  P(V, k - 1)[m] \in Nat /\ q[m] = P(V, k - 1)[m]
          <6>1. m \in 0..k
            BY <4>1
          <6>2. q[m] = AllChoices(S, m, v) * AllChoices(V, (k - 1) - m, v)
            BY <3>6, <6>1
          <6>3. /\ P(V, k - 1)[m] = AllChoices(S, m, v) * AllChoices(V, (k - 1) - m, v)
                /\ P(V, k - 1)[m] \in Nat
            BY <1>3, <4>1
          <6>4. QED
            BY <6>2, <6>3
        <5>2. QED
          BY <5>1
      <4>5. SumFunctionOnSet(q, 0..(k - 1)) = SumFunctionOnSet(P(V, k - 1), 0..(k - 1))
        BY <1>1, <4>1, <4>4, SumSame
      <4>6. QED
        BY <4>3, <4>5
    <3>13. /\ AllChoices(S \cup V, k, v) = SumFunctionOnSet(P(V, k), 0..k)
           /\ AllChoices(S \cup V, k - 1, v) = SumFunctionOnSet(P(V, k - 1), 0..(k - 1))
      <4>1. k - 1 \in Int
        OBVIOUS
      <4>2. QED
        BY <1>5, <4>1
    <3>14. QED
      BY <3>2, <3>9, <3>10, <3>11, <3>12, <3>13
  <2>3. \A k \in Int : k < 0 => AllChoices(S \cup X, k, v) = SumFunctionOnSet(P(X, k), 0..k)
    BY <1>3, <2>1
  <2>4. \A k \in Int : AllChoices(S \cup X, k, v) = SumFunctionOnSet(P(X, k), 0..k)
    <3>1. ASSUME NEW k \in Int
          PROVE  AllChoices(S \cup X, k, v) = SumFunctionOnSet(P(X, k), 0..k)
      <4>1. CASE k >= 0
        BY <2>2, <4>1
      <4>2. CASE k < 0
        BY <2>3, <4>2
      <4>3. QED
        BY <4>1, <4>2
    <3>2. QED
      BY <3>1
  <2>5. QED
    BY <2>1, <2>4 DEF X
<1> HIDE DEF G
<1>6. IsFiniteSet(T)
  BY FiniteRanks
<1>7. \A V \in SUBSET T : V \in G
  BY <1>4, <1>5, <1>6, SetsGrow
<1>8. T \in G
  BY <1>7
<1>9. QED
  BY <1>8 DEF G, P

\* Summed over enough numbers of experts of one set, the others from a set apart.
LEMMA ChoicesByCount ==
  ASSUME probWeight \in [Ranks -> Nat], NEW v \in Nat,
         NEW S \in SUBSET Ranks, NEW T \in SUBSET Ranks, S \cap T = {}, NEW n \in Int,
         NEW N \in Nat, Cardinality(S) <= N, NEW g,
         \A i \in 0..N : g[i] = AllChoices(S, i, v) * AllChoices(T, n - i, v)
  PROVE  /\ \A i \in 0..N : g[i] \in Nat
         /\ SumFunctionOnSet(g, 0..N) = AllChoices(S \cup T, n, v)
<1> DEFINE W == IF n > N THEN n ELSE N
           f == [i \in 0..W |-> AllChoices(S, i, v) * AllChoices(T, n - i, v)]
           h == [i \in 0..n |-> AllChoices(S, i, v) * AllChoices(T, n - i, v)]
<1>1. /\ W \in Nat /\ 0..N \in SUBSET (0..W) /\ 0..n \in SUBSET (0..W)
      /\ \A i \in (0..W) \ (0..N) : i > N
      /\ \A i \in (0..W) \ (0..n) : n - i < 0
      /\ \A i \in 0..W : i \in Int /\ n - i \in Int
  OBVIOUS
<1>2. \A i \in Int : /\ AllChoices(S, i, v) \in Nat /\ AllChoices(T, i, v) \in Nat
                     /\ i < 0 => AllChoices(T, i, v) = 0
                     /\ i > Cardinality(S) => AllChoices(S, i, v) = 0
  BY ChoicesFinite
<1>3. Cardinality(S) \in Nat
  BY FiniteRanks
<1>4. /\ \A i \in 0..W : f[i] = AllChoices(S, i, v) * AllChoices(T, n - i, v)
      /\ \A i \in 0..n : h[i] = AllChoices(S, i, v) * AllChoices(T, n - i, v)
  OBVIOUS
<1>5. AllChoices(S \cup T, n, v) = SumFunctionOnSet(h, 0..n)
  <2>1. \A k \in Int : AllChoices(S \cup T, k, v)
          = SumFunctionOnSet([i \in 0..k |-> AllChoices(S, i, v) * AllChoices(T, k - i, v)],
                             0..k)
    BY ChoicesOfBoth
  <2>2. QED
    BY <2>1
<1>6. IsFiniteSet(0..W) /\ IsFiniteSet(0..N) /\ IsFiniteSet(0..n)
  BY <1>1, FS_Interval
<1> HIDE DEF f, h, W
<1>7. ASSUME NEW i \in 0..W
      PROVE  /\ f[i] \in Nat /\ (i > N => f[i] = 0) /\ (n - i < 0 => f[i] = 0)
  <2>1. AllChoices(S, i, v) \in Nat /\ AllChoices(T, n - i, v) \in Nat
    BY <1>1, <1>2
  <2>2. i > N => AllChoices(S, i, v) = 0
    BY <1>1, <1>2, <1>3
  <2>3. n - i < 0 => AllChoices(T, n - i, v) = 0
    BY <1>1, <1>2
  <2>4. f[i] = AllChoices(S, i, v) * AllChoices(T, n - i, v)
    BY <1>4
  <2>5. \A a \in Nat : a * 0 = 0 /\ 0 * a = 0
    OBVIOUS
  <2>6. QED
    BY <2>1, <2>2, <2>3, <2>4, <2>5
<1>8. SumFunctionOnSet(f, 0..W) = SumFunctionOnSet(f, 0..N)
  <2>1. \A i \in (0..W) \ (0..N) : f[i] = 0
    BY <1>1, <1>7
  <2>2. \A i \in 0..W : f[i] \in Nat
    BY <1>7
  <2>3. QED
    BY <1>1, <1>6, <2>1, <2>2, SumOfZeros
<1>9. SumFunctionOnSet(f, 0..W) = SumFunctionOnSet(f, 0..n)
  <2>1. \A i \in (0..W) \ (0..n) : f[i] = 0
    BY <1>1, <1>7
  <2>2. \A i \in 0..W : f[i] \in Nat
    BY <1>7
  <2>3. QED
    BY <1>1, <1>6, <2>1, <2>2, SumOfZeros
<1>10. \A i \in 0..N : f[i] \in Nat /\ g[i] = f[i]
  BY <1>1, <1>4, <1>7
<1>11. \A i \in 0..n : f[i] \in Nat /\ h[i] = f[i]
  BY <1>1, <1>4, <1>7
<1>12. SumFunctionOnSet(g, 0..N) = SumFunctionOnSet(f, 0..N)
  BY <1>6, <1>10, SumSame
<1>13. SumFunctionOnSet(h, 0..n) = SumFunctionOnSet(f, 0..n)
  BY <1>6, <1>11, SumSame
<1>14. \A i \in 0..N : g[i] \in Nat
  BY <1>10
<1>15. QED
  BY <1>5, <1>8, <1>9, <1>12, <1>13, <1>14

\* The choices of experts from a set, by their number.
Table(S) == [j \in 0..Cardinality(S) |-> AllChoices(S, j, Unit)]

\* A table's entries, and zero past its end.
LEMMA TableOf ==
  ASSUME probWeight \in [Ranks -> Nat], NEW S \in SUBSET Ranks
  PROVE  /\ Unit \in Nat /\ Cardinality(S) \in Nat /\ DOMAIN Table(S) = 0..Cardinality(S)
         /\ \A i \in 0..Cardinality(S) : Table(S)[i] = AllChoices(S, i, Unit)
         /\ \A i \in Int : /\ AllChoices(S, i, Unit) \in Nat
                           /\ i \notin 0..Cardinality(S) => AllChoices(S, i, Unit) = 0
<1>1. Unit \in Nat /\ Cardinality(S) \in Nat
  BY FiniteRanks
<1>2. \A i \in Int : /\ AllChoices(S, i, Unit) \in Nat
                     /\ (i < 0 \/ i > Cardinality(S)) => AllChoices(S, i, Unit) = 0
  BY <1>1, ChoicesFinite
<1>3. \A i \in Int : i \notin 0..Cardinality(S) => i < 0 \/ i > Cardinality(S)
  BY <1>1
<1>4. /\ DOMAIN Table(S) = 0..Cardinality(S)
      /\ \A i \in 0..Cardinality(S) : Table(S)[i] = AllChoices(S, i, Unit)
  BY DEF Table
<1>5. QED
  BY <1>1, <1>2, <1>3, <1>4

\* The convolution of the tables of two sets apart is the table of both.
LEMMA ConvolvedTables ==
  ASSUME probWeight \in [Ranks -> Nat],
         NEW S \in SUBSET Ranks, NEW T \in SUBSET Ranks, S \cap T = {}
  PROVE  Convolve(Table(S), Table(T)) = Table(S \cup T)
<1> DEFINE a == Cardinality(S)
           b == Cardinality(T)
           p == Table(S)
           q == Table(T)
           D == {i + j : i \in DOMAIN p, j \in DOMAIN q}
           E(t) == SumFunctionOnSet(
                     [i \in DOMAIN p |-> IF t - i \in DOMAIN q THEN p[i] * q[t - i] ELSE 0],
                     DOMAIN p)
<1>1. /\ Unit \in Nat /\ a \in Nat /\ b \in Nat /\ DOMAIN p = 0..a /\ DOMAIN q = 0..b
      /\ \A i \in 0..a : p[i] = AllChoices(S, i, Unit)
      /\ \A i \in 0..b : q[i] = AllChoices(T, i, Unit)
      /\ \A i \in Int : AllChoices(S, i, Unit) \in Nat
      /\ \A i \in Int : i \notin 0..b => AllChoices(T, i, Unit) = 0
  BY TableOf
<1>2. S \cup T \in SUBSET Ranks /\ Cardinality(S \cup T) = a + b
  <2>1. IsFiniteSet(S) /\ IsFiniteSet(T)
    BY FiniteRanks
  <2>2. Cardinality(S \cup T) = Cardinality(S) + Cardinality(T) - Cardinality(S \cap T)
    BY <2>1, FS_Union
  <2>3. Cardinality(S \cap T) = 0
    BY FS_EmptySet
  <2>4. QED
    BY <1>1, <2>2, <2>3
<1>3. Convolve(p, q) = [t \in D |-> E(t)]
  BY DEF Convolve
<1> HIDE DEF a, b, p, q
<1>4. D = 0..(a + b)
  <2>1. ASSUME NEW t \in 0..(a + b) PROVE \E i \in 0..a : \E j \in 0..b : t = i + j
    <3>1. CASE t <= a
      <4>1. t \in 0..a /\ 0 \in 0..b /\ t = t + 0
        BY <1>1, <3>1
      <4>2. QED
        BY <4>1
    <3>2. CASE t > a
      <4>1. a \in 0..a /\ t - a \in 0..b /\ t = a + (t - a)
        BY <1>1, <3>2
      <4>2. QED
        BY <4>1
    <3>3. QED
      BY <1>1, <3>1, <3>2
  <2>2. \A i \in 0..a, j \in 0..b : i + j \in 0..(a + b)
    BY <1>1
  <2>3. D = {i + j : i \in 0..a, j \in 0..b}
    BY <1>1
  <2> HIDE DEF D
  <2>4. D \subseteq 0..(a + b)
    BY <2>2, <2>3
  <2>5. \A t \in 0..(a + b) : t \in D
    BY <2>1, <2>3
  <2>6. QED
    BY <2>4, <2>5
<1>5. ASSUME NEW t \in 0..(a + b) PROVE E(t) = AllChoices(S \cup T, t, Unit)
  <2> DEFINE g == [i \in 0..a |-> IF t - i \in 0..b THEN p[i] * q[t - i] ELSE 0]
  <2>1. t \in Int /\ \A i \in 0..a : i \in Int /\ t - i \in Int
    BY <1>1
  <2>2. ASSUME NEW i \in 0..a
        PROVE  g[i] = AllChoices(S, i, Unit) * AllChoices(T, t - i, Unit)
    <3>1. CASE t - i \in 0..b
      BY <1>1, <2>1, <3>1
    <3>2. CASE t - i \notin 0..b
      <4>1. AllChoices(T, t - i, Unit) = 0 /\ AllChoices(S, i, Unit) \in Nat
        BY <1>1, <2>1, <3>2
      <4>2. g[i] = 0
        BY <3>2
      <4> HIDE DEF g
      <4>3. QED
        BY <4>1, <4>2
    <3>3. QED
      BY <3>1, <3>2
  <2>3. E(t) = SumFunctionOnSet(g, 0..a)
    BY <1>1
  <2> HIDE DEF g
  <2>4. SumFunctionOnSet(g, 0..a) = AllChoices(S \cup T, t, Unit)
    <3>1. Cardinality(S) <= a /\ a \in Nat
      BY <1>1 DEF a
    <3>2. \A i \in 0..a : g[i] = AllChoices(S, i, Unit) * AllChoices(T, t - i, Unit)
      BY <2>2
    <3>3. Unit \in Nat /\ t \in Int /\ S \in SUBSET Ranks /\ T \in SUBSET Ranks
      BY <1>1, <2>1
    <3>4. QED
      BY <3>1, <3>2, <3>3, ChoicesByCount
  <2>5. QED
    BY <2>3, <2>4
<1> HIDE DEF D, E
<1>6. [t \in D |-> E(t)] = [t \in 0..(a + b) |-> AllChoices(S \cup T, t, Unit)]
  BY <1>4, <1>5
<1>7. QED
  BY <1>2, <1>3, <1>6 DEF Table, p, q

------------------------------------------------------------------------------
(* The tables that leave an expert out. *)

\* There is one choice of no expert, and it weighs 1 if the others do.
LEMMA ChoiceOfZero ==
  ASSUME probWeight \in [Ranks -> Nat], NEW S \in SUBSET Ranks
  PROVE  AllChoices(S, 0, 1) = 1
<1> DEFINE G == {T \in SUBSET S : AllChoices(T, 0, 1) = 1}
<1>1. {} \in G
  BY ChoicesOfNone
<1>2. ASSUME NEW T \in SUBSET S, NEW x \in S \ T, T \in G PROVE T \cup {x} \in G
  <2>1. \A k \in Int : AllChoices(T \cup {x}, k, 1)
          = 1 * AllChoices(T, k, 1) + probWeight[x] * AllChoices(T, k - 1, 1)
    <3>1. T \in SUBSET Ranks /\ x \in Ranks \ T /\ 1 \in Nat
      OBVIOUS
    <3>2. QED
      BY <3>1, ChoicesOfOneMore
  <2>2. AllChoices(T, 0 - 1, 1) = 0
    <3>1. \A k \in Int : k < 0 => AllChoices(T, k, 1) = 0
      BY ChoicesFinite
    <3>2. QED
      BY <3>1
  <2>3. AllChoices(T \cup {x}, 0, 1)
          = 1 * AllChoices(T, 0, 1) + probWeight[x] * AllChoices(T, 0 - 1, 1)
    <3>1. 0 \in Int
      OBVIOUS
    <3> HIDE DEF G
    <3>2. QED
      BY <2>1, <3>1
  <2>4. QED
    BY <1>2, <2>2, <2>3
<1> HIDE DEF G
<1>3. IsFiniteSet(S)
  BY FiniteRanks
<1>4. \A T \in SUBSET S : T \in G
  BY <1>1, <1>2, <1>3, SetsGrow
<1>5. QED
  BY <1>4 DEF G

\* A row of the tables for one expert more.
LEMMA OneMoreRow ==
  ASSUME probWeight \in [Ranks -> Nat], NEW S \in SUBSET Ranks, NEW x \in Ranks \ S
  PROVE  OneMore([m \in 0..PerToken |-> AllChoices(S, m, 1)], probWeight[x])
           = [m \in 0..PerToken |-> AllChoices(S \cup {x}, m, 1)]
<1> DEFINE row == [m \in 0..PerToken |-> AllChoices(S, m, 1)]
<1>1. PerToken \in Nat /\ 1 \in Nat
  BY FiniteRanks
<1>2. \A k \in Int : AllChoices(S \cup {x}, k, 1)
        = 1 * AllChoices(S, k, 1) + probWeight[x] * AllChoices(S, k - 1, 1)
  BY <1>1, ChoicesOfOneMore
<1>3. \A k \in Int : AllChoices(S, k, 1) \in Nat
  BY <1>1, ChoicesFinite
<1>4. AllChoices(S \cup {x}, 0, 1) = 1
  <2>1. S \cup {x} \in SUBSET Ranks
    OBVIOUS
  <2>2. QED
    BY <2>1, ChoiceOfZero
<1>5. ASSUME NEW m \in 0..PerToken
      PROVE  (IF m = 0 THEN 1 ELSE row[m] + (probWeight[x] * row[m - 1]))
               = AllChoices(S \cup {x}, m, 1)
  <2>1. CASE m = 0
    BY <1>4, <2>1
  <2>2. CASE m # 0
    <3>1. m \in Int /\ m - 1 \in 0..PerToken
      BY <1>1, <2>2
    <3>2. row[m] = AllChoices(S, m, 1) /\ row[m - 1] = AllChoices(S, m - 1, 1)
      BY <3>1
    <3> HIDE DEF row
    <3>3. AllChoices(S \cup {x}, m, 1)
            = 1 * AllChoices(S, m, 1) + probWeight[x] * AllChoices(S, m - 1, 1)
      BY <1>2, <3>1
    <3>4. AllChoices(S, m, 1) \in Nat
      BY <1>3, <3>1
    <3>5. 1 * AllChoices(S, m, 1) = AllChoices(S, m, 1)
      BY <3>4
    <3>6. QED
      BY <2>2, <3>2, <3>3, <3>5
  <2>3. QED
    BY <2>1, <2>2
<1> HIDE DEF row
<1>6. OneMore(row, probWeight[x]) = [m \in 0..PerToken |-> AllChoices(S \cup {x}, m, 1)]
  BY <1>5 DEF OneMore
<1>7. QED
  BY <1>6 DEF row

\* No expert taken from none.
LEMMA EmptyRow ==
  ASSUME probWeight \in [Ranks -> Nat]
  PROVE  NoneTaken = [m \in 0..PerToken |-> AllChoices({}, m, 1)]
<1>1. \A m \in Int : AllChoices({}, m, 1) = IF m = 0 THEN 1 ELSE 0
  BY ChoicesOfNone
<1>2. \A m \in 0..PerToken : m \in Int
  BY FiniteRanks
<1>3. QED
  BY <1>1, <1>2 DEF NoneTaken

\* The forward table holds the choices of the experts before.
LEMMA TableBefore ==
  ASSUME probWeight \in [Ranks -> Nat]
  PROVE  \A j \in 0..RankedExperts : dp[j] = [m \in 0..PerToken |-> AllChoices(1..j, m, 1)]
<1> DEFINE row(j) == [m \in 0..PerToken |-> AllChoices(1..j, m, 1)]
           s == [j \in 0..RankedExperts |-> row(j)]
           Body(F) == [j \in 0..RankedExperts |->
                         IF j = 0 THEN NoneTaken ELSE OneMore(F[j - 1], probWeight[j])]
<1>1. dp = CHOOSE F : F = Body(F)
  BY DEF dp
<1>2. RankedExperts \in Nat
  BY FiniteRanks
<1>3. row(0) = NoneTaken
  <2>1. 1..0 = {}
    OBVIOUS
  <2>2. QED
    BY <2>1, EmptyRow
<1>4. ASSUME NEW j \in 0..RankedExperts, j # 0 PROVE row(j) = OneMore(row(j - 1), probWeight[j])
  <2>1. /\ 1..(j - 1) \in SUBSET Ranks /\ j \in Ranks \ (1..(j - 1))
        /\ (1..(j - 1)) \cup {j} = 1..j
    BY <1>2, <1>4 DEF Ranks
  <2>2. OneMore(row(j - 1), probWeight[j])
          = [m \in 0..PerToken |-> AllChoices((1..(j - 1)) \cup {j}, m, 1)]
    BY <2>1, OneMoreRow
  <2>3. QED
    BY <2>1, <2>2
<1> HIDE DEF row
<1>5. \A j \in 0..RankedExperts : j # 0 => j - 1 \in 0..RankedExperts
  BY <1>2
<1>6. s = Body(s)
  BY <1>3, <1>4, <1>5
<1> HIDE DEF Body, s
<1>7. dp = Body(dp)
  BY <1>1, <1>6
<1> DEFINE G == {n \in Nat : n <= RankedExperts => dp[n] = row(n)}
<1>8. /\ dp[0] = NoneTaken
      /\ \A j \in 0..RankedExperts : j # 0 => dp[j] = OneMore(dp[j - 1], probWeight[j])
  <2>1. \A j \in 0..RankedExperts :
          dp[j] = IF j = 0 THEN NoneTaken ELSE OneMore(dp[j - 1], probWeight[j])
    BY <1>7 DEF Body
  <2>2. 0 \in 0..RankedExperts
    BY <1>2
  <2>3. QED
    BY <2>1, <2>2
<1>9. 0 \in G
  BY <1>3, <1>8
<1>10. ASSUME NEW n \in Nat, n \in G PROVE n + 1 \in G
  <2>1. ASSUME n + 1 <= RankedExperts PROVE dp[n + 1] = row(n + 1)
    <3>1. n <= RankedExperts /\ n + 1 \in 0..RankedExperts /\ n + 1 # 0 /\ (n + 1) - 1 = n
      BY <1>2, <2>1
    <3>2. dp[n] = row(n)
      BY <1>10, <3>1
    <3>3. dp[n + 1] = OneMore(dp[n], probWeight[n + 1])
      BY <1>8, <3>1
    <3>4. row(n + 1) = OneMore(row(n), probWeight[n + 1])
      BY <1>4, <3>1
    <3>5. QED
      BY <3>2, <3>3, <3>4
  <2>2. QED
    BY <2>1
<1> HIDE DEF G
<1>11. \A n \in Nat : n \in G
  BY <1>9, <1>10, Numbers
<1>12. \A j \in 0..RankedExperts : dp[j] = row(j)
  BY <1>2, <1>11 DEF G
<1>13. QED
  BY <1>12 DEF row

\* The backward table holds those of the experts after.
LEMMA TableAfter ==
  ASSUME probWeight \in [Ranks -> Nat]
  PROVE  \A j \in 1..(RankedExperts + 1) :
           b_dp[j] = [m \in 0..PerToken |-> AllChoices(j..RankedExperts, m, 1)]
<1> DEFINE L == RankedExperts + 1
           row(j) == [m \in 0..PerToken |-> AllChoices(j..RankedExperts, m, 1)]
           s == [j \in 1..(RankedExperts + 1) |-> row(j)]
           Body(F) == [j \in 1..(RankedExperts + 1) |->
                         IF j = RankedExperts + 1 THEN NoneTaken
                         ELSE OneMore(F[j + 1], probWeight[j])]
<1>1. b_dp = CHOOSE F : F = Body(F)
  BY DEF b_dp
<1>2. RankedExperts \in Nat
  BY FiniteRanks
<1>3. row(RankedExperts + 1) = NoneTaken
  <2>1. (RankedExperts + 1)..RankedExperts = {}
    BY <1>2
  <2>2. QED
    BY <2>1, EmptyRow
<1>4. ASSUME NEW j \in 1..(RankedExperts + 1), j # RankedExperts + 1
      PROVE  row(j) = OneMore(row(j + 1), probWeight[j])
  <2>1. /\ (j + 1)..RankedExperts \in SUBSET Ranks
        /\ j \in Ranks \ ((j + 1)..RankedExperts)
        /\ ((j + 1)..RankedExperts) \cup {j} = j..RankedExperts
    BY <1>2, <1>4 DEF Ranks
  <2>2. OneMore(row(j + 1), probWeight[j])
          = [m \in 0..PerToken |-> AllChoices(((j + 1)..RankedExperts) \cup {j}, m, 1)]
    BY <2>1, OneMoreRow
  <2>3. QED
    BY <2>1, <2>2
<1> HIDE DEF row
<1>5. \A j \in 1..(RankedExperts + 1) :
        j # RankedExperts + 1 => j + 1 \in 1..(RankedExperts + 1)
  BY <1>2
<1>6. s = Body(s)
  BY <1>3, <1>4, <1>5
<1> HIDE DEF Body, s
<1>7. b_dp = Body(b_dp)
  BY <1>1, <1>6
<1>8. \A j \in 1..(RankedExperts + 1) :
        b_dp[j] = IF j = RankedExperts + 1 THEN NoneTaken
                  ELSE OneMore(b_dp[j + 1], probWeight[j])
  BY <1>7 DEF Body
<1> DEFINE G == {n \in Nat : n <= RankedExperts => b_dp[L - n] = row(L - n)}
<1>9. 0 \in G
  <2>1. L - 0 = RankedExperts + 1 /\ RankedExperts + 1 \in 1..(RankedExperts + 1)
    BY <1>2
  <2>2. QED
    BY <1>3, <1>8, <2>1
<1>10. ASSUME NEW n \in Nat, n \in G PROVE n + 1 \in G
  <2>1. ASSUME n + 1 <= RankedExperts PROVE b_dp[L - (n + 1)] = row(L - (n + 1))
    <3> DEFINE j == L - (n + 1)
    <3>1. /\ n <= RankedExperts /\ j \in 1..(RankedExperts + 1) /\ j # RankedExperts + 1
          /\ j + 1 = L - n
      BY <1>2, <2>1
    <3> HIDE DEF j
    <3>2. b_dp[j + 1] = row(j + 1)
      BY <1>10, <3>1
    <3>3. b_dp[j] = OneMore(b_dp[j + 1], probWeight[j])
      BY <1>8, <3>1
    <3>4. row(j) = OneMore(row(j + 1), probWeight[j])
      BY <1>4, <3>1
    <3>5. b_dp[j] = row(j)
      BY <3>2, <3>3, <3>4
    <3>6. QED
      BY <3>5 DEF j
  <2>2. QED
    BY <2>1
<1> HIDE DEF G
<1>11. \A n \in Nat : n \in G
  BY <1>9, <1>10, Numbers
<1>12. ASSUME NEW j \in 1..(RankedExperts + 1) PROVE b_dp[j] = row(j)
  <2>1. L - j \in Nat /\ L - j <= RankedExperts /\ L - (L - j) = j
    BY <1>2
  <2>2. b_dp[L - (L - j)] = row(L - (L - j))
    BY <1>11, <2>1 DEF G
  <2>3. QED
    BY <2>1, <2>2
<1>13. QED
  BY <1>12 DEF row

\* Leaving out one expert, the two tables together give all choices of the others.
LEMMA LeavingOneOut ==
  ASSUME probWeight \in [Ranks -> Nat], NEW i \in Ranks
  PROVE  AllBut(i) = AllChoices(Ranks \ {i}, PerToken - 1, 1)
<1> DEFINE S == 1..(i - 1)
           T == (i + 1)..RankedExperts
           n == PerToken - 1
           g == [m \in 0..n |-> dp[i - 1][m] * b_dp[i + 1][n - m]]
           h == [m \in 0..n |-> AllChoices(S, m, 1) * AllChoices(T, n - m, 1)]
<1>1. RankedExperts \in Nat /\ PerToken \in Nat \ {0} /\ i \in 1..RankedExperts
  BY FiniteRanks DEF Ranks
<1>2. /\ S \in SUBSET Ranks /\ T \in SUBSET Ranks /\ S \cap T = {} /\ S \cup T = Ranks \ {i}
      /\ i - 1 \in 0..RankedExperts /\ i + 1 \in 1..(RankedExperts + 1)
      /\ n \in Nat /\ n \in Int /\ 1 \in Nat
  BY <1>1 DEF Ranks
<1>3. /\ dp[i - 1] = [m \in 0..PerToken |-> AllChoices(S, m, 1)]
      /\ b_dp[i + 1] = [m \in 0..PerToken |-> AllChoices(T, m, 1)]
  BY <1>2, TableBefore, TableAfter
<1>4. \A m \in 0..n : m \in 0..PerToken /\ n - m \in 0..PerToken
  BY <1>1
<1>5. AllBut(i) = SumFunctionOnSet(g, 0..n)
  BY DEF AllBut
<1>6. \A m \in 0..n : g[m] = h[m]
  BY <1>3, <1>4
<1>7. g = h
  BY <1>6
<1>8. \A k \in Int : AllChoices(S \cup T, k, 1)
        = SumFunctionOnSet([m \in 0..k |-> AllChoices(S, m, 1) * AllChoices(T, k - m, 1)],
                           0..k)
  <2> HIDE DEF S, T
  <2>1. QED
    BY <1>2, ChoicesOfBoth
<1>9. AllChoices(S \cup T, n, 1) = SumFunctionOnSet(h, 0..n)
  BY <1>2, <1>8
<1>10. QED
  BY <1>2, <1>5, <1>7, <1>9

------------------------------------------------------------------------------
(* The distributions of the pools. *)

AfterPass(d, n, u) == [j \in 0..n |-> IF j = 0 THEN d[0] * Unit
                                      ELSE (d[j] * Unit) + (d[j - 1] * u)]
\* What a pass from the top computes of each entry.
LEMMA PassIs ==
  ASSUME NEW n \in Nat, NEW u, NEW d, DOMAIN d = 0..n, d = [j \in 0..n |-> d[j]]
  PROVE  Pass(d, n, u) = AfterPass(d, n, u)
<1> DEFINE row(j) == [i \in 0..n |-> IF i >= j THEN (d[i] * Unit) + (d[i - 1] * u) ELSE d[i]]
           s == [j \in 1..(n + 1) |-> row(j)]
           Body(F) == [j \in 1..(n + 1) |->
                         IF j = n + 1 THEN d
                         ELSE [F[j + 1] EXCEPT ![j] = (@ * Unit) + (F[j + 1][j - 1] * u)]]
           from == CHOOSE F : F = Body(F)
           L == n + 1
<1>1. Pass(d, n, u) = [from[1] EXCEPT ![0] = @ * Unit]
  BY DEF Pass
<1>2. row(n + 1) = d
  BY SMT
<1>3. ASSUME NEW j \in 1..(n + 1), j # n + 1
      PROVE  row(j) = [row(j + 1) EXCEPT ![j] = (@ * Unit) + (row(j + 1)[j - 1] * u)]
  <2>1. j \in 0..n /\ j - 1 \in 0..n /\ ~(j >= j + 1) /\ ~(j - 1 >= j + 1)
    BY <1>3
  <2>2. row(j + 1)[j] = d[j] /\ row(j + 1)[j - 1] = d[j - 1] /\ DOMAIN row(j + 1) = 0..n
    BY <2>1
  <2>3. \A i \in 0..n : i # j => (i >= j <=> i >= j + 1)
    OBVIOUS
  <2> DEFINE out == row(j + 1)
             x == (out[j] * Unit) + (out[j - 1] * u)
  <2>4. \A i \in 0..n : row(j)[i] = IF i = j THEN x ELSE out[i]
    BY <2>1, <2>2, <2>3
  <2>5. row(j) = [i \in 0..n |-> row(j)[i]] /\ out = [i \in 0..n |-> out[i]]
    OBVIOUS
  <2> HIDE DEF out, x, row
  <2>6. [out EXCEPT ![j] = x] = [i \in 0..n |-> IF i = j THEN x ELSE out[i]]
    BY <2>5
  <2>7. row(j) = [out EXCEPT ![j] = x]
    BY <2>4, <2>5, <2>6
  <2>8. QED
    BY <2>7 DEF out, x
<1> HIDE DEF row
<1>4. \A j \in 1..(n + 1) : j # n + 1 => j + 1 \in 1..(n + 1)
  OBVIOUS
<1>5. s = Body(s)
  BY <1>2, <1>3, <1>4
<1> HIDE DEF Body, s
<1>6. from = Body(from)
  BY <1>5
<1> HIDE DEF from
<1>7. \A j \in 1..(n + 1) :
        from[j] = IF j = n + 1 THEN d
                  ELSE [from[j + 1] EXCEPT ![j] = (@ * Unit) + (from[j + 1][j - 1] * u)]
  BY <1>6 DEF Body
<1> DEFINE G == {m \in Nat : m <= n => from[L - m] = row(L - m)}
<1>8. 0 \in G
  <2>1. L - 0 = n + 1 /\ n + 1 \in 1..(n + 1)
    OBVIOUS
  <2>2. QED
    BY <1>2, <1>7, <2>1
<1>9. ASSUME NEW m \in Nat, m \in G PROVE m + 1 \in G
  <2>1. ASSUME m + 1 <= n PROVE from[L - (m + 1)] = row(L - (m + 1))
    <3> DEFINE j == L - (m + 1)
    <3>1. m <= n /\ j \in 1..(n + 1) /\ j # n + 1 /\ j + 1 = L - m
      BY <2>1
    <3> HIDE DEF j
    <3>2. from[j + 1] = row(j + 1)
      BY <1>9, <3>1
    <3>3. from[j] = [from[j + 1] EXCEPT ![j] = (@ * Unit) + (from[j + 1][j - 1] * u)]
      BY <1>7, <3>1
    <3>4. row(j) = [row(j + 1) EXCEPT ![j] = (@ * Unit) + (row(j + 1)[j - 1] * u)]
      BY <1>3, <3>1
    <3>5. from[j] = row(j)
      BY <3>2, <3>3, <3>4
    <3>6. QED
      BY <3>5 DEF j
  <2>2. QED
    BY <2>1
<1> HIDE DEF G
<1>10. \A m \in Nat : m \in G
  BY <1>8, <1>9, Numbers
<1>11. from[1] = row(1)
  <2>1. n \in G /\ L - n = 1
    BY <1>10
  <2>2. from[L - n] = row(L - n)
    BY <2>1 DEF G
  <2>3. QED
    BY <2>1, <2>2
<1>12. [row(1) EXCEPT ![0] = @ * Unit]
         = [j \in 0..n |-> IF j = 0 THEN d[0] * Unit ELSE (d[j] * Unit) + (d[j - 1] * u)]
  <2>1. DOMAIN row(1) = 0..n /\ row(1)[0] = d[0]
        /\ \A j \in 0..n : j # 0 => row(1)[j] = (d[j] * Unit) + (d[j - 1] * u)
    BY DEF row
  <2>2. row(1) = [j \in 0..n |-> row(1)[j]]
    BY DEF row
  <2>3. QED
    BY <2>1, <2>2
<1>13. QED
  BY <1>1, <1>11, <1>12 DEF AfterPass

\* CalculateProb of the experts lo..hi tabulates their choices.
LEMMA ProbIsTable ==
  ASSUME probWeight \in [Ranks -> Nat], NEW lo \in Nat, NEW hi \in Nat,
         lo >= 1, lo - 1 <= hi, hi <= RankedExperts
  PROVE  CalculateProb(lo, hi) = Table(lo..hi) /\ lo..hi \in SUBSET Ranks
<1> DEFINE n == hi - lo + 1
           row(e) == [j \in 0..n |-> AllChoices(lo..e, j, Unit)]
           s == [e \in (lo - 1)..hi |-> row(e)]
           Body(F) == [e \in (lo - 1)..hi |->
                         IF e = lo - 1 THEN [j \in 0..n |-> IF j = 0 THEN 1 ELSE 0]
                         ELSE Pass(F[e - 1], n, probWeight[e])]
           out == CHOOSE F : F = Body(F)
<1>1. CalculateProb(lo, hi) = out[hi]
  BY DEF CalculateProb
<1>2. n \in Nat /\ Unit \in Nat /\ lo..hi \in SUBSET Ranks /\ Cardinality(lo..hi) = n
  <2>1. lo \in Int /\ hi \in Int
    OBVIOUS
  <2>2. Cardinality(lo..hi) = IF lo > hi THEN 0 ELSE hi - lo + 1
    BY <2>1, FS_Interval
  <2>3. Unit \in Nat /\ RankedExperts \in Nat
    BY FiniteRanks
  <2>4. QED
    BY <2>2, <2>3 DEF Ranks
<1>3. row(lo - 1) = [j \in 0..n |-> IF j = 0 THEN 1 ELSE 0]
  <2>1. lo..(lo - 1) = {}
    OBVIOUS
  <2>2. \A j \in Int : AllChoices({}, j, Unit) = IF j = 0 THEN 1 ELSE 0
    BY <1>2, ChoicesOfNone
  <2>3. \A j \in 0..n : j \in Int
    OBVIOUS
  <2>4. QED
    BY <2>1, <2>2, <2>3
<1>4. ASSUME NEW e \in (lo - 1)..hi, e # lo - 1
      PROVE  row(e) = Pass(row(e - 1), n, probWeight[e])
  <2> DEFINE S == lo..(e - 1)
             d == row(e - 1)
             w == probWeight[e]
  <2>1. S \in SUBSET Ranks /\ e \in Ranks \ S /\ S \cup {e} = lo..e /\ w \in Nat
    <3>1. RankedExperts \in Nat
      BY FiniteRanks
    <3>2. S \in SUBSET Ranks /\ e \in Ranks \ S /\ S \cup {e} = lo..e
      BY <1>4, <3>1 DEF Ranks
    <3>3. QED
      BY <3>2
  <2>2. \A k \in Int : AllChoices(S \cup {e}, k, Unit)
          = Unit * AllChoices(S, k, Unit) + w * AllChoices(S, k - 1, Unit)
    <3> HIDE DEF S
    <3>1. QED
      BY <1>2, <2>1, ChoicesOfOneMore
  <2>3. \A k \in Int : /\ AllChoices(S, k, Unit) \in Nat
                       /\ k < 0 => AllChoices(S, k, Unit) = 0
    <3> HIDE DEF S
    <3>1. QED
      BY <1>2, <2>1, ChoicesFinite
  <2>4. DOMAIN d = 0..n /\ d = [j \in 0..n |-> d[j]]
        /\ \A j \in 0..n : d[j] = AllChoices(S, j, Unit)
    OBVIOUS
  <2>5. Pass(d, n, w) = [j \in 0..n |-> IF j = 0 THEN d[0] * Unit
                                        ELSE (d[j] * Unit) + (d[j - 1] * w)]
    <3>1. n \in Nat /\ DOMAIN d = 0..n /\ d = [j \in 0..n |-> d[j]]
      BY <1>2, <2>4
    <3> HIDE DEF d, w, n
    <3>2. Pass(d, n, w) = AfterPass(d, n, w)
      BY <3>1, PassIs
    <3>3. QED
      BY <3>2 DEF AfterPass
  <2>6. row(e) = [j \in 0..n |-> AllChoices(S \cup {e}, j, Unit)]
    BY <2>1
  <2> HIDE DEF S, d, w
  <2>7. ASSUME NEW j \in 0..n
        PROVE  AllChoices(S \cup {e}, j, Unit)
                 = IF j = 0 THEN d[0] * Unit ELSE (d[j] * Unit) + (d[j - 1] * w)
    <3>1. j \in Int /\ j - 1 \in Int /\ (j # 0 => j - 1 \in 0..n) /\ 0 - 1 \in Int
          /\ 0 \in 0..n
      BY <1>2
    <3>2. \A a, b \in Nat : Unit * a + w * b = (a * Unit) + (b * w)
      BY <1>2, <2>1
    <3>3. CASE j # 0
      <4>1. d[j] = AllChoices(S, j, Unit) /\ d[j - 1] = AllChoices(S, j - 1, Unit)
            /\ d[j] \in Nat /\ d[j - 1] \in Nat
        BY <2>3, <2>4, <3>1, <3>3
      <4>2. AllChoices(S \cup {e}, j, Unit) = Unit * d[j] + w * d[j - 1]
        <5>1. j \in Int
          BY <3>1
        <5>2. AllChoices(S \cup {e}, j, Unit)
                = Unit * AllChoices(S, j, Unit) + w * AllChoices(S, j - 1, Unit)
          BY <2>2, <5>1
        <5>3. QED
          BY <4>1, <5>2
      <4>3. Unit * d[j] + w * d[j - 1] = (d[j] * Unit) + (d[j - 1] * w)
        BY <3>2, <4>1
      <4>4. QED
        BY <3>3, <4>2, <4>3
    <3>4. CASE j = 0
      <4>1. d[0] = AllChoices(S, 0, Unit) /\ d[0] \in Nat /\ AllChoices(S, 0 - 1, Unit) = 0
        BY <2>3, <2>4, <3>1
      <4>2. AllChoices(S \cup {e}, 0, Unit) = Unit * d[0] + w * 0
        <5>1. 0 \in Int
          OBVIOUS
        <5>2. AllChoices(S \cup {e}, 0, Unit)
                = Unit * AllChoices(S, 0, Unit) + w * AllChoices(S, 0 - 1, Unit)
          BY <2>2, <5>1
        <5>3. QED
          BY <4>1, <5>2
      <4>3. Unit * d[0] + w * 0 = (d[0] * Unit) + (0 * w) /\ (d[0] * Unit) + (0 * w) = d[0] * Unit
        BY <1>2, <2>1, <3>2, <4>1
      <4>4. QED
        BY <3>4, <4>2, <4>3
    <3>5. QED
      BY <3>3, <3>4
  <2>8. row(e) = Pass(d, n, w)
    <3> HIDE DEF row
    <3>1. QED
      BY <2>5, <2>6, <2>7
  <2>9. QED
    BY <2>8 DEF d, w
<1> HIDE DEF row
<1>5. \A e \in (lo - 1)..hi : e # lo - 1 => e - 1 \in (lo - 1)..hi
  OBVIOUS
<1>6. s = Body(s)
  BY <1>3, <1>4, <1>5
<1> HIDE DEF Body, s
<1>7. out = Body(out)
  BY <1>6
<1> HIDE DEF out
<1>8. \A e \in (lo - 1)..hi :
        out[e] = IF e = lo - 1 THEN [j \in 0..n |-> IF j = 0 THEN 1 ELSE 0]
                 ELSE Pass(out[e - 1], n, probWeight[e])
  BY <1>7 DEF Body
<1> DEFINE G == {m \in Nat : m <= n => out[(lo - 1) + m] = row((lo - 1) + m)}
<1>9. 0 \in G
  <2>1. (lo - 1) + 0 = lo - 1 /\ lo - 1 \in (lo - 1)..hi
    OBVIOUS
  <2>2. QED
    BY <1>3, <1>8, <2>1
<1>10. ASSUME NEW m \in Nat, m \in G PROVE m + 1 \in G
  <2>1. ASSUME m + 1 <= n PROVE out[(lo - 1) + (m + 1)] = row((lo - 1) + (m + 1))
    <3> DEFINE e == (lo - 1) + (m + 1)
    <3>1. m <= n /\ e \in (lo - 1)..hi /\ e # lo - 1 /\ e - 1 = (lo - 1) + m
      BY <2>1
    <3> HIDE DEF e
    <3>2. out[e - 1] = row(e - 1)
      BY <1>10, <3>1
    <3>3. out[e] = Pass(out[e - 1], n, probWeight[e])
      BY <1>8, <3>1
    <3>4. row(e) = Pass(row(e - 1), n, probWeight[e])
      BY <1>4, <3>1
    <3>5. out[e] = row(e)
      BY <3>2, <3>3, <3>4
    <3>6. QED
      BY <3>5 DEF e
  <2>2. QED
    BY <2>1
<1> HIDE DEF G
<1>11. \A m \in Nat : m \in G
  BY <1>9, <1>10, Numbers
<1>12. out[hi] = row(hi)
  <2>1. n \in G /\ (lo - 1) + n = hi
    BY <1>2, <1>11
  <2>2. out[(lo - 1) + n] = row((lo - 1) + n)
    BY <2>1 DEF G
  <2>3. QED
    BY <2>1, <2>2
<1>13. row(hi) = Table(lo..hi)
  BY <1>2 DEF row, Table
<1>14. QED
  BY <1>1, <1>2, <1>12, <1>13

------------------------------------------------------------------------------
(* Hits and totals. *)

\* The odds are positive, and avgk is a number.
LEMMA AvgKNumber ==
  ASSUME probWeight \in [Ranks -> Nat]
  PROVE  /\ Odds \in Nat \ {0} /\ AvgK \in Nat
         /\ \A e \in Ranks : (Odds \div (Unit + probWeight[e])) * probWeight[e] \in Nat
<1> DEFINE f == [e \in Ranks |-> Unit + probWeight[e]]
           g == [e \in Ranks |-> (Odds \div (Unit + probWeight[e])) * probWeight[e]]
<1>1. IsFiniteSet(Ranks) /\ Unit \in Nat \ {0}
  BY FiniteRanks
<1>2. \A e \in Ranks : /\ f[e] \in Nat /\ f[e] > 0 /\ probWeight[e] \in Nat
                       /\ Unit + probWeight[e] \in Nat \ {0}
  BY <1>1
<1>3. Odds \in Nat /\ Odds > 0
  <2>1. Odds = ProductOnSet(f, Ranks)
    BY DEF Odds
  <2> HIDE DEF f
  <2>2. QED
    BY <1>1, <1>2, <2>1, ProductPositive
<1>4. \A e \in Ranks : g[e] = (Odds \div (Unit + probWeight[e])) * probWeight[e]
  OBVIOUS
<1>5. AvgK = SumFunctionOnSet(g, Ranks) \div Odds
  BY DEF AvgK
<1> HIDE DEF f, g
<1>6. ASSUME NEW e \in Ranks PROVE g[e] \in Nat
  <2>1. Odds \div (Unit + probWeight[e]) \in Int
    BY <1>2, <1>3, Quotient
  <2>2. Odds \div (Unit + probWeight[e]) >= 0
    BY <1>2, <1>3, Quotient
  <2>3. \A a \in Nat, b \in Nat : a * b \in Nat
    OBVIOUS
  <2>4. QED
    BY <1>2, <1>4, <2>1, <2>2, <2>3
<1>7. SumFunctionOnSet(g, Ranks) \in Nat
  <2>1. \A e \in Ranks : g[e] \in Nat
    BY <1>6
  <2>2. QED
    BY <1>1, <2>1, SumParts
<1>8. AvgK \in Nat
  <2>1. AvgK \in Int /\ AvgK >= 0
    BY <1>3, <1>5, <1>7, Quotient
  <2>2. QED
    BY <2>1
<1>9. \A e \in Ranks : g[e] \in Nat
  BY <1>6
<1>10. QED
  BY <1>3, <1>4, <1>8, <1>9

\* The slots planned for are numbers.
LEMMA SlotsNumber ==
  ASSUME memory \in Memories, NEW r \in 0..Steps
  PROVE  FullSlots(r) \in Nat /\ SmSlots(r) \in Nat
<1>1. /\ memory \in Nat /\ Steps \in Nat \ {0} /\ PlannedLayers \in Nat \ {0}
      /\ SmSlot \in Nat \ {0} /\ r \in Nat /\ Steps - r \in Nat
  BY PlanningAssumption
<1>2. \A a, b \in Nat : a * b \in Nat /\ (a # 0 /\ b # 0 => a * b # 0)
  OBVIOUS
<1>3. PlannedLayers * Steps \in Nat \ {0}
  BY <1>1, <1>2
<1>4. PlannedLayers * Steps * 2 \in Nat \ {0} /\ PlannedLayers * Steps * SmSlot \in Nat \ {0}
  BY <1>1, <1>2, <1>3
<1>5. PlannedLayers * Steps * 2 * SmSlot \in Nat \ {0}
  BY <1>1, <1>2, <1>4
<1>6. r * memory \in Nat /\ (Steps - r) * memory \in Nat
  BY <1>1, <1>2
<1>7. FullSlots(r) \in Int /\ FullSlots(r) >= 0
  BY <1>5, <1>6, Quotient DEF FullSlots
<1>8. SmSlots(r) \in Int /\ SmSlots(r) >= 0
  BY <1>4, <1>6, Quotient DEF SmSlots
<1>9. QED
  BY <1>7, <1>8

\* The experts of a plan that fits: the first are whole, the next in sign and mantissa.
FullOnes(r) == 1..FullSlots(r)
SmOnes(r) == (FullSlots(r) + 1)..(FullSlots(r) + SmSlots(r))
RestOnes(r) == (FullSlots(r) + SmSlots(r) + 1)..RankedExperts

\* The three distributions of a ratio that fits.
LEMMA DistsAre ==
  ASSUME probWeight \in [Ranks -> Nat], memory \in Memories,
         NEW r \in 1..(Steps - 1), Fits(r)
  PROVE  /\ FullOnes(r) \in SUBSET Ranks /\ SmOnes(r) \in SUBSET Ranks
         /\ RestOnes(r) \in SUBSET Ranks
         /\ FullOnes(r) \cap SmOnes(r) = {}
         /\ (FullOnes(r) \cup SmOnes(r)) \cap RestOnes(r) = {}
         /\ SmOnes(r) \cap RestOnes(r) = {}
         /\ FullOnes(r) \cap (SmOnes(r) \cup RestOnes(r)) = {}
         /\ (FullOnes(r) \cup SmOnes(r)) \cup RestOnes(r) = Ranks
         /\ Dists(r) = [full |-> Table(FullOnes(r)), sm |-> Table(SmOnes(r)),
                        rest |-> Table(RestOnes(r))]
<1> DEFINE F == FullSlots(r)
           M == SmSlots(r)
<1>1. F \in Nat /\ M \in Nat /\ RankedExperts \in Nat /\ F + M <= RankedExperts
  <2>1. Steps \in Nat
    BY PlanningAssumption
  <2>2. r \in 0..Steps
    BY <2>1
  <2>3. F \in Nat /\ M \in Nat
    BY <2>2, SlotsNumber
  <2>4. F + M <= RankedExperts
    BY DEF Fits
  <2>5. RankedExperts \in Nat
    BY FiniteRanks
  <2>6. QED
    BY <2>3, <2>4, <2>5
<1>2. Dists(r) = [full |-> CalculateProb(1, F), sm |-> CalculateProb(F + 1, F + M),
                  rest |-> CalculateProb(F + M + 1, RankedExperts)]
  BY DEF Dists
<1> HIDE DEF F, M
<1>3. CalculateProb(1, F) = Table(1..F)
  <2>1. 1 \in Nat /\ F \in Nat /\ 1 >= 1 /\ 1 - 1 <= F /\ F <= RankedExperts
    BY <1>1
  <2>2. QED
    BY <2>1, ProbIsTable
<1>4. CalculateProb(F + 1, F + M) = Table((F + 1)..(F + M))
  <2>1. F + 1 \in Nat /\ F + M \in Nat /\ F + 1 >= 1 /\ (F + 1) - 1 <= F + M
        /\ F + M <= RankedExperts
    BY <1>1
  <2>2. QED
    BY <2>1, ProbIsTable
<1>5. CalculateProb(F + M + 1, RankedExperts) = Table((F + M + 1)..RankedExperts)
  <2>1. F + M + 1 \in Nat /\ RankedExperts \in Nat /\ F + M + 1 >= 1
        /\ (F + M + 1) - 1 <= RankedExperts /\ RankedExperts <= RankedExperts
    BY <1>1
  <2>2. QED
    BY <2>1, ProbIsTable
<1>6. /\ FullOnes(r) = 1..F /\ SmOnes(r) = (F + 1)..(F + M)
      /\ RestOnes(r) = (F + M + 1)..RankedExperts
  BY DEF FullOnes, SmOnes, RestOnes, F, M
<1>7. /\ 1..F \in SUBSET Ranks /\ (F + 1)..(F + M) \in SUBSET Ranks
      /\ (F + M + 1)..RankedExperts \in SUBSET Ranks
      /\ (1..F) \cap ((F + 1)..(F + M)) = {}
      /\ ((F + 1)..(F + M)) \cap ((F + M + 1)..RankedExperts) = {}
      /\ (1..F) \cap ((F + M + 1)..RankedExperts) = {}
      /\ ((1..F) \cup ((F + 1)..(F + M))) \cup ((F + M + 1)..RankedExperts) = Ranks
  BY <1>1 DEF Ranks
<1>8. QED
  BY <1>2, <1>3, <1>4, <1>5, <1>6, <1>7

\* The convolution of the three gives all choices of avgk.
LEMMA TotalIs ==
  ASSUME probWeight \in [Ranks -> Nat], memory \in Memories,
         NEW r \in 1..(Steps - 1), Fits(r)
  PROVE  Total(Dists(r)) = AllChoices(Ranks, AvgK, Unit)
<1> DEFINE F == FullOnes(r)
           M == SmOnes(r)
           R == RestOnes(r)
           d == Dists(r)
<1>1. /\ F \in SUBSET Ranks /\ M \in SUBSET Ranks /\ R \in SUBSET Ranks
      /\ F \cap M = {} /\ (F \cup M) \cap R = {} /\ (F \cup M) \cup R = Ranks
      /\ d = [full |-> Table(F), sm |-> Table(M), rest |-> Table(R)]
  BY DistsAre
<1> HIDE DEF F, M, R, d
<1>2. Convolve(Table(F), Table(M)) = Table(F \cup M)
  BY <1>1, ConvolvedTables
<1>3. Convolve(Table(F \cup M), Table(R)) = Table((F \cup M) \cup R)
  <2>1. F \cup M \in SUBSET Ranks
    BY <1>1
  <2>2. QED
    BY <1>1, <2>1, ConvolvedTables
<1>4. Convolve(Convolve(d.full, d.sm), d.rest) = Table(Ranks)
  BY <1>1, <1>2, <1>3
<1>5. Total(d) = IF AvgK \in DOMAIN Table(Ranks) THEN Table(Ranks)[AvgK] ELSE 0
  BY <1>4 DEF Total
<1>6. AvgK \in Int
  BY AvgKNumber
<1>7. Ranks \in SUBSET Ranks
  OBVIOUS
<1>8. /\ DOMAIN Table(Ranks) = 0..Cardinality(Ranks)
      /\ \A i \in 0..Cardinality(Ranks) : Table(Ranks)[i] = AllChoices(Ranks, i, Unit)
      /\ \A i \in Int : i \notin 0..Cardinality(Ranks) => AllChoices(Ranks, i, Unit) = 0
  BY <1>7, TableOf
<1>9. QED
  BY <1>5, <1>6, <1>8 DEF d

\* The hits summed over, of both pools, give them too.
LEMMA HitMassIs ==
  ASSUME probWeight \in [Ranks -> Nat], memory \in Memories,
         NEW r \in 1..(Steps - 1), Fits(r)
  PROVE  HitMass(Dists(r)) = AllChoices(Ranks, AvgK, Unit)
<1> DEFINE F == FullOnes(r)
           M == SmOnes(r)
           R == RestOnes(r)
           d == Dists(r)
           C(S, i) == AllChoices(S, i, Unit)
           a == Cardinality(F)
           b == Cardinality(M)
           c == Cardinality(R)
<1>1. /\ F \in SUBSET Ranks /\ M \in SUBSET Ranks /\ R \in SUBSET Ranks
      /\ M \cap R = {} /\ F \cap (M \cup R) = {} /\ F \cup (M \cup R) = Ranks
      /\ d = [full |-> Table(F), sm |-> Table(M), rest |-> Table(R)]
  BY DistsAre
<1>2. AvgK \in Nat /\ Unit \in Nat
  BY AvgKNumber, FiniteRanks
<1> HIDE DEF F, M, R, d
<1>3. /\ a \in Nat /\ DOMAIN d.full = 0..a
      /\ \A i \in 0..a : d.full[i] = C(F, i) /\ C(F, i) \in Nat
  BY <1>1, TableOf
<1>4. /\ b \in Nat /\ DOMAIN d.sm = 0..b
      /\ \A i \in 0..b : d.sm[i] = C(M, i) /\ C(M, i) \in Nat
  BY <1>1, TableOf
<1>5. /\ c \in Nat /\ DOMAIN d.rest = 0..c
      /\ \A i \in 0..c : d.rest[i] = C(R, i)
      /\ \A i \in Int : C(R, i) \in Nat /\ (i \notin 0..c => C(R, i) = 0)
  BY <1>1, TableOf
<1> HIDE DEF C
<1>6. ASSUME NEW f \in 0..a, NEW s \in 0..b
      PROVE  Mass(d, f, s) = C(F, f) * (C(M, s) * C(R, (AvgK - f) - s))
  <2>1. AvgK - f - s \in Int /\ AvgK - f - s = (AvgK - f) - s
    BY <1>2, <1>3, <1>4
  <2>2. \A x, y, z \in Nat : x * y * z = x * (y * z)
    OBVIOUS
  <2>3. C(F, f) \in Nat /\ C(M, s) \in Nat /\ C(R, AvgK - f - s) \in Nat
    BY <1>3, <1>4, <1>5, <2>1
  <2>4. CASE AvgK - f - s \in 0..c
    <3>1. Mass(d, f, s) = d.full[f] * d.sm[s] * d.rest[AvgK - f - s]
      BY <1>5, <2>4 DEF Mass
    <3>2. Mass(d, f, s) = C(F, f) * C(M, s) * C(R, AvgK - f - s)
      BY <1>3, <1>4, <1>5, <2>4, <3>1
    <3>3. QED
      BY <2>2, <2>3, <3>2
  <2>5. CASE AvgK - f - s \notin 0..c
    <3>1. Mass(d, f, s) = 0
      BY <1>5, <2>5 DEF Mass
    <3>2. C(R, AvgK - f - s) = 0
      BY <1>5, <2>1, <2>5
    <3>3. \A x, y \in Nat : x * (y * 0) = 0
      OBVIOUS
    <3>4. QED
      BY <2>3, <3>1, <3>2, <3>3
  <2>6. QED
    BY <2>4, <2>5
<1> DEFINE in(f) == [s \in 0..b |-> Mass(d, f, s)]
           out == [f \in 0..a |-> SumFunctionOnSet(in(f), 0..b)]
<1>7. HitMass(d) = SumFunctionOnSet(out, 0..a)
  BY <1>3, <1>4 DEF HitMass
<1>8. ASSUME NEW f \in 0..a
      PROVE  SumFunctionOnSet(in(f), 0..b) = C(F, f) * C(M \cup R, AvgK - f)
  <2> DEFINE p == [s \in 0..b |-> C(M, s) * C(R, (AvgK - f) - s)]
             q == in(f)
             n == AvgK - f
  <2>1. n \in Int /\ b \in Nat /\ Cardinality(M) <= b
    BY <1>2, <1>3, <1>4
  <2>2. \A s \in 0..b : p[s] = AllChoices(M, s, Unit) * AllChoices(R, n - s, Unit)
    BY DEF C
  <2>3. \A s \in 0..b : q[s] = C(F, f) * (C(M, s) * C(R, (AvgK - f) - s))
    BY <1>6
  <2>4. \A s \in 0..b : p[s] = C(M, s) * C(R, (AvgK - f) - s)
    OBVIOUS
  <2> HIDE DEF p, q, n, in
  <2>5. /\ \A s \in 0..b : p[s] \in Nat
        /\ SumFunctionOnSet(p, 0..b) = AllChoices(M \cup R, n, Unit)
    <3>1. M \in SUBSET Ranks /\ R \in SUBSET Ranks /\ M \cap R = {} /\ Unit \in Nat
      BY <1>1, <1>2
    <3> HIDE DEF b
    <3>2. QED
      BY <2>1, <2>2, <3>1, ChoicesByCount
  <2>6. \A s \in 0..b : p[s] \in Nat /\ q[s] = C(F, f) * p[s]
    BY <2>3, <2>4, <2>5
  <2>7. IsFiniteSet(0..b) /\ C(F, f) \in Nat
    <3>1. \A k \in Int : IsFiniteSet(0..k)
      BY FS_Interval
    <3>2. b \in Int
      BY <1>4
    <3>3. QED
      BY <1>3, <3>1, <3>2
  <2>8. SumFunctionOnSet(q, 0..b) = C(F, f) * SumFunctionOnSet(p, 0..b)
    BY <2>6, <2>7, SumScales
  <2>9. QED
    BY <2>5, <2>8 DEF q, n, C
<1>9. \A f \in 0..a : out[f] = AllChoices(F, f, Unit) * AllChoices(M \cup R, AvgK - f, Unit)
  BY <1>8 DEF C
<1> HIDE DEF out
<1>10. SumFunctionOnSet(out, 0..a) = AllChoices(F \cup (M \cup R), AvgK, Unit)
  <2>1. /\ AvgK \in Int /\ Cardinality(F) <= a /\ a \in Nat
        /\ M \cup R \in SUBSET Ranks
    BY <1>1, <1>2, <1>3
  <2>2. F \in SUBSET Ranks /\ F \cap (M \cup R) = {} /\ Unit \in Nat
    BY <1>1, <1>2
  <2> HIDE DEF a
  <2>3. QED
    BY <1>9, <2>1, <2>2, ChoicesByCount
<1>11. QED
  BY <1>1, <1>7, <1>10 DEF d

\* What the weights and the memory are.
WeightsInv ==
  /\ memory \in Memories
  /\ planning \in {"simulate", "done"} => probWeight \in [Ranks -> Nat]

\* The weights are a list of the iteration's once it is done.
LEMMA WeightsKept == PlanningSpec => []WeightsInv
<1>1. PlanningInit => WeightsInv
  BY DEF PlanningInit, WeightsInv
<1>2. WeightsInv /\ [PlanningNext]_planningVars => WeightsInv'
  <2> SUFFICES ASSUME WeightsInv, [PlanningNext]_planningVars PROVE WeightsInv'
    OBVIOUS
  <2>1. CASE UNCHANGED planningVars
    BY <2>1 DEF WeightsInv, planningVars
  <2>2. CASE ObtainDistFromTrace
    BY <2>2 DEF WeightsInv, ObtainDistFromTrace
  <2>3. CASE StartScale \/ Cut
    BY <2>3 DEF WeightsInv, StartScale, Cut
  <2>4. CASE FindWeights
    BY <2>4, PlanningAssumption DEF WeightsInv, FindWeights
  <2>5. CASE Simulate \/ Choose
    BY <2>5 DEF WeightsInv, Simulate, Choose
  <2>6. QED
    BY <2>1, <2>2, <2>3, <2>4, <2>5 DEF PlanningNext
<1>3. QED
  BY <1>1, <1>2, PTL DEF PlanningSpec

\* The tables, the pools' distributions and the hits summed over count the same choices
\* of experts, whatever the weights are and for every ratio that fits.
THEOREM PoolsCountSameChoices == PlanningSpec => []HitsAddUp
<1>1. WeightsInv => HitsAddUp
  <2> SUFFICES ASSUME WeightsInv, planning = "done" PROVE HitsAddUp
    BY DEF HitsAddUp
  <2>1. memory \in Memories /\ probWeight \in [Ranks -> Nat]
    BY DEF WeightsInv
  <2>2. \A i \in Ranks : AllBut(i) = AllChoices(Ranks \ {i}, PerToken - 1, 1)
    BY <2>1, LeavingOneOut
  <2>3. ASSUME NEW r \in 1..(Steps - 1), Fits(r)
        PROVE  /\ Total(Dists(r)) = AllChoices(Ranks, AvgK, Unit)
               /\ HitMass(Dists(r)) = Total(Dists(r))
    BY <2>1, <2>3, TotalIs, HitMassIs
  <2>4. QED
    BY <2>2, <2>3 DEF HitsAddUp
<1>2. QED
  BY <1>1, WeightsKept, PTL

------------------------------------------------------------------------------
(* Ratios that fit are simulated. *)

\* The experts of positive weight.
Weighted(S) == {e \in S : probWeight[e] > 0}

\* As many experts as have a positive weight can be chosen.
LEMMA ChoicesPositive ==
  ASSUME probWeight \in [Ranks -> Nat], NEW n \in Nat, n <= Cardinality(Weighted(Ranks))
  PROVE  AllChoices(Ranks, n, Unit) > 0
<1> DEFINE P(V) == Cardinality(Weighted(V))
           G == {V \in SUBSET Ranks : \A k \in Nat : k <= P(V) => AllChoices(V, k, Unit) > 0}
<1>1. Unit \in Nat /\ Unit > 0 /\ IsFiniteSet(Ranks)
  BY FiniteRanks
<1>2. \A V \in SUBSET Ranks : IsFiniteSet(Weighted(V)) /\ P(V) \in Nat
  BY FiniteRanks DEF Weighted
<1>3. \A V \in SUBSET Ranks : \A k \in Int : AllChoices(V, k, Unit) \in Nat
  BY <1>1, ChoicesFinite
<1>4. {} \in G
  <2>1. Weighted({}) = {}
    BY DEF Weighted
  <2>2. P({}) = 0
    BY <2>1, FS_EmptySet
  <2>3. AllChoices({}, 0, Unit) = 1
    <3>1. 0 \in Int
      OBVIOUS
    <3>2. AllChoices({}, 0, Unit) = IF 0 = 0 THEN 1 ELSE 0
      BY <1>1, <3>1, ChoicesOfNone
    <3>3. QED
      BY <3>2
  <2> HIDE DEF P
  <2>4. \A k \in Nat : k <= P({}) => AllChoices({}, k, Unit) > 0
    BY <2>2, <2>3
  <2>5. QED
    BY <2>4
<1>5. ASSUME NEW V \in SUBSET Ranks, NEW x \in Ranks \ V, V \in G PROVE V \cup {x} \in G
  <2> DEFINE X == V \cup {x}
             w == probWeight[x]
  <2>1. /\ X \in SUBSET Ranks /\ w \in Nat
        /\ Weighted(X) = IF w > 0 THEN Weighted(V) \cup {x} ELSE Weighted(V)
        /\ x \notin Weighted(V)
    BY DEF Weighted
  <2>2. P(X) = IF w > 0 THEN P(V) + 1 ELSE P(V)
    <3>1. Cardinality(Weighted(V) \cup {x})
            = IF x \in Weighted(V) THEN P(V) ELSE P(V) + 1
      BY <1>2, FS_AddElement
    <3>2. QED
      BY <2>1, <3>1
  <2>3. \A k \in Int : AllChoices(X, k, Unit)
          = Unit * AllChoices(V, k, Unit) + w * AllChoices(V, k - 1, Unit)
    BY <1>1, ChoicesOfOneMore
  <2> HIDE DEF X, w, P
  <2>4. ASSUME NEW k \in Nat, k <= P(X) PROVE AllChoices(X, k, Unit) > 0
    <3> DEFINE a == AllChoices(V, k, Unit)
               b == AllChoices(V, k - 1, Unit)
    <3>1. k \in Int /\ k - 1 \in Int
      OBVIOUS
    <3>2. a \in Nat /\ b \in Nat /\ AllChoices(X, k, Unit) = Unit * a + w * b
      BY <1>3, <2>3, <3>1
    <3>3. P(V) \in Nat
      BY <1>2
    <3>4. a > 0 \/ (w > 0 /\ b > 0)
      <4>1. CASE k <= P(V)
        BY <1>5, <4>1
      <4>2. CASE ~(k <= P(V))
        <5>1. w > 0 /\ k - 1 = P(V)
          BY <2>2, <2>4, <3>3, <4>2
        <5>2. k - 1 \in Nat /\ k - 1 <= P(V)
          BY <3>3, <5>1
        <5>3. b > 0
          BY <1>5, <5>2
        <5>4. QED
          BY <5>1, <5>3
      <4>3. QED
        BY <4>1, <4>2
    <3> HIDE DEF a, b
    <3>5. \A c, d \in Nat : c > 0 /\ d > 0 => c * d > 0
      OBVIOUS
    <3>6. \A c, d \in Nat : c * d \in Nat
      OBVIOUS
    <3>7. Unit * a \in Nat /\ w * b \in Nat
      BY <1>1, <2>1, <3>2, <3>6
    <3>8. Unit * a > 0 \/ w * b > 0
      BY <1>1, <2>1, <3>2, <3>4, <3>5
    <3>9. QED
      BY <3>2, <3>7, <3>8
  <2>5. QED
    BY <2>1, <2>4 DEF X
<1> HIDE DEF G
<1>6. \A V \in SUBSET Ranks : V \in G
  BY <1>1, <1>4, <1>5, SetsGrow
<1>7. Ranks \in G
  BY <1>6
<1>8. QED
  BY <1>7 DEF G

\* No more experts are in use on average than have a positive weight.
LEMMA AvgKBound ==
  ASSUME probWeight \in [Ranks -> Nat]
  PROVE  AvgK <= Cardinality(Weighted(Ranks))
<1> DEFINE g == [e \in Ranks |-> (Odds \div (Unit + probWeight[e])) * probWeight[e]]
           h == [e \in Ranks |-> Odds]
           P == Weighted(Ranks)
           c == Cardinality(P)
           s == SumFunctionOnSet(g, Ranks)
<1>1. IsFiniteSet(Ranks) /\ Unit \in Nat \ {0}
  BY FiniteRanks
<1>2. /\ Odds \in Nat \ {0} /\ AvgK \in Nat
      /\ \A e \in Ranks : g[e] \in Nat
  BY AvgKNumber
<1>3. P \in SUBSET Ranks /\ IsFiniteSet(P) /\ c \in Nat
  BY FiniteRanks DEF Weighted
<1>4. AvgK = s \div Odds
  BY DEF AvgK
<1>5. \A e \in Ranks : g[e] = (Odds \div (Unit + probWeight[e])) * probWeight[e]
  OBVIOUS
<1>6. \A e \in Ranks : h[e] = Odds
  OBVIOUS
<1>7. \A e \in Ranks : e \notin P => probWeight[e] = 0
  BY DEF Weighted
<1> HIDE DEF g, h, P
<1>8. ASSUME NEW e \in Ranks PROVE g[e] <= Odds /\ (e \notin P => g[e] = 0)
  <2> DEFINE w == probWeight[e]
             q == Odds \div (Unit + w)
  <2>1. w \in Nat /\ Unit + w \in Nat \ {0}
    BY <1>1
  <2>2. q \in Int /\ (Unit + w) * q <= Odds /\ q >= 0
    BY <1>2, <2>1, Quotient
  <2>3. g[e] = q * w
    BY <1>5
  <2> HIDE DEF w, q
  <2>4. \A a, b, d \in Nat : (a + b) * d = a * d + b * d /\ a * d \in Nat /\ b * d = d * b
    OBVIOUS
  <2>5. (Unit + w) * q = Unit * q + w * q /\ Unit * q \in Nat /\ w * q = q * w
        /\ q * w \in Nat
    BY <1>1, <2>1, <2>2, <2>4
  <2>6. g[e] <= Odds
    BY <1>2, <2>2, <2>3, <2>5
  <2>7. \A a \in Nat : a * 0 = 0
    OBVIOUS
  <2>8. e \notin P => g[e] = 0
    BY <1>7, <2>2, <2>3, <2>7 DEF w
  <2>9. QED
    BY <2>6, <2>8
<1>9. s = SumFunctionOnSet(g, P)
  <2>1. \A e \in Ranks \ P : g[e] = 0
    BY <1>8
  <2>2. QED
    BY <1>1, <1>2, <1>3, <2>1, SumOfZeros
<1>10. SumFunctionOnSet(g, P) <= SumFunctionOnSet(h, P)
  <2>1. \A e \in P : g[e] \in Nat /\ h[e] \in Nat /\ g[e] <= h[e]
    BY <1>2, <1>3, <1>6, <1>8
  <2>2. QED
    BY <1>3, <2>1, SumMonotone
<1>11. SumFunctionOnSet(h, P) = Odds * c
  <2>1. \A e \in P : h[e] = Odds
    BY <1>3, <1>6
  <2>2. QED
    BY <1>2, <1>3, <2>1, SumOfConstant
<1>12. s \in Nat
  <2>1. \A e \in Ranks : g[e] \in Nat
    BY <1>2
  <2>2. QED
    BY <1>1, <2>1, SumParts
<1> HIDE DEF s, c
<1>13. Odds * AvgK <= s
  BY <1>2, <1>4, <1>12, Quotient
<1>14. Odds * AvgK <= Odds * c
  BY <1>2, <1>3, <1>9, <1>10, <1>11, <1>12, <1>13
<1>15. \A o \in Nat \ {0} : \A x, y \in Nat : o * x <= o * y => x <= y
  OBVIOUS
<1>16. AvgK <= c
  BY <1>2, <1>3, <1>14, <1>15
<1>17. QED
  BY <1>16 DEF c, P

\* A ratio that fits is simulated: some hits have a probability.
LEMMA TotalPositive ==
  ASSUME probWeight \in [Ranks -> Nat], memory \in Memories,
         NEW r \in 1..(Steps - 1), Fits(r)
  PROVE  Total(Dists(r)) > 0
<1>1. AvgK \in Nat /\ AvgK <= Cardinality(Weighted(Ranks))
  BY AvgKNumber, AvgKBound
<1>2. AllChoices(Ranks, AvgK, Unit) > 0
  BY <1>1, ChoicesPositive
<1>3. QED
  BY <1>2, TotalIs

\* The cost of a ratio that fits is a number.
LEMMA CostNumber ==
  ASSUME probWeight \in [Ranks -> Nat], memory \in Memories,
         NEW r \in 1..(Steps - 1), Fits(r)
  PROVE  Cost(Dists(r)) \in Nat
<1> DEFINE F == FullOnes(r)
           M == SmOnes(r)
           R == RestOnes(r)
           d == Dists(r)
           a == Cardinality(F)
           b == Cardinality(M)
           c == Cardinality(R)
<1>1. /\ F \in SUBSET Ranks /\ M \in SUBSET Ranks /\ R \in SUBSET Ranks
      /\ d = [full |-> Table(F), sm |-> Table(M), rest |-> Table(R)]
  BY DistsAre
<1>2. AvgK \in Nat
  BY AvgKNumber
<1> HIDE DEF F, M, R, d
<1>3. a \in Nat /\ DOMAIN d.full = 0..a /\ \A i \in 0..a : d.full[i] \in Nat
  <2>1. /\ a \in Nat /\ DOMAIN Table(F) = 0..a
        /\ \A i \in 0..a : Table(F)[i] = AllChoices(F, i, Unit)
        /\ \A i \in Int : AllChoices(F, i, Unit) \in Nat
    BY <1>1, TableOf
  <2>2. QED
    BY <1>1, <2>1
<1>4. b \in Nat /\ DOMAIN d.sm = 0..b /\ \A i \in 0..b : d.sm[i] \in Nat
  <2>1. /\ b \in Nat /\ DOMAIN Table(M) = 0..b
        /\ \A i \in 0..b : Table(M)[i] = AllChoices(M, i, Unit)
        /\ \A i \in Int : AllChoices(M, i, Unit) \in Nat
    BY <1>1, TableOf
  <2>2. QED
    BY <1>1, <2>1
<1>5. c \in Nat /\ DOMAIN d.rest = 0..c /\ \A i \in 0..c : d.rest[i] \in Nat
  <2>1. /\ c \in Nat /\ DOMAIN Table(R) = 0..c
        /\ \A i \in 0..c : Table(R)[i] = AllChoices(R, i, Unit)
        /\ \A i \in Int : AllChoices(R, i, Unit) \in Nat
    BY <1>1, TableOf
  <2>2. QED
    BY <1>1, <2>1
<1>6. ASSUME NEW f \in 0..a, NEW s \in 0..b PROVE Mass(d, f, s) * DelaySimu(f, s) \in Nat
  <2>1. CASE AvgK - f - s \in 0..c
    <3> DEFINE k == AvgK - f
               m == AvgK - f - s
               x == TensorsPerExpert * k
                      * ((FileChunks * Decompress * RatioDen) + (SmIo * RatioNum))
               y == TensorsPerExpert * ComputePool * SmIo * ((m * RatioDen) + (s * RatioNum))
    <3>1. /\ TensorsPerExpert \in Nat /\ FileChunks \in Nat /\ Decompress \in Nat
          /\ RatioDen \in Nat /\ SmIo \in Nat /\ RatioNum \in Nat /\ ComputePool \in Nat
      BY PlanningAssumption
    <3>2. k \in Nat /\ m \in Nat /\ s \in Nat
      BY <1>2, <1>3, <1>4, <2>1
    <3>3. Mass(d, f, s) = d.full[f] * d.sm[s] * d.rest[m]
      BY <1>5, <2>1 DEF Mass
    <3>4. DelaySimu(f, s) = IF x > y THEN x ELSE y
      BY DEF DelaySimu
    <3> HIDE DEF k, m
    <3>5. \A p, q \in Nat : p * q \in Nat /\ p + q \in Nat
      OBVIOUS
    <3>6. x \in Nat
      <4>1. FileChunks * Decompress \in Nat /\ SmIo * RatioNum \in Nat
            /\ TensorsPerExpert * k \in Nat
        BY <3>1, <3>2, <3>5
      <4>2. FileChunks * Decompress * RatioDen \in Nat
        BY <3>1, <3>5, <4>1
      <4>3. (FileChunks * Decompress * RatioDen) + (SmIo * RatioNum) \in Nat
        BY <3>5, <4>1, <4>2
      <4>4. QED
        BY <3>5, <4>1, <4>3
    <3>7. y \in Nat
      <4>1. TensorsPerExpert * ComputePool \in Nat /\ m * RatioDen \in Nat
            /\ s * RatioNum \in Nat
        BY <3>1, <3>2, <3>5
      <4>2. TensorsPerExpert * ComputePool * SmIo \in Nat
            /\ (m * RatioDen) + (s * RatioNum) \in Nat
        BY <3>1, <3>5, <4>1
      <4>3. QED
        BY <3>5, <4>2
    <3>8. Mass(d, f, s) \in Nat
      <4>1. d.full[f] \in Nat /\ d.sm[s] \in Nat /\ d.rest[m] \in Nat
        BY <1>3, <1>4, <1>5, <2>1 DEF m
      <4>2. d.full[f] * d.sm[s] \in Nat
        BY <3>5, <4>1
      <4>3. QED
        BY <3>3, <3>5, <4>1, <4>2
    <3> HIDE DEF x, y
    <3>9. DelaySimu(f, s) \in Nat
      BY <3>4, <3>6, <3>7
    <3>10. QED
      BY <3>5, <3>8, <3>9
  <2>2. CASE AvgK - f - s \notin 0..c
    <3>1. Mass(d, f, s) = 0
      BY <1>5, <2>2 DEF Mass
    <3>2. DelaySimu(f, s) \in Int
      <4> DEFINE x == TensorsPerExpert * (AvgK - f)
                        * ((FileChunks * Decompress * RatioDen) + (SmIo * RatioNum))
                 y == TensorsPerExpert * ComputePool * SmIo
                        * (((AvgK - f - s) * RatioDen) + (s * RatioNum))
      <4>1. /\ TensorsPerExpert \in Nat /\ FileChunks \in Nat /\ Decompress \in Nat
            /\ RatioDen \in Nat /\ SmIo \in Nat /\ RatioNum \in Nat /\ ComputePool \in Nat
        BY PlanningAssumption
      <4>2. AvgK - f \in Int /\ AvgK - f - s \in Int /\ s \in Int
        BY <1>2, <1>3, <1>4
      <4>3. x \in Int
        BY <4>1, <4>2
      <4>4. y \in Int
        BY <4>1, <4>2
      <4>5. DelaySimu(f, s) = IF x > y THEN x ELSE y
        BY DEF DelaySimu
      <4> HIDE DEF x, y
      <4>6. QED
        BY <4>3, <4>4, <4>5
    <3>3. \A z \in Int : 0 * z = 0
      OBVIOUS
    <3>4. QED
      BY <3>1, <3>2, <3>3
  <2>3. QED
    BY <2>1, <2>2
<1> DEFINE in(f) == [s \in 0..b |-> Mass(d, f, s) * DelaySimu(f, s)]
           out == [f \in 0..a |-> SumFunctionOnSet(in(f), 0..b)]
<1>7. Cost(d) = SumFunctionOnSet(out, 0..a)
  BY <1>3, <1>4 DEF Cost
<1>8. IsFiniteSet(0..a) /\ IsFiniteSet(0..b)
  <2>1. \A n \in Int : IsFiniteSet(0..n)
    BY FS_Interval
  <2>2. a \in Int /\ b \in Int
    BY <1>3, <1>4
  <2>3. QED
    BY <2>1, <2>2
<1>9. ASSUME NEW f \in 0..a PROVE out[f] \in Nat
  <2> DEFINE q == in(f)
  <2>1. \A s \in 0..b : q[s] \in Nat
    BY <1>6
  <2>2. out[f] = SumFunctionOnSet(q, 0..b)
    OBVIOUS
  <2> HIDE DEF q, out
  <2>3. QED
    BY <1>8, <2>1, <2>2, SumParts
<1> HIDE DEF out
<1>10. \A f \in 0..a : out[f] \in Nat
  BY <1>9
<1>11. SumFunctionOnSet(out, 0..a) \in Nat
  BY <1>8, <1>10, SumParts
<1>12. QED
  BY <1>7, <1>11 DEF d

------------------------------------------------------------------------------
(* The ratio planned and the slots made. *)

\* Multiples compare as what is multiplied.
LEMMA Multiples ==
  ASSUME NEW d \in Nat \ {0}, NEW a \in Int, NEW b \in Int, d * a < d * b + d
  PROVE  a <= b
<1>1. SUFFICES ASSUME a > b PROVE FALSE
  OBVIOUS
<1>2. a >= b + 1
  BY <1>1
<1>3. \A x, y \in Int : x >= y => d * x >= d * y
  OBVIOUS
<1>4. d * a >= d * (b + 1)
  BY <1>2, <1>3
<1>5. d * (b + 1) = d * b + d
  OBVIOUS
<1>6. d * a \in Int /\ d * b \in Int
  OBVIOUS
<1>7. QED
  BY <1>4, <1>5, <1>6

\* The divisors of the planned slots, over the bytes of a layer's slots in one step.
PerStep == PlannedLayers * Steps * SmSlot

\* What the planned slots are multiples of.
LEMMA SlotsOf ==
  ASSUME memory \in Memories, NEW r \in 0..Steps
  PROVE  /\ PerStep \in Nat \ {0} /\ FullSlots(r) \in Nat /\ SmSlots(r) \in Nat
         /\ r * memory \in Nat /\ Steps * memory \in Nat
         /\ 2 * (PerStep * FullSlots(r)) <= r * memory
         /\ r * memory < 2 * (PerStep * FullSlots(r)) + 2 * PerStep
         /\ PerStep * SmSlots(r) <= Steps * memory - r * memory
         /\ Steps * memory - r * memory < PerStep * SmSlots(r) + PerStep
<1> DEFINE D == PerStep
           F == FullSlots(r)
           G == SmSlots(r)
<1>1. /\ memory \in Nat /\ Steps \in Nat \ {0} /\ PlannedLayers \in Nat \ {0}
      /\ SmSlot \in Nat \ {0} /\ r \in Nat /\ Steps - r \in Nat
  BY PlanningAssumption
<1>2. \A a, b \in Nat : a * b \in Nat /\ (a # 0 /\ b # 0 => a * b # 0)
  OBVIOUS
<1>3. PlannedLayers * Steps \in Nat \ {0}
  BY <1>1, <1>2
<1>4. D \in Nat \ {0}
  BY <1>1, <1>2, <1>3 DEF PerStep
<1>5. PlannedLayers * Steps * 2 * SmSlot = 2 * D
  <2>1. \A a, b \in Nat : a * 2 * b = 2 * (a * b)
    OBVIOUS
  <2>2. QED
    BY <1>1, <1>3, <2>1 DEF PerStep
<1>6. r * memory \in Nat /\ Steps * memory \in Nat /\ (Steps - r) * memory \in Nat
  BY <1>1, <1>2
<1>7. (Steps - r) * memory = Steps * memory - r * memory
  <2>1. \A a, b, c \in Int : (a - b) * c = a * c - b * c
    OBVIOUS
  <2>2. QED
    BY <1>1, <2>1
<1>8. F \in Nat /\ G \in Nat
  BY SlotsNumber
<1>9. F = (r * memory) \div (2 * D)
  BY <1>5 DEF FullSlots
<1>10. G = (Steps * memory - r * memory) \div D
  BY <1>7 DEF SmSlots, PerStep
<1> HIDE DEF D, F, G
<1>11. 2 * D \in Nat \ {0} /\ 2 * D \in Int
  BY <1>4
<1>12. 2 * D * F <= r * memory /\ r * memory < 2 * D * F + 2 * D
  <2> DEFINE E == 2 * D
             x == r * memory
  <2>1. E \in Nat \ {0} /\ x \in Int /\ F = x \div E
    BY <1>6, <1>9, <1>11
  <2> HIDE DEF E, x
  <2>2. E * F <= x /\ x < E * F + E
    BY <2>1, Quotient
  <2>3. QED
    BY <2>2 DEF E, x
<1>13. D * G <= Steps * memory - r * memory /\ Steps * memory - r * memory < D * G + D
  <2>1. Steps * memory - r * memory \in Int
    BY <1>6
  <2>2. QED
    BY <1>4, <1>10, <2>1, Quotient
<1>14. 2 * D * F = 2 * (D * F)
  BY <1>4, <1>8
<1>15. QED
  BY <1>4, <1>6, <1>8, <1>12, <1>13, <1>14 DEF D, F, G

\* If a small ratio fits then so does one of two thirds.
LEMMA LargerFits ==
  ASSUME memory \in Memories, NEW r \in 1..(Steps - 1), Fits(r), 10 * r < 3 * Steps
  PROVE  \E q \in 1..(Steps - 1) : Fits(q) /\ 10 * q >= 3 * Steps
<1> DEFINE q == (2 * Steps + 2) \div 3
           D == PerStep
           F == FullSlots(r)
           G == SmSlots(r)
           A == FullSlots(q)
           B == SmSlots(q)
           x == r * memory
           y == q * memory
           t == Steps * memory
<1>1. Steps \in Nat /\ memory \in Nat /\ PlannedLayers \in Nat \ {0}
      /\ RankedExperts \in Nat \ {0} /\ Steps >= 4
  BY PlanningAssumption
<1>2. /\ q \in Int /\ 3 * q >= 2 * Steps /\ 20 * q <= 17 * Steps
      /\ q \in 1..(Steps - 1) /\ q \in 0..Steps /\ r \in 0..Steps /\ 10 * q >= 3 * Steps
  BY <1>1
<1> HIDE DEF q
<1>3. /\ D \in Nat \ {0} /\ F \in Nat /\ G \in Nat /\ x \in Nat /\ t \in Nat
      /\ 2 * (D * F) <= x /\ x < 2 * (D * F) + 2 * D
      /\ D * G <= t - x /\ t - x < D * G + D
  BY <1>2, SlotsOf
<1>4. /\ A \in Nat /\ B \in Nat /\ y \in Nat
      /\ 2 * (D * A) <= y /\ y < 2 * (D * A) + 2 * D
      /\ D * B <= t - y /\ t - y < D * B + D
  BY <1>2, SlotsOf
<1>5. 10 * x <= 3 * t /\ 3 * y >= 2 * t /\ 20 * y <= 17 * t
  <2>1. \A a, b, c \in Nat : a <= b => a * c <= b * c
    OBVIOUS
  <2>2. \A a \in Nat : \A b, c \in Nat : (a * b) * c = a * (b * c)
    OBVIOUS
  <2>3. r \in Nat /\ q \in Nat
    BY <1>2
  <2>4. (10 * r) * memory <= (3 * Steps) * memory
    BY <1>1, <2>1, <2>3
  <2>5. (2 * Steps) * memory <= (3 * q) * memory
    BY <1>1, <1>2, <2>1, <2>3
  <2>6. (20 * q) * memory <= (17 * Steps) * memory
    BY <1>1, <1>2, <2>1, <2>3
  <2>7. /\ (10 * r) * memory = 10 * x /\ (3 * Steps) * memory = 3 * t
        /\ (2 * Steps) * memory = 2 * t /\ (3 * q) * memory = 3 * y
        /\ (20 * q) * memory = 20 * y /\ (17 * Steps) * memory = 17 * t
    BY <1>1, <2>2, <2>3
  <2>8. QED
    BY <2>4, <2>5, <2>6, <2>7
<1>6. F + G <= RankedExperts /\ F * PlannedLayers >= RankedExperts
  BY DEF Fits
<1>7. F >= 1
  <2>1. 0 * PlannedLayers = 0
    BY <1>1
  <2>2. F # 0
    BY <1>1, <1>6, <2>1
  <2>3. QED
    BY <1>3, <2>2
<1> HIDE DEF D, F, G, A, B, x, y, t
<1>8. D * F \in Nat /\ D * G \in Nat /\ D * A \in Nat /\ D * B \in Nat
  BY <1>3, <1>4
<1>9. D * F >= D
  <2>1. \A a, b \in Nat : b >= 1 => a * b >= a
    OBVIOUS
  <2>2. QED
    BY <1>3, <1>7, <2>1
<1>10. F <= A
  <2>1. D * F < D * A + D
    BY <1>3, <1>4, <1>5, <1>8
  <2>2. F \in Int /\ A \in Int
    BY <1>3, <1>4
  <2>3. QED
    BY <1>3, <2>1, <2>2, Multiples
<1>11. F <= B
  <2>1. D * F < D * B + D
    BY <1>3, <1>4, <1>5, <1>8
  <2>2. F \in Int /\ B \in Int
    BY <1>3, <1>4
  <2>3. QED
    BY <1>3, <2>1, <2>2, Multiples
<1>12. A + B <= F + G
  <2>1. D * A + D * B < D * F + D * G + D
    BY <1>3, <1>4, <1>5, <1>8, <1>9
  <2>2. D * (A + B) = D * A + D * B /\ D * (F + G) = D * F + D * G
    BY <1>3, <1>4
  <2>3. A + B \in Int /\ F + G \in Int
    BY <1>3, <1>4
  <2>4. D * (A + B) < D * (F + G) + D
    BY <2>1, <2>2
  <2>5. QED
    BY <1>3, <2>3, <2>4, Multiples
<1>13. A * PlannedLayers >= F * PlannedLayers /\ B * PlannedLayers >= F * PlannedLayers
  <2>1. \A a, b, c \in Nat : a <= b => b * c >= a * c
    OBVIOUS
  <2>2. QED
    BY <1>1, <1>3, <1>4, <1>10, <1>11, <2>1
<1>14. F * PlannedLayers \in Nat /\ A * PlannedLayers \in Nat /\ B * PlannedLayers \in Nat
  BY <1>1, <1>3, <1>4
<1>15. /\ A + B <= RankedExperts /\ A * PlannedLayers >= RankedExperts
       /\ B * PlannedLayers >= RankedExperts
  BY <1>1, <1>3, <1>4, <1>6, <1>12, <1>13, <1>14
<1>16. Fits(q)
  BY <1>15 DEF Fits, A, B
<1>17. QED
  BY <1>2, <1>16

\* Of fractions compared crosswise, one is the lowest, and the first such.
LEMMA LowestFraction ==
  ASSUME NEW s, NEW n, NEW m \in Nat,
         \A i \in 1..(m + 1) : s[i] \in Nat /\ n[i] \in Nat \ {0}
  PROVE  \E i \in 1..(m + 1) : \A j \in 1..(m + 1) :
           /\ s[i] * n[j] <= s[j] * n[i]
           /\ j < i => ~(s[j] * n[i] <= s[i] * n[j])
<1> DEFINE Lowest(i, k) == \A j \in 1..(k + 1) : /\ s[i] * n[j] <= s[j] * n[i]
                                                 /\ j < i => ~(s[j] * n[i] <= s[i] * n[j])
           G == {k \in Nat : k <= m => \E i \in 1..(k + 1) : Lowest(i, k)}
<1>1. 0 \in G
  <2>1. 1 \in 1..(0 + 1) /\ \A j \in 1..(0 + 1) : j = 1
    OBVIOUS
  <2>2. s[1] * n[1] \in Nat
    <3>1. 1 \in 1..(m + 1)
      OBVIOUS
    <3>2. QED
      BY <3>1
  <2>3. Lowest(1, 0)
    BY <2>1, <2>2
  <2> HIDE DEF Lowest
  <2>4. QED
    BY <2>1, <2>3
<1>2. ASSUME NEW k \in Nat, k \in G PROVE k + 1 \in G
  <2>1. ASSUME k + 1 <= m PROVE \E i \in 1..((k + 1) + 1) : Lowest(i, k + 1)
    <3>1. PICK i \in 1..(k + 1) : Lowest(i, k)
      BY <1>2, <2>1
    <3> DEFINE z == k + 2
    <3>2. /\ z \in 1..((k + 1) + 1) /\ i \in 1..((k + 1) + 1) /\ i < z
          /\ i \in 1..(m + 1) /\ z \in 1..(m + 1) /\ z \notin 1..(k + 1)
          /\ \A j \in 1..((k + 1) + 1) : j \in 1..(m + 1) /\ (j = z \/ j \in 1..(k + 1))
      BY <2>1
    <3> HIDE DEF z
    <3>3. \A j \in 1..(k + 1) : /\ s[i] * n[j] <= s[j] * n[i]
                                /\ j < i => ~(s[j] * n[i] <= s[i] * n[j])
      BY <3>1
    <3>4. /\ s[i] \in Nat /\ s[z] \in Nat /\ n[i] \in Nat \ {0} /\ n[z] \in Nat \ {0}
      BY <3>2
    <3>5. s[i] * n[z] \in Nat /\ s[z] * n[i] \in Nat /\ s[z] * n[z] \in Nat
      BY <3>4
    <3>6. CASE s[i] * n[z] <= s[z] * n[i]
      <4>1. ASSUME NEW j \in 1..((k + 1) + 1)
            PROVE  /\ s[i] * n[j] <= s[j] * n[i]
                   /\ j < i => ~(s[j] * n[i] <= s[i] * n[j])
        <5>1. CASE j = z
          BY <2>1, <3>2, <3>6, <5>1
        <5>2. CASE j \in 1..(k + 1)
          BY <3>3, <5>2
        <5>3. QED
          BY <3>2, <5>1, <5>2
      <4>2. Lowest(i, k + 1)
        BY <4>1
      <4> HIDE DEF Lowest
      <4>3. QED
        BY <3>2, <4>2
    <3>7. CASE ~(s[i] * n[z] <= s[z] * n[i])
      <4>1. ASSUME NEW j \in 1..((k + 1) + 1)
            PROVE  /\ s[z] * n[j] <= s[j] * n[z]
                   /\ j < z => ~(s[j] * n[z] <= s[z] * n[j])
        <5>1. CASE j = z
          BY <2>1, <3>2, <3>5, <5>1
        <5>2. CASE j \in 1..(k + 1)
          <6> DEFINE a == s[i]
                     b == n[i]
                     c == s[z]
                     d == n[z]
                     e == s[j]
                     f == n[j]
          <6>1. e \in Nat /\ f \in Nat \ {0}
            BY <3>2
          <6>2. a * f <= e * b /\ c * b < a * d
            <7>1. a * f <= e * b
              BY <3>3, <5>2
            <7>2. QED
              BY <3>5, <3>7, <7>1
          <6>3. a \in Nat /\ b \in Nat \ {0} /\ c \in Nat /\ d \in Nat \ {0}
            BY <3>4
          <6> HIDE DEF a, b, c, d, e, f
          <6>4. c * f < e * d
            <7>1. \A u, v, w \in Nat : u * v * w = u * w * v /\ u * v \in Nat
              OBVIOUS
            <7>2. \A u, v \in Nat : \A w \in Nat \ {0} : u < v => u * w < v * w
              OBVIOUS
            <7>3. \A u, v, w \in Nat : u <= v => u * w <= v * w
              OBVIOUS
            <7>4. c * b * f < a * d * f
              BY <6>1, <6>2, <6>3, <7>1, <7>2
            <7>5. a * f * d <= e * b * d
              BY <6>1, <6>2, <6>3, <7>1, <7>3
            <7>6. /\ c * b * f = c * f * b /\ a * d * f = a * f * d /\ e * b * d = e * d * b
                  /\ c * f \in Nat /\ e * d \in Nat
              BY <6>1, <6>3, <7>1
            <7>7. c * f * b < e * d * b
              <8>1. c * f * b \in Nat /\ a * f * d \in Nat /\ e * d * b \in Nat
                BY <6>1, <6>3
              <8>2. QED
                BY <7>4, <7>5, <7>6, <8>1
            <7>8. \A u, v, w \in Nat : u * w < v * w => u < v
              <8>1. ASSUME NEW u \in Nat, NEW v \in Nat, NEW w \in Nat, v <= u
                    PROVE  v * w <= u * w
                BY <7>3, <8>1
              <8>2. \A u, v, w \in Nat : u * w \in Nat /\ v * w \in Nat
                OBVIOUS
              <8>3. QED
                BY <8>1, <8>2
            <7>9. QED
              BY <6>3, <7>6, <7>7, <7>8
          <6>5. c * f \in Nat /\ e * d \in Nat
            BY <6>1, <6>3
          <6>6. c * f <= e * d /\ ~(e * d <= c * f)
            BY <6>4, <6>5
          <6>7. QED
            BY <6>6 DEF c, f, e, d
        <5>3. QED
          BY <3>2, <5>1, <5>2
      <4>2. Lowest(z, k + 1)
        BY <4>1
      <4> HIDE DEF Lowest
      <4>3. QED
        BY <3>2, <4>2
    <3>8. QED
      BY <3>6, <3>7
  <2> HIDE DEF Lowest
  <2>2. QED
    BY <2>1
<1> HIDE DEF G
<1>3. \A k \in Nat : k \in G
  BY <1>1, <1>2, Numbers
<1>4. \E i \in 1..(m + 1) : Lowest(i, m)
  <2>1. m \in G /\ m <= m
    BY <1>3
  <2> HIDE DEF Lowest
  <2>2. QED
    BY <2>1 DEF G
<1>5. QED
  BY <1>4

\* The ratios the pools of which fit.
Fitting == {r \in 1..(Steps - 1) : Fits(r)}
CostsInv ==
  /\ costs \in Seq([ratio : Fitting, cost : Nat])
  /\ \A r \in Fitting : r <= tried => \E i \in DOMAIN costs : costs[i].ratio = r

\* One of the ratios simulated has the lowest mean.
LEMMA BestExists ==
  ASSUME costs \in Seq([ratio : Fitting, cost : Nat]), NEW k \in DOMAIN costs
  PROVE  Best \in DOMAIN costs
<1> DEFINE s == [i \in DOMAIN costs |-> Smooth(i).sum]
           n == [i \in DOMAIN costs |-> Smooth(i).n]
           c == [j \in DOMAIN costs |-> costs[j].cost]
           m == Len(costs) - 1
<1>1. DOMAIN costs = 1..Len(costs) /\ Len(costs) \in Nat /\ k \in 1..Len(costs)
  OBVIOUS
<1>2. m \in Nat /\ DOMAIN costs = 1..(m + 1)
  BY <1>1
<1>3. ASSUME NEW i \in DOMAIN costs PROVE s[i] \in Nat /\ n[i] \in Nat \ {0}
  <2>1. Window(i) \in SUBSET DOMAIN costs /\ i \in Window(i)
    BY <1>1 DEF Window
  <2>2. IsFiniteSet(DOMAIN costs)
    <3>1. 1 \in Int /\ Len(costs) \in Int
      BY <1>1
    <3>2. QED
      BY <1>1, <3>1, FS_Interval
  <2>3. IsFiniteSet(Window(i)) /\ Cardinality(Window(i)) \in Nat /\ Cardinality(Window(i)) # 0
    BY <2>1, <2>2, FS_Subset, FS_CardinalityType, FS_EmptySet
  <2>4. \A j \in Window(i) : c[j] \in Nat
    <3>1. ASSUME NEW j \in Window(i) PROVE c[j] \in Nat
      <4>1. j \in DOMAIN costs /\ j \in 1..Len(costs)
        BY <1>1, <2>1
      <4>2. costs[j] \in [ratio : Fitting, cost : Nat]
        BY <4>1, ElementOfSeq
      <4>3. costs[j].cost \in Nat
        BY <4>2
      <4>4. QED
        BY <4>1, <4>3
    <3>2. QED
      BY <3>1
  <2>5. Smooth(i).sum = SumFunctionOnSet(c, Window(i)) /\ Smooth(i).n = Cardinality(Window(i))
    BY DEF Smooth
  <2> HIDE DEF c
  <2>6. SumFunctionOnSet(c, Window(i)) \in Nat
    BY <2>3, <2>4, SumParts
  <2>7. QED
    BY <2>3, <2>5, <2>6
<1>4. \A i, j \in DOMAIN costs : NoHigher(i, j) <=> s[i] * n[j] <= s[j] * n[i]
  BY DEF NoHigher
<1> HIDE DEF s, n, m
<1>5. \A i \in 1..(m + 1) : s[i] \in Nat /\ n[i] \in Nat \ {0}
  BY <1>2, <1>3
<1>6. \E i \in 1..(m + 1) : \A j \in 1..(m + 1) :
        /\ s[i] * n[j] <= s[j] * n[i]
        /\ j < i => ~(s[j] * n[i] <= s[i] * n[j])
  BY <1>2, <1>5, LowestFraction
<1>7. \E i \in DOMAIN costs : \A j \in DOMAIN costs :
        NoHigher(i, j) /\ (j < i => ~NoHigher(j, i))
  BY <1>2, <1>4, <1>6
<1>8. QED
  BY <1>7 DEF Best

\* With all ratios simulated and one of them fitting, the ratio returned fits.
LEMMA BestFits ==
  ASSUME memory \in Memories, CostsInv, tried = Steps - 1, Fitting # {}
  PROVE  BestRatio \in Fitting
<1>1. PICK r \in Fitting : TRUE
  OBVIOUS
<1>2. \E q \in Fitting : 10 * q >= 3 * Steps
  <2>1. r \in 1..(Steps - 1) /\ Fits(r) /\ Steps \in Nat
    BY PlanningAssumption DEF Fitting
  <2>2. CASE 10 * r >= 3 * Steps
    BY <2>2
  <2>3. CASE 10 * r < 3 * Steps
    <3>1. \E q \in 1..(Steps - 1) : Fits(q) /\ 10 * q >= 3 * Steps
      BY <2>1, <2>3, LargerFits
    <3>2. QED
      BY <3>1 DEF Fitting
  <2>4. QED
    BY <2>1, <2>2, <2>3
<1>3. PICK q \in Fitting : 10 * q >= 3 * Steps
  BY <1>2
<1>4. q <= tried
  BY PlanningAssumption DEF Fitting
<1>5. PICK i \in DOMAIN costs : costs[i].ratio = q
  BY <1>4 DEF CostsInv
<1>6. BestRatio = costs[Best].ratio
  BY <1>3, <1>5 DEF BestRatio
<1>7. costs \in Seq([ratio : Fitting, cost : Nat])
  BY DEF CostsInv
<1>8. Best \in DOMAIN costs
  BY <1>5, <1>7, BestExists
<1>9. costs[Best] \in [ratio : Fitting, cost : Nat]
  <2>1. Best \in 1..Len(costs)
    BY <1>7, <1>8
  <2>2. QED
    BY <1>7, <2>1, ElementOfSeq
<1>10. QED
  BY <1>6, <1>9

\* Rounding up.
LEMMA RoundedUp ==
  ASSUME NEW a \in Int, NEW b \in Nat \ {0}
  PROVE  Up(a, b) \in Int /\ a <= b * Up(a, b) /\ b * Up(a, b) < a + b
<1> DEFINE q == (a + b - 1) \div b
<1>1. a + b - 1 \in Int
  OBVIOUS
<1>2. q \in Int /\ b * q <= a + b - 1 /\ a + b - 1 < b * q + b
  BY <1>1, Quotient
<1>3. Up(a, b) = q
  BY DEF Up
<1> HIDE DEF q
<1>4. b * q \in Int
  BY <1>2
<1>5. QED
  BY <1>2, <1>3, <1>4

PlanTyped == plan \in [ratio : Nat, of : Nat \ {0}, feasible : BOOLEAN]

\* The constructor makes less than two slots too many.
LEMMA MadeWithin ==
  ASSUME memory \in Memories, PlanTyped
  PROVE  /\ GpuPoolSize \in Nat /\ GpuSlotsMade \in Int /\ SmSlotsMade \in Int
         /\ GpuPoolSize <= 2 * (SmSlot * GpuSlotsMade)
         /\ memory - GpuPoolSize <= SmSlot * SmSlotsMade
         /\ ((GpuSlotsMade * 2) + SmSlotsMade) * SmSlot < memory + 3 * SmSlot
<1> DEFINE g == GpuPoolSize
           u == SmSlot
           A == GpuSlotsMade
           B == SmSlotsMade
<1>1. memory \in Nat /\ u \in Nat \ {0} /\ 2 * u \in Nat \ {0}
  BY PlanningAssumption
<1>2. plan.ratio \in Nat /\ plan.of \in Nat \ {0}
  BY DEF PlanTyped
<1>3. g \in Nat
  <2>1. plan.ratio * memory \in Nat
    BY <1>1, <1>2
  <2>2. g \in Int /\ g >= 0
    BY <1>2, <2>1, Quotient DEF GpuPoolSize
  <2>3. QED
    BY <2>2
<1>4. A = Up(g, 2 * u) /\ B = Up(memory - g, u)
  BY DEF GpuSlotsMade, SmSlotsMade
<1> HIDE DEF g, u, A, B
<1>5. A \in Int /\ g <= 2 * u * A /\ 2 * u * A < g + 2 * u
  <2> DEFINE v == 2 * u
  <2>1. v \in Nat \ {0} /\ g \in Int /\ A = Up(g, v)
    BY <1>1, <1>3, <1>4
  <2> HIDE DEF v
  <2>2. A \in Int /\ g <= v * A /\ v * A < g + v
    BY <2>1, RoundedUp
  <2>3. QED
    BY <2>2 DEF v
<1>6. B \in Int /\ memory - g <= u * B /\ u * B < memory - g + u
  <2>1. memory - g \in Int
    BY <1>1, <1>3
  <2>2. QED
    BY <1>1, <1>4, <2>1, RoundedUp
<1>7. 2 * u * A = 2 * (u * A) /\ u * A \in Int /\ u * B \in Int
      /\ ((A * 2) + B) * u = 2 * (u * A) + u * B
  <2>1. \A x, y, z \in Int : /\ 2 * x * y = 2 * (x * y) /\ x * y \in Int
                             /\ ((y * 2) + z) * x = 2 * (x * y) + x * z
    OBVIOUS
  <2>2. u \in Int
    BY <1>1
  <2>3. QED
    BY <1>5, <1>6, <2>1, <2>2
<1>8. ((A * 2) + B) * u < memory + 3 * u
  BY <1>1, <1>3, <1>5, <1>6, <1>7
<1>9. g <= 2 * (u * A)
  BY <1>5, <1>7
<1>10. QED
  BY <1>3, <1>5, <1>6, <1>8, <1>9 DEF g, u, A, B

\* Nor fewer than were planned.
LEMMA MadeEnough ==
  ASSUME memory \in Memories, PlanTyped, plan.of = Steps, plan.ratio \in 0..Steps
  PROVE  /\ GpuSlotsMade >= PlannedLayers * FullSlots(plan.ratio)
         /\ SmSlotsMade >= PlannedLayers * SmSlots(plan.ratio)
<1> DEFINE r == plan.ratio
           g == GpuPoolSize
           u == SmSlot
           L == PlannedLayers
           S == Steps
           D == PerStep
           F == FullSlots(r)
           G == SmSlots(r)
           A == GpuSlotsMade
           B == SmSlotsMade
           x == r * memory
<1>1. memory \in Nat /\ u \in Nat \ {0} /\ L \in Nat \ {0} /\ S \in Nat \ {0} /\ r \in Nat
  BY PlanningAssumption DEF PlanTyped
<1>2. /\ D \in Nat \ {0} /\ F \in Nat /\ G \in Nat /\ x \in Nat /\ S * memory \in Nat
      /\ 2 * (D * F) <= x /\ D * G <= S * memory - x
  BY SlotsOf
<1>3. /\ g \in Nat /\ A \in Int /\ B \in Int /\ g <= 2 * (u * A) /\ memory - g <= u * B
  BY MadeWithin
<1>4. D = L * S * u /\ g = x \div S
  BY DEF PerStep, GpuPoolSize
<1> HIDE DEF g, u, L, S, D, F, G, A, B, x
<1>5. x \in Int /\ S * g <= x /\ x < S * g + S
  <2>1. x \in Int
    BY <1>2
  <2>2. QED
    BY <1>1, <1>4, <2>1, Quotient
<1>6. \A a, b, c, d \in Int : a * b * c * d = b * (c * (a * d)) /\ a * b \in Int
  OBVIOUS
<1>7. /\ D * F = S * (u * (L * F)) /\ D * G = S * (u * (L * G))
      /\ L * F \in Int /\ L * G \in Int
  BY <1>1, <1>2, <1>4, <1>6
<1> DEFINE p == L * F
           q == L * G
<1>8. p \in Int /\ q \in Int /\ u * p \in Int /\ u * q \in Int /\ u * A \in Int /\ u * B \in Int
  BY <1>1, <1>3, <1>7
<1> HIDE DEF p, q
<1>9. D * F = S * (u * p) /\ D * G = S * (u * q)
  BY <1>7 DEF p, q
<1>10. p <= A
  <2>1. 2 * (S * (u * p)) = S * (2 * (u * p)) /\ S * (2 * (u * p)) \in Int
    BY <1>1, <1>8
  <2>2. S * (2 * (u * p)) < S * g + S
    BY <1>1, <1>2, <1>3, <1>5, <1>9, <2>1
  <2>3. 2 * (u * p) \in Int /\ g \in Int
    BY <1>3, <1>8
  <2>4. 2 * (u * p) <= g
    BY <1>1, <2>2, <2>3, Multiples
  <2>5. u * p < u * A + u
    BY <1>1, <1>3, <1>8, <2>3, <2>4
  <2>6. QED
    BY <1>1, <1>3, <1>8, <2>5, Multiples
<1>11. q <= B
  <2>1. S * (memory - g) = S * memory - S * g /\ S * g \in Int /\ S * (u * q) \in Int
    BY <1>1, <1>3, <1>8
  <2>2. S * (u * q) <= S * memory - x
    BY <1>2, <1>9
  <2>3. S * (u * q) < S * (memory - g) + S
    BY <1>1, <1>2, <1>5, <2>1, <2>2
  <2>4. u * q \in Int /\ memory - g \in Int
    BY <1>1, <1>3, <1>8
  <2>5. u * q <= memory - g
    BY <1>1, <2>3, <2>4, Multiples
  <2>6. u * q < u * B + u
    BY <1>1, <1>3, <1>8, <2>4, <2>5
  <2>7. QED
    BY <1>1, <1>3, <1>8, <2>6, Multiples
<1>12. QED
  BY <1>3, <1>8, <1>10, <1>11 DEF p, q, L, F, G, A, B

\* What planning has made of the ratios it tried.
PlanInv ==
  /\ WeightsInv /\ tried \in 0..(Steps - 1) /\ CostsInv /\ PlanTyped
  /\ planning \notin {"simulate", "done"} => tried = 0
  /\ plan.feasible <=> \E r \in Fitting : r <= tried
  /\ planning # "done" => plan.of = Steps
  /\ planning = "done" => IF plan.feasible THEN plan.of = Steps /\ plan.ratio \in Fitting
                          ELSE policy = "LFU"

\* Nothing is tried at first.
LEMMA PlanStart == PlanningInit => PlanInv
<1> SUFFICES ASSUME PlanningInit PROVE PlanInv
  OBVIOUS
<1>1. Steps \in Nat /\ Steps >= 2
  BY PlanningAssumption
<1>2. /\ memory \in Memories /\ tried = 0 /\ costs = <<>> /\ planning = "trace"
      /\ plan = [ratio |-> 0, of |-> Steps, feasible |-> FALSE]
  BY DEF PlanningInit
<1>3. \A r \in Fitting : ~(r <= tried)
  BY <1>2 DEF Fitting
<1>4. CostsInv
  BY <1>2, <1>3 DEF CostsInv
<1>5. QED
  BY <1>1, <1>2, <1>3, <1>4 DEF PlanInv, WeightsInv, PlanTyped

\* What fits depends on the memory only.
LEMMA FittingKept ==
  ASSUME memory' = memory
  PROVE  Fitting' = Fitting
BY DEF Fitting, Fits, FullSlots, SmSlots

\* Before the simulation no ratio is tried.
LEMMA EarlyKeepsPlan ==
  ASSUME PlanInv, UNCHANGED <<memory, tried, costs, plan, policy>>, WeightsInv',
         planning \notin {"simulate", "done"}, planning' # "done"
  PROVE  PlanInv'
<1>1. Fitting' = Fitting
  BY FittingKept
<1>2. CostsInv' /\ PlanTyped'
  BY <1>1 DEF PlanInv, CostsInv, PlanTyped
<1>3. tried = 0 /\ plan.of = Steps /\ (plan.feasible <=> \E r \in Fitting : r <= tried)
  BY DEF PlanInv
<1>4. tried \in 0..(Steps - 1)
  BY DEF PlanInv
<1>5. QED
  BY <1>1, <1>2, <1>3, <1>4 DEF PlanInv

\* Simulating one more ratio.
LEMMA SimulateKeepsPlan ==
  ASSUME PlanInv, Simulate, WeightsInv'
  PROVE  PlanInv'
<1> DEFINE t == tried + 1
           e == [ratio |-> t, cost |-> Cost(Dists(t))]
<1>1. /\ planning = "simulate" /\ tried < Steps - 1 /\ tried' = t
      /\ plan' = [plan EXCEPT !.feasible = @ \/ Fits(t)]
      /\ costs' = IF Fits(t) /\ Total(Dists(t)) > 0 THEN Append(costs, e) ELSE costs
      /\ memory' = memory /\ planning' = planning /\ policy' = policy
  BY DEF Simulate
<1>2. t \in 1..(Steps - 1) /\ tried \in 0..(Steps - 1) /\ Steps \in Nat
  <2>1. Steps \in Nat /\ tried \in 0..(Steps - 1)
    BY PlanningAssumption DEF PlanInv
  <2>2. tried < Steps - 1
    BY <1>1
  <2>3. QED
    BY <2>1, <2>2
<1>3. memory \in Memories /\ probWeight \in [Ranks -> Nat]
  BY <1>1 DEF PlanInv, WeightsInv
<1>4. Fitting' = Fitting
  BY <1>1, FittingKept
<1>5. Fits(t) <=> t \in Fitting
  BY <1>2 DEF Fitting
<1>6. costs \in Seq([ratio : Fitting, cost : Nat])
      /\ \A r \in Fitting : r <= tried => \E i \in DOMAIN costs : costs[i].ratio = r
  BY DEF PlanInv, CostsInv
<1>7. \A r \in Fitting : r <= t <=> r <= tried \/ r = t
  BY <1>2 DEF Fitting
<1>8. CostsInv'
  <2>1. CASE Fits(t)
    <3>1. costs' = Append(costs, e)
      BY <1>1, <1>2, <1>3, <2>1, TotalPositive
    <3>2. Cost(Dists(t)) \in Nat
      BY <1>2, <1>3, <2>1, CostNumber
    <3>3. e \in [ratio : Fitting, cost : Nat] /\ e.ratio = t
      BY <1>5, <2>1, <3>2
    <3> HIDE DEF e, t
    <3>4. /\ costs' \in Seq([ratio : Fitting, cost : Nat])
          /\ DOMAIN costs' = 1..(Len(costs) + 1) /\ DOMAIN costs = 1..Len(costs)
          /\ costs'[Len(costs) + 1] = e /\ Len(costs) \in Nat
          /\ \A i \in DOMAIN costs : i \in DOMAIN costs' /\ costs'[i] = costs[i]
      BY <1>6, <3>1, <3>3
    <3>5. ASSUME NEW r \in Fitting, r <= t PROVE \E i \in DOMAIN costs' : costs'[i].ratio = r
      <4>1. CASE r <= tried
        <5>1. PICK i \in DOMAIN costs : costs[i].ratio = r
          BY <1>6, <4>1
        <5>2. i \in DOMAIN costs' /\ costs'[i] = costs[i]
          BY <3>4
        <5>3. QED
          BY <5>1, <5>2
      <4>2. CASE r = t
        <5>1. Len(costs) + 1 \in DOMAIN costs'
          BY <3>4
        <5>2. QED
          BY <3>3, <3>4, <4>2, <5>1
      <4>3. QED
        BY <1>7, <3>5, <4>1, <4>2
    <3>6. QED
      BY <1>1, <1>4, <3>4, <3>5 DEF CostsInv
  <2>2. CASE ~Fits(t)
    <3>1. costs' = costs
      BY <1>1, <2>2
    <3>2. \A r \in Fitting : r <= t => r <= tried
      BY <1>5, <1>7, <2>2
    <3> HIDE DEF t
    <3>3. QED
      BY <1>1, <1>4, <1>6, <3>1, <3>2 DEF CostsInv
  <2>3. QED
    BY <2>1, <2>2
<1> HIDE DEF e, t
<1>9. PlanTyped' /\ plan'.feasible = (plan.feasible \/ Fits(t)) /\ plan'.of = Steps
  <2>1. plan \in [ratio : Nat, of : Nat \ {0}, feasible : BOOLEAN] /\ plan.of = Steps
    BY <1>1 DEF PlanInv, PlanTyped
  <2>2. Fits(t) \in BOOLEAN
    BY DEF Fits
  <2>3. plan' \in [ratio : Nat, of : Nat \ {0}, feasible : BOOLEAN]
        /\ plan'.feasible = (plan.feasible \/ Fits(t)) /\ plan'.of = plan.of
    BY <1>1, <2>1, <2>2
  <2>4. QED
    BY <2>1, <2>3 DEF PlanTyped
<1>10. plan'.feasible <=> \E r \in Fitting : r <= t
  <2>1. plan.feasible <=> \E r \in Fitting : r <= tried
    BY DEF PlanInv
  <2>2. QED
    BY <1>5, <1>7, <1>9, <2>1
<1>11. tried' \in 0..(Steps - 1)
  BY <1>1, <1>2
<1>12. QED
  BY <1>1, <1>4, <1>8, <1>9, <1>10, <1>11 DEF PlanInv

\* Choosing a ratio.
LEMMA ChooseKeepsPlan ==
  ASSUME PlanInv, Choose, WeightsInv'
  PROVE  PlanInv'
<1>1. /\ planning = "simulate" /\ tried = Steps - 1 /\ planning' = "done"
      /\ plan' = IF plan.feasible THEN [plan EXCEPT !.ratio = BestRatio]
                                  ELSE [plan EXCEPT !.ratio = 99, !.of = 100]
      /\ memory' = memory /\ tried' = tried /\ costs' = costs
      /\ ~plan.feasible => policy' = "LFU"
  BY DEF Choose
<1>2. Fitting' = Fitting
  BY <1>1, FittingKept
<1>3. CostsInv'
  BY <1>1, <1>2 DEF PlanInv, CostsInv
<1>4. plan \in [ratio : Nat, of : Nat \ {0}, feasible : BOOLEAN] /\ plan.of = Steps
  BY <1>1 DEF PlanInv, PlanTyped
<1>5. plan.feasible <=> \E r \in Fitting : r <= tried
  BY DEF PlanInv
<1>6. tried \in 0..(Steps - 1) /\ memory \in Memories /\ CostsInv
  BY DEF PlanInv, WeightsInv
<1>7. CASE plan.feasible
  <2>1. BestRatio \in Fitting
    BY <1>1, <1>5, <1>6, <1>7, BestFits
  <2>2. BestRatio \in Nat
    BY <2>1 DEF Fitting
  <2>3. /\ plan' \in [ratio : Nat, of : Nat \ {0}, feasible : BOOLEAN]
        /\ plan'.feasible /\ plan'.of = Steps /\ plan'.ratio \in Fitting
    BY <1>1, <1>4, <1>7, <2>1, <2>2
  <2>4. QED
    BY <1>1, <1>2, <1>3, <1>5, <1>6, <1>7, <2>3 DEF PlanInv, PlanTyped
<1>8. CASE ~plan.feasible
  <2>1. /\ plan' \in [ratio : Nat, of : Nat \ {0}, feasible : BOOLEAN]
        /\ ~plan'.feasible /\ policy' = "LFU"
    <3>1. plan' = [plan EXCEPT !.ratio = 99, !.of = 100]
      BY <1>1, <1>8
    <3>2. plan' = [ratio |-> 99, of |-> 100, feasible |-> plan.feasible]
      BY <1>4, <3>1
    <3>3. 99 \in Nat /\ 100 \in Nat \ {0} /\ plan.feasible \in BOOLEAN
      BY <1>4
    <3>4. QED
      BY <1>1, <1>8, <3>2, <3>3
  <2>2. QED
    BY <1>1, <1>2, <1>3, <1>5, <1>6, <1>8, <2>1 DEF PlanInv, PlanTyped
<1>9. QED
  BY <1>7, <1>8

\* Every step keeps what planning knows of the ratios.
LEMMA PlanInductive == PlanInv /\ WeightsInv' /\ [PlanningNext]_planningVars => PlanInv'
<1> SUFFICES ASSUME PlanInv, WeightsInv', [PlanningNext]_planningVars PROVE PlanInv'
  OBVIOUS
<1>1. CASE UNCHANGED planningVars
  <2>1. Fitting' = Fitting
    BY <1>1, FittingKept DEF planningVars
  <2>2. QED
    BY <1>1, <2>1 DEF planningVars, PlanInv, CostsInv, PlanTyped
<1>2. CASE ObtainDistFromTrace
  <2>1. /\ UNCHANGED <<memory, tried, costs, plan, policy>>
        /\ planning \notin {"simulate", "done"} /\ planning' # "done"
    BY <1>2 DEF ObtainDistFromTrace
  <2>2. QED
    BY <2>1, EarlyKeepsPlan
<1>3. CASE StartScale \/ Cut
  <2>1. /\ UNCHANGED <<memory, tried, costs, plan, policy>>
        /\ planning \notin {"simulate", "done"} /\ planning' # "done"
    BY <1>3 DEF StartScale, Cut
  <2>2. QED
    BY <2>1, EarlyKeepsPlan
<1>4. CASE FindWeights
  <2>1. /\ UNCHANGED <<memory, tried, costs, plan, policy>>
        /\ planning \notin {"simulate", "done"} /\ planning' # "done"
    BY <1>4 DEF FindWeights
  <2>2. QED
    BY <2>1, EarlyKeepsPlan
<1>5. CASE Simulate
  BY <1>5, SimulateKeepsPlan
<1>6. CASE Choose
  BY <1>6, ChooseKeepsPlan
<1>7. QED
  BY <1>1, <1>2, <1>3, <1>4, <1>5, <1>6 DEF PlanningNext

\* A feasible plan fits, and what the constructor makes of any plan is enough and less
\* than two slots too much: for every trace, weights and memory.
THEOREM PlanIsKept == PlanningSpec => []PlanHolds
<1>1. PlanInv => PlanHolds
  <2> SUFFICES ASSUME PlanInv, planning = "done" PROVE PlanHolds
    BY DEF PlanHolds
  <2>1. memory \in Memories /\ PlanTyped /\ Steps \in Nat
    BY PlanningAssumption DEF PlanInv, WeightsInv
  <2>2. ((GpuSlotsMade * 2) + SmSlotsMade) * SmSlot < memory + 3 * SmSlot
    BY <2>1, MadeWithin
  <2>3. ASSUME plan.feasible
        PROVE  /\ Fits(plan.ratio)
               /\ GpuSlotsMade >= PlannedLayers * FullSlots(plan.ratio)
               /\ SmSlotsMade >= PlannedLayers * SmSlots(plan.ratio)
    <3>1. plan.of = Steps /\ plan.ratio \in Fitting
      BY <2>3 DEF PlanInv
    <3>2. plan.ratio \in 0..Steps /\ Fits(plan.ratio)
      BY <2>1, <3>1 DEF Fitting
    <3>3. QED
      BY <2>1, <3>1, <3>2, MadeEnough
  <2>4. plan.feasible \/ policy = "LFU"
    BY DEF PlanInv
  <2>5. QED
    BY <2>2, <2>3, <2>4 DEF PlanHolds, Fits
<1>2. PlanningInit => PlanInv
  BY PlanStart
<1>3. PlanInv /\ WeightsInv' /\ [PlanningNext]_planningVars => PlanInv'
  BY PlanInductive
<1>4. QED
  BY <1>1, <1>2, <1>3, WeightsKept, PTL DEF PlanningSpec
=============================================================================
