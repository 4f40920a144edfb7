---------------------------- MODULE Ports_proofs ----------------------------
(***************************************************************************)
(* What the two ports keep.                                                *)
(*                                                                         *)
(* The llama.cpp port never multiplies with another load than its expert's *)
(* last, for any number of layers, experts and slots.                      *)
(*                                                                         *)
(* The vLLM port, for any number of layers, experts and patches: patching  *)
(* leaves the layers and their class as they were, the method misses       *)
(* experts only where an address was used again, and the cache evicts the  *)
(* least recently used.                                                    *)
(***************************************************************************)
EXTENDS LlamaCache, VllmPatch, VllmMethod, ProgressiveCache, FiniteSetTheorems,
        SequenceTheorems, WellFoundedInduction, TLAPS

\* What the queues hold and what the host has to do.
Tasks == [op : {"copy", "decode", "multiply"}, slot : Slots, key : Keys]
HostOps == [op : {"prefetch"}, key : Keys, stream : Streams]
             \cup [op : {"use", "skip"}, key : Keys] \cup [op : {"sync"}]
KeysOrNone == Keys \cup {NoKey}
Loaded == [bytes : KeysOrNone, for : KeysOrNone]
TypeInv ==
  /\ slot \in [Slots -> [key : KeysOrNone, tier : 0..2, visits : Nat,
                         pending : BOOLEAN, stream : Streams]]
  /\ comp \in [Slots -> Loaded] /\ weights \in [Slots -> Loaded]
  /\ pinned \in KeysOrNone /\ queue \in [Streams -> Seq(Tasks)]
  /\ hostTodo \in Seq(HostOps)

\* A copy is followed by the decoding of the same load, and preceded by nothing else;
\* when the copy has run, the load is what there is to decode.
Paired(c, q) ==
  /\ \A p \in 1..Len(q) : q[p].op = "copy" =>
       p < Len(q) /\ q[p + 1] = Task("decode", q[p].slot, q[p].key)
  /\ \A p \in 1..Len(q) : q[p].op = "decode" =>
       IF p = 1 THEN c[q[p].slot].for = q[p].key
                ELSE q[p - 1] = Task("copy", q[p].slot, q[p].key)

\* The decodings into slot i before place p of a queue, and what slot i has at p: the
\* last of them or, without any, what it has now.
Loads(q, p, i) == {d \in 1..Len(q) : d < p /\ q[d].op = "decode" /\ q[d].slot = i}
Gives(w, q, p, i, key) ==
  /\ Loads(q, p, i) = {} => w[i].for = key
  /\ \A d \in Loads(q, p, i) : (\A e \in Loads(q, p, i) : e <= d) => q[d].key = key

\* Each product finds its load.
Products == \A p \in 1..Len(queue["compute"]) :
  LET x == queue["compute"][p] IN
  x.op = "multiply" => Gives(weights, queue["compute"], p, x.slot, x.key)

On(s, i) == \E p \in 1..Len(queue[s]) : queue[s][p].slot = i

\* The prefetch stream only loads, into slots that are marked, one at a time, and for
\* which the other stream has nothing to do.
Prefetching ==
  /\ \A p \in 1..Len(queue["prefetch"]) : queue["prefetch"][p].op # "multiply"
  /\ \A i \in Slots : On("prefetch", i) =>
       slot[i].pending /\ slot[i].stream = "prefetch" /\ ~On("compute", i)
  /\ \A i \in Slots : slot[i].key = NoKey => ~slot[i].pending

\* When all that is queued has run, a slot has what its key says.
KeysHold == \A i \in Slots : slot[i].key # NoKey =>
  LET q == IF On("prefetch", i) THEN queue["prefetch"] ELSE queue["compute"] IN
  Gives(weights, q, Len(q) + 1, i, slot[i].key)

\* While something is to be prefetched on the other stream, this one is empty.
PrefetchesFirst == \A j \in 1..Len(hostTodo) :
  hostTodo[j].op = "prefetch" /\ hostTodo[j].stream = "prefetch" =>
    /\ queue["compute"] = <<>>
    /\ \A h \in 1..(j - 1) : hostTodo[h].op = "prefetch" /\ hostTodo[h].stream = "prefetch"

LlamaInv == /\ TypeInv /\ Paired(comp, queue["compute"]) /\ Paired(comp, queue["prefetch"])
            /\ Products /\ Prefetching /\ KeysHold /\ PrefetchesFirst
            /\ MultipliesItsLoad
-----------------------------------------------------------------------------
\* A nonempty set of numbers has a least one.
LEMMA LeastExists ==
  ASSUME NEW T, T \subseteq Nat, T # {}
  PROVE  \E x \in T : \A y \in T : x <= y
<1>1. \E x \in T : \A y \in T : ~ (<<y, x>> \in OpToRel(<, Nat))
  BY NatLessThanWellFounded, WFMin
<1>2. PICK x \in T : \A y \in T : ~ (<<y, x>> \in OpToRel(<, Nat))
  BY <1>1
<1>3. ASSUME NEW y \in T PROVE x <= y
  <2>1. ~ (<<y, x>> \in OpToRel(<, Nat))
    BY <1>2
  <2>2. x \in Nat /\ y \in Nat
    OBVIOUS
  <2>3. ~(y < x)
    BY <2>1, <2>2 DEF OpToRel
  <2> QED
    BY <2>2, <2>3
<1> QED
  BY <1>3

LEMMA LowestIn == ASSUME NEW S, S \subseteq Nat, S # {} PROVE Lowest(S) \in S
BY LeastExists DEF Lowest

\* The turns at which a victim may be taken are numbers.
LEMMA TurnType ==
  ASSUME TypeInv, NEW i \in Slots
  PROVE  Lfu \in Slots /\ TakenAt(i) \in Nat /\ \A r \in 0..2 : Turn(i, r) \in Nat
<1> DEFINE S == {j \in Slots : \A m \in Slots : slot[j].visits <= slot[m].visits}
           V == {slot[j].visits : j \in Slots}
<1>1. Slots \subseteq Nat /\ NumSlots \in Nat \ {0} /\ i \in Slots
  BY LlamaAssumption DEF Slots
<1>2. \A j \in Slots : slot[j].visits \in Nat /\ slot[j].tier \in 0..2
  BY DEF TypeInv
<1>3. V \subseteq Nat /\ V # {}
  BY <1>1, <1>2
<1>4. PICK v \in V : \A u \in V : v <= u
  BY <1>3, LeastExists
<1>5. S # {}
  BY <1>4
<1>6. Lfu \in Slots
  <2>1. S \subseteq Nat
    BY <1>1
  <2>2. Lowest(S) \in S
    BY <1>5, <2>1, LowestIn
  <2>3. Lfu = Lowest(S)
    BY DEF Lfu
  <2> QED
    BY <2>2, <2>3
<1>7. Ahead(i) \in Nat
  <2>1. i - Lfu + NumSlots \in Nat
    BY <1>1, <1>6 DEF Slots
  <2> QED
    BY <1>1, <2>1 DEF Ahead
<1>8. \A r \in 0..2 : Turn(i, r) \in Nat
  <2> SUFFICES ASSUME NEW r \in 0..2 PROVE Turn(i, r) \in Nat
    OBVIOUS
  <2>1. r * NumSlots \in Nat
    <3>1. r = 0 \/ r = 1 \/ r = 2
      OBVIOUS
    <3> QED
      BY <1>1, <3>1
  <2> QED
    BY <1>7, <2>1 DEF Turn
<1>9. TakenAt(i) \in Nat
  <2>1. 2 - slot[i].tier \in 0..2
    BY <1>2
  <2> QED
    BY <1>8, <2>1 DEF TakenAt
<1> QED
  BY <1>6, <1>8, <1>9

\* A slot is taken, and a slot its turns come to is demoted to tier 2 at most.
LEMMA VictimType ==
  ASSUME TypeInv
  PROVE  Victim \in Slots /\ \A j \in Slots : TakenAt(Victim) <= TakenAt(j)
<1> DEFINE V == {TakenAt(j) : j \in Slots}
<1>1. 0 \in Slots
  BY LlamaAssumption DEF Slots
<1>2. V \subseteq Nat /\ V # {}
  BY <1>1, TurnType
<1>3. PICK v \in V : \A u \in V : v <= u
  BY <1>2, LeastExists
<1>4. PICK i \in Slots : v = TakenAt(i)
  BY <1>3
<1>5. \A j \in Slots : TakenAt(i) <= TakenAt(j)
  BY <1>3, <1>4
<1> QED
  BY <1>5 DEF Victim

LEMMA TakenType == ASSUME TypeInv PROVE Taken \in Slots /\ (Free # {} => Taken \in Free)
<1>1. Free \subseteq Slots /\ Free \subseteq Nat
  BY LlamaAssumption DEF Free, Slots
<1>2. Free # {} => Lowest(Free) \in Free
  BY <1>1, LowestIn
<1> QED
  BY <1>1, <1>2, VictimType DEF Taken

LEMMA DemotionsType ==
  ASSUME TypeInv, NEW i \in Slots
  PROVE  slot[i].tier + Demotions(i) \in 0..2
<1> DEFINE D == {r \in 0..2 : Turn(i, r) < TakenAt(Victim)}
           t == slot[i].tier
<1>1. t \in 0..2
  BY DEF TypeInv
<1>2. D \subseteq 0..(1 - t)
  <2> SUFFICES ASSUME NEW r \in D PROVE r \in 0..(1 - t)
    OBVIOUS
  <2>1. r \in 0..2 /\ Turn(i, r) < TakenAt(Victim)
    OBVIOUS
  <2>2. /\ TakenAt(i) \in Nat /\ TakenAt(Victim) \in Nat /\ TakenAt(Victim) <= TakenAt(i)
        /\ Turn(i, r) \in Nat
    BY <2>1, TurnType, VictimType
  <2>3. Turn(i, r) < Turn(i, 2 - t)
    BY <2>1, <2>2 DEF TakenAt
  <2>4. r < 2 - t
    <3>1. NumSlots \in Nat /\ Ahead(i) \in Int /\ Lfu \in Slots
      BY LlamaAssumption, TurnType DEF Ahead, Slots
    <3>2. r * NumSlots + Ahead(i) < (2 - t) * NumSlots + Ahead(i)
      BY <2>3 DEF Turn
    <3>3. r \in {0, 1, 2} /\ 2 - t \in {0, 1, 2}
      BY <1>1, <2>1
    <3> QED
      BY <3>1, <3>2, <3>3
  <2> QED
    BY <1>1, <2>1, <2>4
<1>3. IsFiniteSet(0..(1 - t)) /\ Cardinality(0..(1 - t)) = IF 0 > 1 - t THEN 0 ELSE 2 - t
  BY <1>1, FS_Interval
<1>4. IsFiniteSet(D) /\ Cardinality(D) <= Cardinality(0..(1 - t))
  BY <1>2, <1>3, FS_Subset
<1>5. Cardinality(D) \in Nat
  BY <1>4, FS_CardinalityType
<1>6. Demotions(i) = Cardinality(D)
  BY DEF Demotions
<1> HIDE DEF D
<1> QED
  BY <1>1, <1>3, <1>4, <1>5, <1>6
-----------------------------------------------------------------------------
\* Sequences: what an element of a queue is when more is queued, and when the first
\* one has gone.
LEMMA ConcatFacts ==
  ASSUME NEW S, NEW q \in Seq(S), NEW r \in Seq(S)
  PROVE  /\ q \o r \in Seq(S) /\ Len(q \o r) = Len(q) + Len(r)
         /\ \A p \in 1..Len(q) : (q \o r)[p] = q[p]
         /\ \A p \in 1..Len(r) : (q \o r)[Len(q) + p] = r[p]
         /\ \A p \in 1..Len(q \o r) : p \notin 1..Len(q) =>
              p - Len(q) \in 1..Len(r) /\ (q \o r)[p] = r[p - Len(q)]
OBVIOUS

LEMMA TailFacts ==
  ASSUME NEW S, NEW q \in Seq(S), q # <<>>
  PROVE  /\ Tail(q) \in Seq(S) /\ Len(Tail(q)) = Len(q) - 1 /\ Len(q) \in Nat \ {0}
         /\ Head(q) = q[1] /\ Head(q) \in S
         /\ \A p \in 1..Len(Tail(q)) : p + 1 \in 1..Len(q) /\ Tail(q)[p] = q[p + 1]
OBVIOUS

LEMMA ConcatTwice ==
  ASSUME NEW S, NEW q \in Seq(S), NEW load \in Seq(S), NEW r \in Seq(S)
  PROVE  /\ q \o load \o r \in Seq(S)
         /\ Len(q \o load \o r) = Len(q) + Len(load) + Len(r)
         /\ \A p \in 1..Len(q) : (q \o load \o r)[p] = q[p]
         /\ \A p \in 1..Len(load) : (q \o load \o r)[Len(q) + p] = load[p]
         /\ \A p \in 1..Len(r) : (q \o load \o r)[Len(q) + Len(load) + p] = r[p]
<1> DEFINE m == q \o load
<1>1. /\ m \in Seq(S) /\ Len(m) = Len(q) + Len(load)
      /\ \A p \in 1..Len(q) : m[p] = q[p]
      /\ \A p \in 1..Len(load) : m[Len(q) + p] = load[p]
  BY ConcatFacts
<1>0. m \in Seq(S)
  BY <1>1
<1> HIDE DEF m
<1>2. /\ m \o r \in Seq(S) /\ Len(m \o r) = Len(m) + Len(r)
      /\ \A p \in 1..Len(m) : (m \o r)[p] = m[p]
      /\ \A p \in 1..Len(r) : (m \o r)[Len(m) + p] = r[p]
  BY <1>0, ConcatFacts
<1>3. Len(q) \in Nat /\ Len(load) \in Nat /\ Len(r) \in Nat
  OBVIOUS
<1>4. Len(m \o r) = Len(q) + Len(load) + Len(r)
  BY <1>1, <1>2
<1>5. \A p \in 1..Len(q) : (m \o r)[p] = q[p]
  BY <1>1, <1>2, <1>3
<1>6. \A p \in 1..Len(load) : (m \o r)[Len(q) + p] = load[p]
  BY <1>1, <1>2, <1>3
<1>7. \A p \in 1..Len(r) : (m \o r)[Len(q) + Len(load) + p] = r[p]
  BY <1>1, <1>2, <1>3
<1> QED
  BY <1>2, <1>4, <1>5, <1>6, <1>7 DEF m

\* What a slot has at a place does not depend on what comes after it.
Extends(n, q) == Len(n) >= Len(q) /\ \A p \in 1..Len(q) : n[p] = q[p]

LEMMA GivesKept ==
  ASSUME NEW q \in Seq(Tasks), NEW n \in Seq(Tasks), Extends(n, q),
         NEW p \in 1..(Len(q) + 1), NEW w, NEW i, NEW key, Gives(w, q, p, i, key)
  PROVE  Gives(w, n, p, i, key)
<1>1. Loads(n, p, i) = Loads(q, p, i)
  BY DEF Loads, Extends
<1>2. \A d \in Loads(q, p, i) : n[d] = q[d]
  BY DEF Loads, Extends
<1> QED
  BY <1>1, <1>2 DEF Gives

\* Tasks of other slots, and those that load nothing, keep what a slot has.
LEMMA GivesAppended ==
  ASSUME NEW q \in Seq(Tasks), NEW n \in Seq(Tasks), Extends(n, q), NEW w, NEW i, NEW key,
         Gives(w, q, Len(q) + 1, i, key),
         \A p \in 1..Len(n) : p > Len(q) /\ n[p].op = "decode" => n[p].slot # i
  PROVE  Gives(w, n, Len(n) + 1, i, key)
<1>1. Loads(n, Len(n) + 1, i) = Loads(q, Len(q) + 1, i)
  BY DEF Loads, Extends
<1>2. \A d \in Loads(q, Len(q) + 1, i) : n[d] = q[d]
  BY DEF Loads, Extends
<1> QED
  BY <1>1, <1>2 DEF Gives

\* After a load a slot has what was loaded.
LEMMA GivesLoaded ==
  ASSUME NEW n \in Seq(Tasks), NEW i, NEW key, NEW w, NEW d \in 1..Len(n),
         n[d].op = "decode", n[d].slot = i, n[d].key = key,
         \A p \in 1..Len(n) : p > d => n[p].op # "decode", NEW p \in (d + 1)..(Len(n) + 1)
  PROVE  Gives(w, n, p, i, key)
<1>1. d \in Loads(n, p, i)
  BY DEF Loads
<1>2. \A e \in Loads(n, p, i) : e <= d
  BY DEF Loads
<1>3. \A e \in Loads(n, p, i) : (\A f \in Loads(n, p, i) : f <= e) => e = d
  BY <1>1, <1>2 DEF Loads
<1> QED
  BY <1>1, <1>3 DEF Gives

\* What a slot has is the same as long as its weights are.
LEMMA GivesSame ==
  ASSUME NEW q, NEW p, NEW w, NEW v, NEW i, NEW key, v[i].for = w[i].for, Gives(w, q, p, i, key)
  PROVE  Gives(v, q, p, i, key)
BY DEF Gives

\* When the first task has run, what a slot has further on is the same.
LEMMA GivesAfter ==
  ASSUME NEW q \in Seq(Tasks), q # <<>>, NEW w, NEW v, NEW i, NEW key,
         NEW p \in 1..Len(q),
         Gives(w, q, p + 1, i, key),
         IF q[1].op = "decode" /\ q[1].slot = i
           THEN v[i].for = q[1].key ELSE v[i].for = w[i].for
  PROVE  Gives(v, Tail(q), p, i, key)
<1> SUFFICES ASSUME NEW t, t = Tail(q)
             PROVE  /\ Loads(t, p, i) = {} => v[i].for = key
                    /\ \A d \in Loads(t, p, i) :
                         (\A e \in Loads(t, p, i) : e <= d) => t[d].key = key
  BY DEF Gives, Loads
<1>1. /\ Len(t) = Len(q) - 1 /\ Len(q) \in Nat \ {0}
      /\ \A d \in 1..Len(t) : d + 1 \in 1..Len(q) /\ t[d] = q[d + 1]
  BY TailFacts
<1>2. \A d : d \in Loads(t, p, i) => d \in Nat \ {0} /\ d + 1 \in Loads(q, p + 1, i)
  BY <1>1 DEF Loads
<1>3. \A d \in Loads(q, p + 1, i) : d # 1 => d \in Nat /\ d - 1 \in Loads(t, p, i)
  BY <1>1 DEF Loads
<1>4. 1 \in Loads(q, p + 1, i) <=> q[1].op = "decode" /\ q[1].slot = i
  BY <1>1 DEF Loads
<1>5. ASSUME Loads(t, p, i) = {} PROVE v[i].for = key
  <2>1. Loads(q, p + 1, i) \subseteq {1}
    BY <1>3, <1>5
  <2>2. CASE 1 \in Loads(q, p + 1, i)
    <3>1. \A e \in Loads(q, p + 1, i) : e <= 1
      BY <2>1
    <3>2. q[1].key = key
      BY <2>2, <3>1 DEF Gives
    <3> QED
      BY <1>4, <2>2, <3>2
  <2>3. CASE 1 \notin Loads(q, p + 1, i)
    BY <1>4, <2>1, <2>3 DEF Gives
  <2> QED
    BY <2>2, <2>3
<1>6. ASSUME NEW d \in Loads(t, p, i), \A e \in Loads(t, p, i) : e <= d
      PROVE  t[d].key = key
  <2>1. d \in Nat \ {0} /\ d + 1 \in Loads(q, p + 1, i)
    BY <1>2
  <2>2. \A e \in Loads(q, p + 1, i) : e <= d + 1
    <3> SUFFICES ASSUME NEW e \in Loads(q, p + 1, i) PROVE e <= d + 1
      OBVIOUS
    <3>1. CASE e = 1
      BY <2>1, <3>1
    <3>2. CASE e # 1
      BY <1>3, <1>6, <2>1, <3>2
    <3> QED
      BY <3>1, <3>2
  <2>3. q[d + 1].key = key
    BY <2>1, <2>2 DEF Gives
  <2> QED
    BY <1>1, <2>3 DEF Loads
<1> QED
  BY <1>5, <1>6

\* A queue whose first task has run is still made of loads and products.
LEMMA PairedAfter ==
  ASSUME NEW q \in Seq(Tasks), q # <<>>, NEW c, NEW d, Paired(c, q),
         q[1].op = "copy" => d[q[1].slot].for = q[1].key
  PROVE  Paired(d, Tail(q))
<1> SUFFICES ASSUME NEW t, t = Tail(q) PROVE Paired(d, t)
  OBVIOUS
<1>1. /\ Len(t) = Len(q) - 1 /\ Len(q) \in Nat \ {0}
      /\ \A p \in 1..Len(t) : p + 1 \in 1..Len(q) /\ t[p] = q[p + 1]
  BY TailFacts
<1>2. ASSUME NEW p \in 1..Len(t), t[p].op = "copy"
      PROVE  p < Len(t) /\ t[p + 1] = Task("decode", t[p].slot, t[p].key)
  <2>1. p + 1 < Len(q) /\ q[p + 1 + 1] = Task("decode", t[p].slot, t[p].key)
    BY <1>1, <1>2 DEF Paired
  <2>2. p + 1 \in 1..Len(t)
    BY <1>1, <2>1
  <2> QED
    BY <1>1, <2>1, <2>2
<1>3. ASSUME NEW p \in 1..Len(t), t[p].op = "decode"
      PROVE  IF p = 1 THEN d[t[p].slot].for = t[p].key
                      ELSE t[p - 1] = Task("copy", t[p].slot, t[p].key)
  <2>1. q[p + 1 - 1] = Task("copy", t[p].slot, t[p].key)
    BY <1>1, <1>3 DEF Paired
  <2>2. p + 1 - 1 = p
    OBVIOUS
  <2>3. CASE p = 1
    BY <2>1, <2>2, <2>3 DEF Task
  <2>4. CASE p # 1
    <3>1. p - 1 \in 1..Len(t) /\ p - 1 + 1 = p
      BY <1>1, <2>4
    <3> QED
      BY <1>1, <2>1, <2>2, <2>4, <3>1
  <2> QED
    BY <2>3, <2>4
<1> QED
  BY <1>2, <1>3 DEF Paired

LEMMA PairedKept ==
  ASSUME NEW q \in Seq(Tasks), NEW c, NEW d, Paired(c, q),
         \A p \in 1..Len(q) : d[q[p].slot].for = c[q[p].slot].for
  PROVE  Paired(d, q)
BY DEF Paired

\* A load and, possibly, a product that are added to a queue.
LEMMA PairedLoaded ==
  ASSUME NEW q \in Seq(Tasks), NEW n \in Seq(Tasks), Extends(n, q), NEW c, Paired(c, q),
         NEW i, NEW key, Len(n) >= Len(q) + 2,
         n[Len(q) + 1] = Task("copy", i, key), n[Len(q) + 2] = Task("decode", i, key),
         \A p \in 1..Len(n) : p > Len(q) + 2 => n[p].op = "multiply"
  PROVE  Paired(c, n)
<1>1. Len(q) \in Nat /\ Len(n) \in Nat
  OBVIOUS
<1>2. ASSUME NEW p \in 1..Len(n), n[p].op = "copy"
      PROVE  p < Len(n) /\ n[p + 1] = Task("decode", n[p].slot, n[p].key)
  <2>1. CASE p \in 1..Len(q)
    <3>1. n[p] = q[p] /\ p < Len(q) /\ q[p + 1] = Task("decode", q[p].slot, q[p].key)
      BY <1>2, <2>1 DEF Extends, Paired
    <3>2. n[p + 1] = q[p + 1]
      BY <1>1, <3>1 DEF Extends
    <3> QED
      BY <1>1, <3>1, <3>2 DEF Extends
  <2>2. CASE p = Len(q) + 1
    <3>1. p + 1 = Len(q) + 2 /\ p < Len(n)
      BY <1>1, <2>2
    <3> QED
      BY <2>2, <3>1 DEF Task
  <2>3. CASE p = Len(q) + 2
    BY <1>2, <2>3 DEF Task
  <2> QED
    BY <1>1, <1>2, <2>1, <2>2, <2>3
<1>3. ASSUME NEW p \in 1..Len(n), n[p].op = "decode"
      PROVE  IF p = 1 THEN c[n[p].slot].for = n[p].key
                      ELSE n[p - 1] = Task("copy", n[p].slot, n[p].key)
  <2>1. CASE p \in 1..Len(q)
    <3>1. n[p] = q[p]
      BY <2>1 DEF Extends
    <3>2. p # 1 => p - 1 \in 1..Len(q)
      BY <1>1, <2>1
    <3> QED
      BY <1>3, <2>1, <3>1, <3>2 DEF Extends, Paired
  <2>2. CASE p = Len(q) + 1
    BY <1>3, <2>2 DEF Task
  <2>3. CASE p = Len(q) + 2
    <3>1. p # 1 /\ p - 1 = Len(q) + 1
      BY <1>1, <2>3
    <3> QED
      BY <2>3, <3>1 DEF Task
  <2> QED
    BY <1>1, <1>3, <2>1, <2>2, <2>3
<1> QED
  BY <1>2, <1>3 DEF Paired

\* A product that is added to a queue.
LEMMA PairedProduct ==
  ASSUME NEW q \in Seq(Tasks), NEW n \in Seq(Tasks), Extends(n, q), NEW c, Paired(c, q),
         \A p \in 1..Len(n) : p > Len(q) => n[p].op = "multiply"
  PROVE  Paired(c, n)
<1>1. Len(q) \in Nat /\ Len(n) \in Nat
  OBVIOUS
<1>2. \A p \in 1..Len(n) : n[p].op # "multiply" => p \in 1..Len(q) /\ n[p] = q[p]
  BY <1>1 DEF Extends
<1>3. ASSUME NEW p \in 1..Len(n), n[p].op = "copy"
      PROVE  p < Len(n) /\ n[p + 1] = Task("decode", n[p].slot, n[p].key)
  <2>1. /\ p \in 1..Len(q) /\ n[p] = q[p]
        /\ p < Len(q) /\ q[p + 1] = Task("decode", q[p].slot, q[p].key)
    BY <1>2, <1>3 DEF Paired
  <2> QED
    BY <1>1, <2>1 DEF Extends
<1>4. ASSUME NEW p \in 1..Len(n), n[p].op = "decode"
      PROVE  IF p = 1 THEN c[n[p].slot].for = n[p].key
                      ELSE n[p - 1] = Task("copy", n[p].slot, n[p].key)
  <2>1. p \in 1..Len(q) /\ n[p] = q[p] /\ (p # 1 => p - 1 \in 1..Len(q))
    BY <1>1, <1>2, <1>4
  <2> QED
    BY <1>4, <2>1 DEF Extends, Paired
<1> QED
  BY <1>3, <1>4 DEF Paired
-----------------------------------------------------------------------------
\* What a queue's first task is.
LEMMA HeadFacts ==
  ASSUME LlamaInv, NEW s \in Streams, Run(s)
  PROVE  /\ queue[s] \in Seq(Tasks) /\ queue[s] # <<>> /\ queue[s][1] \in Tasks
         /\ 1 \in 1..Len(queue[s]) /\ Head(queue[s]) = queue[s][1] /\ On(s, queue[s][1].slot)
         /\ queue' = [queue EXCEPT ![s] = Tail(queue[s])]
         /\ queue'[s] = Tail(queue[s]) /\ \A r \in Streams : r # s => queue'[r] = queue[r]
         /\ slot' = slot /\ hostTodo' = hostTodo
<1>1. queue \in [Streams -> Seq(Tasks)] /\ queue[s] # <<>>
  BY DEF LlamaInv, TypeInv, Run
<1>2. /\ queue[s] \in Seq(Tasks) /\ queue[s][1] \in Tasks
      /\ 1 \in 1..Len(queue[s]) /\ Head(queue[s]) = queue[s][1]
  BY <1>1, TailFacts
<1> QED
  BY <1>1, <1>2 DEF Run, On

\* What a task does to the slots.
LEMMA RunFacts ==
  ASSUME LlamaInv, NEW s \in Streams, Run(s), NEW x, x = queue[s][1]
  PROVE  /\ comp' \in [Slots -> Loaded] /\ weights' \in [Slots -> Loaded]
         /\ x.op = "copy" => comp'[x.slot].for = x.key
         /\ \A i \in Slots : ~(x.op = "copy" /\ i = x.slot) => comp'[i] = comp[i]
         /\ \A i \in Slots : IF x.op = "decode" /\ x.slot = i
                               THEN weights'[i].for = x.key
                               ELSE weights'[i].for = weights[i].for
<1>1. /\ comp \in [Slots -> Loaded] /\ weights \in [Slots -> Loaded]
      /\ pinned \in KeysOrNone /\ Paired(comp, queue[s])
  BY DEF LlamaInv, TypeInv, Streams
<1>2. x \in Tasks /\ x = Head(queue[s]) /\ 1 \in 1..Len(queue[s])
  BY HeadFacts
<1>3. x.slot \in Slots /\ x.key \in KeysOrNone
  BY <1>2 DEF Tasks, KeysOrNone
<1>4. /\ comp' = IF x.op = "copy"
                   THEN [comp EXCEPT ![x.slot] = [bytes |-> pinned, for |-> x.key]] ELSE comp
      /\ weights' = IF x.op = "decode" THEN [weights EXCEPT ![x.slot] = comp[x.slot]]
                      ELSE weights
  BY <1>2 DEF Run
<1>5. x.op = "decode" => comp[x.slot].for = x.key
  BY <1>1, <1>2 DEF Paired
<1>6. [bytes |-> pinned, for |-> x.key] \in Loaded
  BY <1>1, <1>3 DEF Loaded
<1> QED
  BY <1>1, <1>3, <1>4, <1>5, <1>6

\* A task that runs keeps what is to be kept: it takes its own load, and the other
\* stream has nothing to do with its slot.
LEMMA RunStep == ASSUME LlamaInv, NEW s \in Streams, Run(s) PROVE LlamaInv'
<1> DEFINE q == queue[s]
           x == queue[s][1]
<1>1. /\ q \in Seq(Tasks) /\ q # <<>> /\ x \in Tasks /\ 1 \in 1..Len(q) /\ On(s, x.slot)
      /\ queue' = [queue EXCEPT ![s] = Tail(q)]
      /\ queue'[s] = Tail(q) /\ \A r \in Streams : r # s => queue'[r] = queue[r]
      /\ slot' = slot /\ hostTodo' = hostTodo /\ pinned' = pinned
  BY HeadFacts DEF Run
<1>2. /\ comp' \in [Slots -> Loaded] /\ weights' \in [Slots -> Loaded]
      /\ x.op = "copy" => comp'[x.slot].for = x.key
      /\ \A i \in Slots : ~(x.op = "copy" /\ i = x.slot) => comp'[i] = comp[i]
      /\ \A i \in Slots : IF x.op = "decode" /\ x.slot = i
                            THEN weights'[i].for = x.key
                            ELSE weights'[i].for = weights[i].for
  BY RunFacts
<1>3. /\ Tail(q) \in Seq(Tasks) /\ Len(Tail(q)) = Len(q) - 1 /\ Len(q) \in Nat \ {0}
      /\ \A p \in 1..Len(Tail(q)) : p + 1 \in 1..Len(q) /\ Tail(q)[p] = q[p + 1]
  BY <1>1, TailFacts
<1>4. x.slot \in Slots
  BY <1>1 DEF Tasks
<1>5. /\ queue["compute"] \in Seq(Tasks) /\ queue["prefetch"] \in Seq(Tasks)
      /\ queue \in [Streams -> Seq(Tasks)] /\ s \in {"compute", "prefetch"}
      /\ "compute" \in Streams /\ "prefetch" \in Streams
      /\ Paired(comp, queue["compute"]) /\ Paired(comp, queue["prefetch"])
  BY DEF LlamaInv, TypeInv, Streams
<1>6. \A i \in Slots : ~(On("prefetch", i) /\ On("compute", i))
  BY DEF LlamaInv, Prefetching
<1> HIDE DEF q, x
<1>7. x = q[1]
  BY DEF q, x
<1>8. TypeInv'
  <2>1. queue' \in [Streams -> Seq(Tasks)]
    BY <1>1, <1>3, <1>5
  <2> QED
    BY <1>1, <1>2, <2>1 DEF LlamaInv, TypeInv
<1>9. \A r \in Streams : \A p \in 1..Len(queue[r]) : queue[r][p].slot \in Slots
  <2> SUFFICES ASSUME NEW r \in Streams, NEW p \in 1..Len(queue[r])
               PROVE  queue[r][p].slot \in Slots
    OBVIOUS
  <2>1. queue[r][p] \in Tasks
    BY <1>5
  <2> QED
    BY <2>1 DEF Tasks
<1>10. \A r \in Streams : Paired(comp', queue'[r])
  <2>1. Paired(comp', queue'[s])
    <3>1. Paired(comp, q)
      BY <1>5 DEF q
    <3> QED
      BY <1>1, <1>2, <1>7, <3>1, PairedAfter
  <2>2. ASSUME NEW r \in Streams, r # s PROVE Paired(comp', queue'[r])
    <3>1. \A p \in 1..Len(queue[r]) : queue[r][p].slot # x.slot
      <4>1. ~On(r, x.slot)
        BY <1>1, <1>4, <1>5, <1>6, <2>2 DEF Streams
      <4> QED
        BY <4>1 DEF On
    <3>2. \A p \in 1..Len(queue[r]) : comp'[queue[r][p].slot].for = comp[queue[r][p].slot].for
      BY <1>2, <1>9, <3>1
    <3>3. queue[r] \in Seq(Tasks) /\ Paired(comp, queue[r])
      BY <1>5 DEF Streams
    <3> QED
      BY <1>1, <2>2, <3>2, <3>3, PairedKept
  <2> QED
    BY <2>1, <2>2
<1>11. \A r \in Streams, i \in Slots : On(r, i)' => On(r, i)
  <2> SUFFICES ASSUME NEW r \in Streams, NEW i \in Slots, On(r, i)' PROVE On(r, i)
    OBVIOUS
  <2>1. CASE r # s
    BY <1>1, <2>1 DEF On
  <2>2. CASE r = s
    <3>1. PICK p \in 1..Len(Tail(q)) : Tail(q)[p].slot = i
      BY <1>1, <2>2 DEF On
    <3>2. p + 1 \in 1..Len(q) /\ q[p + 1].slot = i
      BY <1>3, <3>1
    <3> QED
      BY <2>2, <3>2 DEF On, q
  <2> QED
    BY <2>1, <2>2
<1>12. \A i, key : \A p \in 1..Len(q) :
         i \in Slots /\ Gives(weights, q, p + 1, i, key) => Gives(weights', Tail(q), p, i, key)
  BY <1>1, <1>2, <1>7, GivesAfter
<1>13. ASSUME NEW r \in Streams, r # s, NEW i \in Slots, On(r, i) \/ ~On(s, i)
       PROVE  weights'[i].for = weights[i].for
  BY <1>1, <1>2, <1>5, <1>6, <1>13 DEF Streams
<1>14. Products'
  <2> SUFFICES ASSUME NEW p \in 1..Len(queue'["compute"]), NEW y,
                      y = queue'["compute"][p], y.op = "multiply"
               PROVE  Gives(weights', queue'["compute"], p, y.slot, y.key)
    BY DEF Products, Gives, Loads
  <2>1. CASE s = "compute"
    <3>0. queue["compute"] = q /\ queue'["compute"] = Tail(q)
      BY <1>1, <2>1 DEF q
    <3>1. p \in 1..Len(q) /\ p + 1 \in 1..Len(q) /\ y = q[p + 1] /\ queue["compute"] = q
      BY <1>3, <3>0
    <3>2. Gives(weights, q, p + 1, y.slot, y.key)
      BY <3>1 DEF LlamaInv, Products
    <3>3. y.slot \in Slots
      BY <1>9, <2>1, <3>1
    <3> QED
      BY <1>1, <1>12, <2>1, <3>1, <3>2, <3>3
  <2>2. CASE s = "prefetch"
    <3>1. queue'["compute"] = queue["compute"]
      BY <1>1, <1>5, <2>2
    <3>2. Gives(weights, queue["compute"], p, y.slot, y.key)
      BY <3>1 DEF LlamaInv, Products
    <3>3. y.slot \in Slots /\ On("compute", y.slot)
      BY <1>5, <1>9, <3>1 DEF On
    <3>4. weights'[y.slot].for = weights[y.slot].for
      BY <1>5, <1>13, <2>2, <3>3
    <3> QED
      BY <3>1, <3>2, <3>4, GivesSame
  <2> QED
    BY <1>5, <2>1, <2>2
<1>15. Prefetching'
  <2>1. ASSUME NEW p \in 1..Len(queue'["prefetch"])
        PROVE  queue'["prefetch"][p].op # "multiply"
    <3>1. CASE s = "prefetch"
      BY <1>1, <1>3, <3>1 DEF LlamaInv, Prefetching, q
    <3>2. CASE s # "prefetch"
      BY <1>1, <1>5, <3>2 DEF LlamaInv, Prefetching
    <3> QED
      BY <3>1, <3>2
  <2>2. \A i \in Slots : On("prefetch", i)' =>
          slot'[i].pending /\ slot'[i].stream = "prefetch" /\ ~On("compute", i)'
    BY <1>1, <1>5, <1>11 DEF LlamaInv, Prefetching
  <2>3. \A i \in Slots : slot'[i].key = NoKey => ~slot'[i].pending
    BY <1>1 DEF LlamaInv, Prefetching
  <2> QED
    BY <2>1, <2>2, <2>3 DEF Prefetching
<1>16. KeysHold'
  <2> SUFFICES ASSUME NEW i \in Slots, NEW key, key = slot[i].key, key # NoKey
               PROVE  /\ On("prefetch", i)' =>
                           Gives(weights', queue'["prefetch"], Len(queue'["prefetch"]) + 1, i, key)
                      /\ ~On("prefetch", i)' =>
                           Gives(weights', queue'["compute"], Len(queue'["compute"]) + 1, i, key)
    BY <1>1 DEF KeysHold, Gives, Loads
  <2>1. /\ On("prefetch", i) =>
             Gives(weights, queue["prefetch"], Len(queue["prefetch"]) + 1, i, key)
        /\ ~On("prefetch", i) =>
             Gives(weights, queue["compute"], Len(queue["compute"]) + 1, i, key)
    BY DEF LlamaInv, KeysHold
  <2>2. Gives(weights, q, Len(q) + 1, i, key) =>
          Gives(weights', Tail(q), Len(Tail(q)) + 1, i, key)
    <3>1. Len(q) \in 1..Len(q) /\ Len(q) = Len(Tail(q)) + 1
      BY <1>3
    <3>2. Gives(weights, q, Len(q) + 1, i, key) => Gives(weights', Tail(q), Len(q), i, key)
      BY <1>12, <3>1
    <3> QED
      BY <3>1, <3>2
  <2>3. CASE s = "compute"
    <3>1. /\ queue'["prefetch"] = queue["prefetch"] /\ queue["compute"] = q
          /\ queue'["compute"] = Tail(q)
      BY <1>1, <1>5, <2>3 DEF q
    <3>2. On("prefetch", i)' <=> On("prefetch", i)
      BY <3>1 DEF On
    <3>3. On("prefetch", i) => weights'[i].for = weights[i].for
      BY <1>5, <1>13, <2>3
    <3>4. On("prefetch", i) =>
            Gives(weights', queue["prefetch"], Len(queue["prefetch"]) + 1, i, key)
      BY <2>1, <3>3, GivesSame
    <3> QED
      BY <2>1, <2>2, <3>1, <3>2, <3>4
  <2>4. CASE s = "prefetch"
    <3>1. /\ queue'["compute"] = queue["compute"] /\ queue["prefetch"] = q
          /\ queue'["prefetch"] = Tail(q)
      BY <1>1, <1>5, <2>4 DEF q
    <3>2. CASE On("prefetch", i)'
      <4>1. On("prefetch", i)
        BY <1>5, <1>11, <3>2
      <4> QED
        BY <2>1, <2>2, <3>1, <3>2, <4>1
    <3>3. CASE ~On("prefetch", i)' /\ On("prefetch", i)
      <4>1. Gives(weights', Tail(q), Len(Tail(q)) + 1, i, key)
        BY <2>1, <2>2, <3>1, <3>3
      <4>2. Loads(Tail(q), Len(Tail(q)) + 1, i) = {}
        BY <3>1, <3>3 DEF On, Loads
      <4>3. weights'[i].for = key
        BY <4>1, <4>2 DEF Gives
      <4>4. Loads(queue["compute"], Len(queue["compute"]) + 1, i) = {}
        BY <1>6, <3>3 DEF On, Loads
      <4> QED
        BY <3>1, <3>3, <4>3, <4>4 DEF Gives
    <3>4. CASE ~On("prefetch", i)
      <4>1. ~On("prefetch", i)'
        BY <1>5, <1>11, <3>4
      <4>2. weights'[i].for = weights[i].for
        BY <1>5, <1>13, <2>4, <3>4
      <4>3. Gives(weights', queue["compute"], Len(queue["compute"]) + 1, i, key)
        BY <2>1, <3>4, <4>2, GivesSame
      <4> QED
        BY <3>1, <4>1, <4>3
    <3> QED
      BY <3>2, <3>3, <3>4
  <2> QED
    BY <1>5, <2>3, <2>4
<1>17. PrefetchesFirst'
  <2>1. queue["compute"] = <<>> => queue'["compute"] = <<>>
    BY <1>1, <1>5 DEF q
  <2> QED
    BY <1>1, <2>1 DEF LlamaInv, PrefetchesFirst
<1>18. MultipliesItsLoad'
  <2>1. ASSUME x.op = "multiply" PROVE weights[x.slot].for = x.key
    <3>1. s = "compute" /\ q = queue["compute"]
      BY <1>1, <1>5, <1>7, <2>1 DEF q, LlamaInv, Prefetching
    <3>2. Gives(weights, q, 1, x.slot, x.key)
      BY <1>1, <1>7, <2>1, <3>1 DEF LlamaInv, Products
    <3>3. Loads(q, 1, x.slot) = {}
      BY DEF Loads
    <3> QED
      BY <3>2, <3>3 DEF Gives
  <2>2. wrong' \subseteq wrong \cup {"bytes"}
    <3>1. x = Head(queue[s])
      BY HeadFacts DEF x
    <3> QED
      BY <2>1, <3>1 DEF Run
  <2> QED
    BY <2>2 DEF LlamaInv, MultipliesItsLoad
<1> QED
  BY <1>5, <1>8, <1>10, <1>14, <1>15, <1>16, <1>17, <1>18 DEF LlamaInv
-----------------------------------------------------------------------------
\* A load that was waited for, or a slot without a key, is not on the prefetch stream.
LEMMA Settled ==
  ASSUME LlamaInv, NEW i \in Slots, Waited(i) \/ slot[i].key = NoKey
  PROVE  ~On("prefetch", i)
<1> DEFINE q == queue["prefetch"]
<1> SUFFICES ASSUME On("prefetch", i) PROVE FALSE
  OBVIOUS
<1>1. /\ slot[i].pending /\ slot[i].stream = "prefetch" /\ slot[i].key # NoKey
      /\ \A p \in 1..Len(q) : q[p].op # "multiply"
  BY DEF LlamaInv, Prefetching
<1>2. q \in Seq(Tasks) /\ Paired(comp, q)
  BY DEF LlamaInv, TypeInv, Streams
<1>3. \A p \in 1..Len(q) : q[p].op = "decode" => q[p].slot # i
  <2>1. \A x \in Range(q) : x.op = "decode" => x.slot # i
    BY <1>1 DEF Waited
  <2>2. \A p \in 1..Len(q) : q[p] \in Range(q)
    BY <1>2 DEF Range
  <2> QED
    BY <2>1, <2>2
<1>4. PICK p \in 1..Len(q) : q[p].slot = i
  BY DEF On
<1>5. q[p].op = "copy"
  <2>1. q[p] \in Tasks
    BY <1>2
  <2> QED
    BY <1>1, <1>3, <1>4, <2>1 DEF Tasks
<1>6. p + 1 \in 1..Len(q) /\ q[p + 1] = Task("decode", i, q[p].key)
  <2>1. p < Len(q) /\ q[p + 1] = Task("decode", i, q[p].key)
    BY <1>2, <1>4, <1>5 DEF Paired
  <2> QED
    BY <1>2, <2>1
<1> QED
  BY <1>3, <1>6 DEF Task

\* What the host goes on with when it has done its first task.
LEMMA HostStep ==
  ASSUME LlamaInv, hostTodo # <<>>, hostTodo' = Tail(hostTodo),
         queue'["compute"] = queue["compute"]
           \/ ~(Head(hostTodo).op = "prefetch" /\ Head(hostTodo).stream = "prefetch")
  PROVE  hostTodo' \in Seq(HostOps) /\ PrefetchesFirst'
<1> DEFINE h == hostTodo
           t == Tail(hostTodo)
           First(o) == o.op = "prefetch" /\ o.stream = "prefetch"
<1>1. h \in Seq(HostOps)
  BY DEF LlamaInv, TypeInv
<1>2. /\ t \in Seq(HostOps) /\ Len(t) = Len(h) - 1 /\ Len(h) \in Nat \ {0} /\ Head(h) = h[1]
      /\ \A p \in 1..Len(t) : p + 1 \in 1..Len(h) /\ t[p] = h[p + 1]
  BY <1>1, TailFacts
<1>3. \A j \in 1..Len(h) : First(h[j]) =>
        queue["compute"] = <<>> /\ \A m \in 1..(j - 1) : First(h[m])
  BY DEF LlamaInv, PrefetchesFirst
<1> SUFFICES ASSUME NEW j \in 1..Len(t), First(t[j])
             PROVE  queue'["compute"] = <<>> /\ \A m \in 1..(j - 1) : First(t[m])
  BY <1>2 DEF PrefetchesFirst
<1> HIDE DEF First, h, t
<1>4. j + 1 \in 1..Len(h) /\ First(h[j + 1]) /\ 1 \in 1..(j + 1 - 1)
  BY <1>2
<1>5. queue["compute"] = <<>> /\ \A m \in 1..(j + 1 - 1) : First(h[m])
  BY <1>3, <1>4
<1>6. queue'["compute"] = queue["compute"]
  BY <1>2, <1>4, <1>5 DEF First, h
<1>7. \A m \in 1..(j - 1) : First(t[m])
  <2> SUFFICES ASSUME NEW m \in 1..(j - 1) PROVE First(t[m])
    OBVIOUS
  <2>1. m \in 1..Len(t) /\ m + 1 \in 1..(j + 1 - 1)
    BY <1>2
  <2> QED
    BY <1>2, <1>5, <2>1
<1> QED
  BY <1>5, <1>6, <1>7

\* A queue to which a load has been added and, possibly, its product.
Queued(q, i, key, after) ==
  q \o <<Task("copy", i, key), Task("decode", i, key)>> \o after

LEMMA QueueLoaded ==
  ASSUME NEW q \in Seq(Tasks), NEW i \in Slots, NEW key \in Keys, NEW after,
         after \in {<<>>, Product(i, key)}, NEW n,
         n = Queued(q, i, key, after)
  PROVE  /\ n \in Seq(Tasks) /\ Extends(n, q) /\ Len(n) >= Len(q) + 2
         /\ n[Len(q) + 1] = Task("copy", i, key) /\ n[Len(q) + 2] = Task("decode", i, key)
         /\ \A p \in 1..Len(n) : p > Len(q) + 2 =>
              n[p] = Task("multiply", i, key) /\ after = Product(i, key)
<1> DEFINE load == <<Task("copy", i, key), Task("decode", i, key)>>
<1>1. load \in Seq(Tasks) /\ after \in Seq(Tasks)
  <2>1. \A o \in {"copy", "decode", "multiply"} : Task(o, i, key) \in Tasks
    BY DEF Task, Tasks
  <2>2. \A a, b \in Tasks : <<a, b>> \in Seq(Tasks) /\ <<a>> \in Seq(Tasks)
    OBVIOUS
  <2>3. /\ Task("copy", i, key) \in Tasks /\ Task("decode", i, key) \in Tasks
        /\ Task("multiply", i, key) \in Tasks
    BY <2>1
  <2>4. load \in Seq(Tasks)
    BY <2>2, <2>3, Zenon
  <2>5. Product(i, key) \in Seq(Tasks)
    BY <2>2, <2>3, Zenon DEF Product
  <2>6. <<>> \in Seq(Tasks)
    OBVIOUS
  <2> QED
    BY <2>4, <2>5, <2>6
<1>2. /\ Len(load) = 2 /\ load[1] = Task("copy", i, key) /\ load[2] = Task("decode", i, key)
      /\ Len(after) \in Nat
      /\ \A p \in 1..Len(after) :
           after[p] = Task("multiply", i, key) /\ after = Product(i, key)
  BY DEF Product
<1> HIDE DEF load
<1>3. /\ q \o load \o after \in Seq(Tasks)
      /\ Len(q \o load \o after) = Len(q) + Len(load) + Len(after)
      /\ \A p \in 1..Len(q) : (q \o load \o after)[p] = q[p]
      /\ \A p \in 1..Len(load) : (q \o load \o after)[Len(q) + p] = load[p]
      /\ \A p \in 1..Len(after) : (q \o load \o after)[Len(q) + Len(load) + p] = after[p]
  BY <1>1, ConcatTwice
<1>4. n = q \o load \o after
  BY DEF load, Queued
<1>4a. Len(q) \in Nat
  OBVIOUS
<1>5. /\ n \in Seq(Tasks) /\ Len(n) = Len(q) + Len(load) + Len(after) /\ Len(q) \in Nat
      /\ \A p \in 1..Len(q) : n[p] = q[p]
      /\ \A p \in 1..Len(load) : n[Len(q) + p] = load[p]
      /\ \A p \in 1..Len(after) : n[Len(q) + Len(load) + p] = after[p]
  BY <1>3, <1>4, <1>4a, Zenon
<1>6. ASSUME NEW p \in 1..Len(n), p > Len(q) + 2
      PROVE  n[p] = Task("multiply", i, key) /\ after = Product(i, key)
  <2>1. /\ p - (Len(q) + Len(load)) \in 1..Len(after)
        /\ Len(q) + Len(load) + (p - (Len(q) + Len(load))) = p
    BY <1>2, <1>5, <1>6
  <2> QED
    BY <1>2, <1>5, <2>1
<1>7. Extends(n, q) /\ Len(n) >= Len(q) + 2
  BY <1>2, <1>5 DEF Extends
<1>8. n[Len(q) + 1] = Task("copy", i, key) /\ n[Len(q) + 2] = Task("decode", i, key)
  <2>1. 1 \in 1..Len(load) /\ 2 \in 1..Len(load)
    BY <1>2
  <2> QED
    BY <1>2, <1>5, <2>1
<1>9. n \in Seq(Tasks)
  BY <1>5
<1>10. \A p \in 1..Len(n) : p > Len(q) + 2 =>
         n[p] = Task("multiply", i, key) /\ after = Product(i, key)
  BY <1>6
<1> QED
  BY <1>7, <1>8, <1>9, <1>10, Zenon

\* The slots after a load of key into slot i: that one says so, and the others say
\* what they said, except that a load that was waited for is no longer pending.
SlotTypes == [Slots -> [key : KeysOrNone, tier : 0..2, visits : Nat,
                        pending : BOOLEAN, stream : Streams]]
Refilled(i, key, s) ==
  /\ slot' \in SlotTypes /\ slot'[i].key = key
  /\ s = "prefetch" => slot'[i].pending /\ slot'[i].stream = "prefetch"
  /\ \A j \in Slots \ {i} :
       /\ slot'[j].key = slot[j].key /\ (slot'[j].pending => slot[j].pending)
       /\ On("prefetch", j) =>
            slot'[j].pending = slot[j].pending /\ slot'[j].stream = slot[j].stream

\* A load keeps what is to be kept if it is into a slot the prefetch stream has done
\* with and, when it is on that stream, the other one is empty.
LEMMA LoadKeeps ==
  ASSUME LlamaInv, NEW i \in Slots, NEW key \in Keys, NEW s \in Streams, NEW after,
         after \in {<<>>, Product(i, key)}, Load(i, key, s, after),
         ~On("prefetch", i), Refilled(i, key, s),
         s = "prefetch" => after = <<>> /\ queue["compute"] = <<>>,
         hostTodo' \in Seq(HostOps) /\ PrefetchesFirst',
         UNCHANGED <<comp, weights, wrong>>
  PROVE  LlamaInv'
<1> DEFINE q == queue[s]
           n == queue'[s]
<1>1. queue \in [Streams -> Seq(Tasks)] /\ slot \in SlotTypes
  BY DEF LlamaInv, TypeInv, SlotTypes
<1>2. /\ n = Queued(q, i, key, after)
      /\ \A r \in Streams : r # s => queue'[r] = queue[r]
      /\ queue' = [queue EXCEPT ![s] = n] /\ q \in Seq(Tasks) /\ pinned' = key
  BY <1>1 DEF Load, Queued
<1>2a. q \in Seq(Tasks)
  BY <1>2
<1> HIDE DEF n, q
<1>3. /\ n \in Seq(Tasks) /\ Extends(n, q) /\ Len(n) >= Len(q) + 2
      /\ n[Len(q) + 1] = Task("copy", i, key) /\ n[Len(q) + 2] = Task("decode", i, key)
      /\ \A p \in 1..Len(n) : p > Len(q) + 2 =>
           n[p] = Task("multiply", i, key) /\ after = Product(i, key)
  BY <1>2, <1>2a, QueueLoaded
<1>4. Len(q) \in Nat /\ Len(n) \in Nat
  BY <1>2, <1>3
<1>5. /\ queue' \in [Streams -> Seq(Tasks)] /\ key # NoKey /\ key \in KeysOrNone
      /\ "compute" \in Streams /\ "prefetch" \in Streams /\ s \in {"compute", "prefetch"}
  BY <1>1, <1>2, <1>3 DEF Keys, Layers, NoKey, KeysOrNone, Streams
<1>6. /\ comp' = comp /\ weights' = weights /\ wrong' = wrong
      /\ Paired(comp, queue["compute"]) /\ Paired(comp, queue["prefetch"])
  BY DEF LlamaInv
<1>7. \A p \in 1..Len(n) :
        \/ p \in 1..Len(q) /\ n[p] = q[p]
        \/ p = Len(q) + 1 /\ n[p].op = "copy" /\ n[p].slot = i
        \/ p = Len(q) + 2 /\ n[p].op = "decode" /\ n[p].slot = i
        \/ /\ p > Len(q) + 2 /\ n[p].op = "multiply" /\ n[p].slot = i /\ n[p].key = key
           /\ after = Product(i, key)
  <2> SUFFICES ASSUME NEW p \in 1..Len(n)
               PROVE  \/ p \in 1..Len(q) /\ n[p] = q[p]
                      \/ p = Len(q) + 1 /\ n[p].op = "copy" /\ n[p].slot = i
                      \/ p = Len(q) + 2 /\ n[p].op = "decode" /\ n[p].slot = i
                      \/ /\ p > Len(q) + 2 /\ n[p].op = "multiply" /\ n[p].slot = i
                         /\ n[p].key = key /\ after = Product(i, key)
    OBVIOUS
  <2>1. p \in 1..Len(q) \/ p = Len(q) + 1 \/ p = Len(q) + 2 \/ p > Len(q) + 2
    BY <1>4
  <2> QED
    BY <1>3, <2>1 DEF Extends, Task
<1>8. \A p \in (Len(q) + 3)..(Len(n) + 1) : Gives(weights, n, p, i, key)
  <2>1. Len(q) + 2 \in 1..Len(n) /\ Len(q) + 2 + 1 = Len(q) + 3
    BY <1>3, <1>4
  <2>2. \A p \in 1..Len(n) : p > Len(q) + 2 => n[p].op # "decode"
    BY <1>3 DEF Task
  <2>3. /\ n[Len(q) + 2].op = "decode" /\ n[Len(q) + 2].slot = i
        /\ n[Len(q) + 2].key = key
    BY <1>3 DEF Task
  <2> QED
    BY <1>3, <2>1, <2>2, <2>3, GivesLoaded
<1>9. \A j \in Slots : /\ On(s, j)' <=> On(s, j) \/ j = i
                       /\ \A r \in Streams : r # s => (On(r, j)' <=> On(r, j))
  <2> SUFFICES ASSUME NEW j \in Slots
               PROVE  /\ On(s, j)' <=> On(s, j) \/ j = i
                      /\ \A r \in Streams : r # s => (On(r, j)' <=> On(r, j))
    OBVIOUS
  <2>1. On(s, j)' => On(s, j) \/ j = i
    BY <1>7 DEF On, n, q
  <2>2. On(s, j) => On(s, j)'
    <3>1. Len(q) <= Len(n) /\ \A p \in 1..Len(q) : p \in 1..Len(n) /\ n[p] = q[p]
      BY <1>3, <1>4 DEF Extends
    <3> QED
      BY <3>1 DEF On, n, q
  <2>3. On(s, i)'
    <3>1. Len(q) + 1 \in 1..Len(n) /\ n[Len(q) + 1].slot = i
      BY <1>3, <1>4 DEF Task
    <3> QED
      BY <3>1 DEF On, n
  <2>4. \A r \in Streams : r # s => (On(r, j)' <=> On(r, j))
    BY <1>2 DEF On
  <2> QED
    BY <2>1, <2>2, <2>3, <2>4
<1>10. TypeInv'
  BY <1>2, <1>5, <1>6 DEF LlamaInv, TypeInv, Refilled, SlotTypes
<1>11. Paired(comp', queue'["compute"]) /\ Paired(comp', queue'["prefetch"])
  <2>1. Paired(comp, n)
    <3>1. Paired(comp, q)
      BY <1>5, <1>6 DEF q
    <3>2. \A p \in 1..Len(n) : p > Len(q) + 2 => n[p].op = "multiply"
      BY <1>3 DEF Task
    <3> QED
      BY <1>2a, <1>3, <3>1, <3>2, PairedLoaded
  <2>2. n = queue'[s]
    BY DEF n
  <2> QED
    BY <1>2, <1>5, <1>6, <2>1, <2>2
<1>12. Products'
  <2> SUFFICES ASSUME NEW p \in 1..Len(queue'["compute"]), NEW y,
                      y = queue'["compute"][p], y.op = "multiply"
               PROVE  Gives(weights, queue'["compute"], p, y.slot, y.key)
    BY <1>6 DEF Products, Gives, Loads
  <2>1. CASE s = "compute"
    <3>1. queue'["compute"] = n /\ queue["compute"] = q
      BY <2>1 DEF n, q
    <3>2. CASE p \in 1..Len(q)
      <4>1. n[p] = q[p] /\ p \in 1..(Len(q) + 1)
        BY <1>3, <1>4, <3>2 DEF Extends
      <4>2. Gives(weights, q, p, y.slot, y.key)
        BY <3>1, <3>2, <4>1 DEF LlamaInv, Products
      <4> QED
        BY <1>2a, <1>3, <3>1, <4>1, <4>2, GivesKept
    <3>3. CASE p \notin 1..Len(q)
      <4>1. p \in 1..Len(n) /\ y = n[p]
        BY <3>1
      <4>2. p > Len(q) + 2 /\ y.slot = i /\ y.key = key
        BY <1>7, <3>3, <4>1
      <4>3. p \in (Len(q) + 3)..(Len(n) + 1)
        BY <1>4, <4>1, <4>2
      <4> QED
        BY <1>8, <3>1, <4>2, <4>3
    <3> QED
      BY <3>2, <3>3
  <2>2. CASE s = "prefetch"
    BY <1>2, <1>5, <2>2 DEF LlamaInv, Products
  <2> QED
    BY <1>5, <2>1, <2>2
<1>13. Prefetching'
  <2>1. ASSUME NEW p \in 1..Len(queue'["prefetch"])
        PROVE  queue'["prefetch"][p].op # "multiply"
    <3>1. \A m \in 1..Len(queue["prefetch"]) : queue["prefetch"][m].op # "multiply"
      BY DEF LlamaInv, Prefetching
    <3>2. CASE s = "prefetch"
      <4>1. queue'["prefetch"] = n /\ queue["prefetch"] = q /\ after # Product(i, key)
        BY <3>2 DEF n, q, Product
      <4> QED
        BY <1>7, <3>1, <4>1
    <3>3. CASE s = "compute"
      BY <1>2, <1>5, <3>1, <3>3
    <3> QED
      BY <1>5, <3>2, <3>3
  <2>2. ASSUME NEW j \in Slots, On("prefetch", j)'
        PROVE  slot'[j].pending /\ slot'[j].stream = "prefetch" /\ ~On("compute", j)'
    <3>1. On("prefetch", j) =>
            slot[j].pending /\ slot[j].stream = "prefetch" /\ ~On("compute", j)
      BY DEF LlamaInv, Prefetching
    <3>2. CASE s = "prefetch"
      <4>1. ~On("compute", j)'
        BY <1>2, <1>5, <3>2 DEF On
      <4> QED
        BY <1>9, <2>2, <3>1, <3>2, <4>1 DEF Refilled
    <3>3. CASE s = "compute"
      <4>1. On("prefetch", j) /\ j # i
        BY <1>5, <1>9, <2>2, <3>3
      <4> QED
        BY <1>9, <3>1, <3>3, <4>1 DEF Refilled
    <3> QED
      BY <1>5, <3>2, <3>3
  <2>3. \A j \in Slots : slot'[j].key = NoKey => ~slot'[j].pending
    BY <1>5 DEF LlamaInv, Prefetching, Refilled
  <2> QED
    BY <2>1, <2>2, <2>3 DEF Prefetching
<1>14. KeysHold'
  <2> SUFFICES ASSUME NEW j \in Slots, NEW k, k = slot'[j].key, k # NoKey
               PROVE  /\ On("prefetch", j)' =>
                           Gives(weights, queue'["prefetch"], Len(queue'["prefetch"]) + 1, j, k)
                      /\ ~On("prefetch", j)' =>
                           Gives(weights, queue'["compute"], Len(queue'["compute"]) + 1, j, k)
    BY <1>6 DEF KeysHold, Gives, Loads
  <2>1. CASE j = i
    <3>1. k = key
      BY <2>1 DEF Refilled
    <3>2. Len(n) + 1 \in (Len(q) + 3)..(Len(n) + 1)
      BY <1>3, <1>4
    <3>3. Gives(weights, n, Len(n) + 1, j, k)
      BY <1>8, <2>1, <3>1, <3>2
    <3>4. On("prefetch", j)' <=> s = "prefetch"
      BY <1>5, <1>9, <2>1
    <3> QED
      BY <1>5, <3>3, <3>4 DEF n
  <2>2. CASE j # i
    <3>1. k = slot[j].key
      BY <2>2 DEF Refilled
    <3>2. /\ On("prefetch", j) =>
               Gives(weights, queue["prefetch"], Len(queue["prefetch"]) + 1, j, k)
          /\ ~On("prefetch", j) =>
               Gives(weights, queue["compute"], Len(queue["compute"]) + 1, j, k)
      BY <3>1 DEF LlamaInv, KeysHold
    <3>3. On("prefetch", j)' <=> On("prefetch", j)
      BY <1>5, <1>9, <2>2
    <3>4. Gives(weights, q, Len(q) + 1, j, k) => Gives(weights, n, Len(n) + 1, j, k)
      <4>1. \A p \in 1..Len(n) : p > Len(q) /\ n[p].op = "decode" => n[p].slot # j
        BY <1>4, <1>7, <2>2
      <4> QED
        BY <1>2, <1>3, <4>1, GivesAppended
    <3>5. CASE s = "compute"
      <4>1. /\ queue'["compute"] = n /\ queue["compute"] = q
            /\ queue'["prefetch"] = queue["prefetch"]
        BY <1>2, <1>5, <3>5 DEF n, q
      <4> QED
        BY <3>2, <3>3, <3>4, <4>1
    <3>6. CASE s = "prefetch"
      <4>1. /\ queue'["prefetch"] = n /\ queue["prefetch"] = q
            /\ queue'["compute"] = queue["compute"]
        BY <1>2, <1>5, <3>6 DEF n, q
      <4> QED
        BY <3>2, <3>3, <3>4, <4>1
    <3> QED
      BY <1>5, <3>5, <3>6
  <2> QED
    BY <2>1, <2>2
<1> QED
  BY <1>6, <1>10, <1>11, <1>12, <1>13, <1>14 DEF LlamaInv, MultipliesItsLoad
-----------------------------------------------------------------------------
\* find_or_evict_slot: the slot it takes is not on the prefetch stream, since that was
\* waited for or the slot is free, and the slots it turned to keep their keys.
LEMMA FilledFacts ==
  ASSUME LlamaInv, NEW key \in Keys, NEW visits \in Nat, NEW pending \in BOOLEAN,
         NEW s \in Streams, s = "prefetch" => pending, \A i \in Visited : Waited(i),
         slot' = Filled(key, visits, pending, s)
  PROVE  Taken \in Slots /\ ~On("prefetch", Taken) /\ Refilled(Taken, key, s)
<1>1. TypeInv /\ slot \in SlotTypes
  BY DEF LlamaInv, TypeInv, SlotTypes
<1>2. Taken \in Slots /\ (Free # {} => Taken \in Free) /\ Victim \in Slots
  BY <1>1, TakenType, VictimType
<1>3. Visited \subseteq Slots
  BY <1>2 DEF Visited
<1>4. \A i \in Visited : ~On("prefetch", i)
  BY <1>3, Settled
<1>5. ~On("prefetch", Taken)
  <2>1. CASE Free # {}
    BY <1>2, <2>1, Settled DEF Free
  <2>2. CASE Free = {}
    <3>1. Taken \in Visited
      BY <1>2, <2>2 DEF Taken, Visited
    <3> QED
      BY <1>4, <3>1
  <2> QED
    BY <2>1, <2>2
<1>6. \A i \in Slots :
        slot'[i] = IF i = Taken
                     THEN [key |-> key, tier |-> 2, visits |-> visits, pending |-> pending,
                           stream |-> s]
                   ELSE IF i \in Visited
                     THEN [slot[i] EXCEPT !.pending = FALSE, !.tier = @ + Demotions(i)]
                   ELSE slot[i]
  BY DEF Filled
<1>6a. slot'[Taken] = [key |-> key, tier |-> 2, visits |-> visits, pending |-> pending,
                       stream |-> s]
  BY <1>2, <1>6, Zenon
<1>7. slot' \in SlotTypes
  <2> DEFINE R == [key : KeysOrNone, tier : 0..2, visits : Nat,
                   pending : BOOLEAN, stream : Streams]
  <2>0. \A k \in KeysOrNone, t \in 0..2, v \in Nat, p \in BOOLEAN, z \in Streams :
          [key |-> k, tier |-> t, visits |-> v, pending |-> p, stream |-> z] \in R
    OBVIOUS
  <2>1. slot' = [i \in Slots |-> slot'[i]]
    BY DEF Filled
  <2>2. ASSUME NEW i \in Slots PROVE slot'[i] \in R
    <3>1. slot[i] \in R
      BY <1>1 DEF SlotTypes
    <3>2. CASE i = Taken
      <4>1. key \in KeysOrNone /\ 2 \in 0..2
        BY DEF KeysOrNone
      <4> HIDE DEF R
      <4> QED
        BY <1>6a, <2>0, <3>2, <4>1, Zenon
    <3>3. CASE i # Taken /\ i \in Visited
      <4>1. slot[i].tier + Demotions(i) \in 0..2
        BY <1>1, DemotionsType
      <4> QED
        BY <1>6, <3>1, <3>3, <4>1
    <3>4. CASE i # Taken /\ i \notin Visited
      BY <1>6, <3>1, <3>4
    <3> QED
      BY <3>2, <3>3, <3>4
  <2> HIDE DEF R
  <2>3. slot' \in [Slots -> R]
    BY <2>1, <2>2
  <2> QED
    BY <2>3 DEF SlotTypes, R
<1>8. ASSUME NEW j \in Slots, j # Taken
      PROVE  /\ slot'[j].key = slot[j].key /\ (slot'[j].pending => slot[j].pending)
             /\ On("prefetch", j) =>
                  slot'[j].pending = slot[j].pending /\ slot'[j].stream = slot[j].stream
  <2>1. slot[j] \in [key : KeysOrNone, tier : 0..2, visits : Nat,
                     pending : BOOLEAN, stream : Streams]
    BY <1>1 DEF SlotTypes
  <2>2. CASE j \in Visited
    BY <1>4, <1>6, <1>8, <2>1, <2>2
  <2>3. CASE j \notin Visited
    BY <1>6, <1>8, <2>3
  <2> QED
    BY <2>2, <2>3
<1>9. /\ slot'[Taken].key = key /\ slot'[Taken].stream = s
      /\ pending => slot'[Taken].pending
  BY <1>6a
<1>10. Refilled(Taken, key, s)
  BY <1>7, <1>8, <1>9 DEF Refilled
<1> QED
  BY <1>2, <1>5, <1>10

\* What the host's first task is.
LEMMA TodoFacts ==
  ASSUME LlamaInv, NEW op, Does(op)
  PROVE  /\ hostTodo # <<>> /\ hostTodo' = Tail(hostTodo) /\ Head(hostTodo).op = op
         /\ Head(hostTodo) = hostTodo[1] /\ 1 \in 1..Len(hostTodo)
         /\ Head(hostTodo) \in HostOps
<1>1. hostTodo \in Seq(HostOps) /\ hostTodo # <<>> /\ hostTodo' = Tail(hostTodo)
  BY DEF LlamaInv, TypeInv, Does
<1>2. /\ Head(hostTodo) = hostTodo[1] /\ Len(hostTodo) \in Nat \ {0}
      /\ Head(hostTodo) \in HostOps
  BY <1>1, TailFacts
<1> QED
  BY <1>1, <1>2 DEF Does

\* A step of the host that enqueues nothing.
LEMMA HostKeeps ==
  ASSUME LlamaInv, UNCHANGED <<slot, comp, weights, pinned, queue, wrong>>,
         hostTodo' \in Seq(HostOps) /\ PrefetchesFirst'
  PROVE  LlamaInv'
<1>0. /\ slot' = slot /\ comp' = comp /\ weights' = weights /\ queue' = queue
      /\ wrong' = wrong /\ pinned' = pinned
  OBVIOUS
<1>1. TypeInv'
  BY DEF LlamaInv, TypeInv
<1>2. Paired(comp', queue'["compute"]) /\ Paired(comp', queue'["prefetch"])
  BY DEF LlamaInv
<1>3. Products'
  BY DEF LlamaInv, Products, Gives, Loads
<1>4. Prefetching'
  BY DEF LlamaInv, Prefetching, On
<1>5. KeysHold'
  <2> SUFFICES ASSUME NEW i \in Slots, NEW key, key = slot[i].key, key # NoKey
               PROVE  /\ On("prefetch", i) =>
                           Gives(weights, queue["prefetch"], Len(queue["prefetch"]) + 1, i, key)
                      /\ ~On("prefetch", i) =>
                           Gives(weights, queue["compute"], Len(queue["compute"]) + 1, i, key)
    <3>1. \A i \in Slots : On("prefetch", i)' <=> On("prefetch", i)
      BY <1>0 DEF On
    <3> QED
      BY <1>0, <3>1 DEF KeysHold, Gives, Loads
  <2> QED
    BY DEF LlamaInv, KeysHold
<1>6. MultipliesItsLoad'
  BY DEF LlamaInv, MultipliesItsLoad
<1> QED
  BY <1>1, <1>2, <1>3, <1>4, <1>5, <1>6 DEF LlamaInv

\* prefetch_expert: what goes to the prefetch stream goes there while the other is empty.
LEMMA PrefetchStep == ASSUME LlamaInv, Prefetch PROVE LlamaInv'
<1> DEFINE o == Head(hostTodo)
<1>1. /\ hostTodo # <<>> /\ hostTodo' = Tail(hostTodo) /\ o.op = "prefetch"
      /\ o = hostTodo[1] /\ 1 \in 1..Len(hostTodo) /\ o \in HostOps
  BY TodoFacts DEF Prefetch
<1>2. o.key \in Keys /\ o.stream \in Streams
  BY <1>1 DEF HostOps
<1>3. o.stream = "prefetch" => queue["compute"] = <<>>
  BY <1>1 DEF LlamaInv, PrefetchesFirst
<1> HIDE DEF o
<1>4. CASE Find(o.key) # {}
  <2>1. UNCHANGED <<slot, pinned, queue, comp, weights, calls, wrong>>
    BY <1>4 DEF Prefetch, o
  <2>2. hostTodo' \in Seq(HostOps) /\ PrefetchesFirst'
    BY <1>1, <2>1, HostStep
  <2> QED
    BY <2>1, <2>2, HostKeeps
<1>5. CASE Find(o.key) = {}
  <2>1. /\ \A i \in Visited : Waited(i)
        /\ slot' = Filled(o.key, 0, TRUE, o.stream) /\ Load(Taken, o.key, o.stream, <<>>)
        /\ UNCHANGED <<comp, weights, wrong>>
    BY <1>5 DEF Prefetch, o
  <2>2. Taken \in Slots /\ ~On("prefetch", Taken) /\ Refilled(Taken, o.key, o.stream)
    BY <1>2, <2>1, FilledFacts
  <2>3. queue \in [Streams -> Seq(Tasks)]
    BY DEF LlamaInv, TypeInv
  <2>4. o.stream = "prefetch" => queue'["compute"] = queue["compute"]
    BY <2>1, <2>3 DEF Load, Streams
  <2>5. hostTodo' \in Seq(HostOps) /\ PrefetchesFirst'
    BY <1>1, <1>2, <2>4, HostStep DEF o, Streams
  <2> QED
    BY <1>2, <1>3, <2>1, <2>2, <2>5, LoadKeeps
<1> QED
  BY <1>4, <1>5

\* get_expert_weights for an expert without a slot.
LEMMA MissStep == ASSUME LlamaInv, Miss PROVE LlamaInv'
<1> DEFINE key == Head(hostTodo).key
<1>1. /\ hostTodo # <<>> /\ hostTodo' = Tail(hostTodo) /\ Head(hostTodo).op = "use"
      /\ Head(hostTodo) \in HostOps
  BY TodoFacts DEF Miss
<1>2. key \in Keys /\ "compute" \in Streams
  BY <1>1 DEF HostOps, Streams
<1> HIDE DEF key
<1>3. /\ \A i \in Visited : Waited(i)
      /\ slot' = Filled(key, 1, FALSE, "compute")
      /\ Load(Taken, key, "compute", Product(Taken, key)) /\ UNCHANGED <<comp, weights, wrong>>
  BY DEF Miss, key
<1>4. Taken \in Slots /\ ~On("prefetch", Taken) /\ Refilled(Taken, key, "compute")
  BY <1>2, <1>3, FilledFacts
<1>5. hostTodo' \in Seq(HostOps) /\ PrefetchesFirst'
  BY <1>1, HostStep
<1> QED
  BY <1>2, <1>3, <1>4, <1>5, LoadKeeps

\* A product of a slot that has what it is to have.
Multiply(i, key) == /\ queue' = [queue EXCEPT !["compute"] = @ \o Product(i, key)]
                    /\ UNCHANGED pinned

LEMMA ProductKeeps ==
  ASSUME LlamaInv, NEW i \in Slots, NEW key \in Keys,
         Multiply(i, key), ~On("prefetch", i), slot[i].key = key, Refilled(i, key, "compute"),
         hostTodo' \in Seq(HostOps) /\ PrefetchesFirst',
         UNCHANGED <<comp, weights, wrong>>
  PROVE  LlamaInv'
<1> DEFINE q == queue["compute"]
           n == queue'["compute"]
           x == Task("multiply", i, key)
<1>1. queue \in [Streams -> Seq(Tasks)] /\ slot \in SlotTypes
  BY DEF LlamaInv, TypeInv, SlotTypes
<1>2. /\ n = q \o Product(i, key) /\ queue'["prefetch"] = queue["prefetch"]
      /\ q \in Seq(Tasks)
  BY <1>1 DEF Multiply, Streams
<1>3. x \in Tasks /\ x.op = "multiply" /\ x.slot = i /\ x.key = key
  BY DEF Task, Tasks
<1>4. Product(i, key) = <<x>>
  BY DEF Product
<1>5. q \in Seq(Tasks)
  BY <1>2
<1> HIDE DEF n, q, x
<1>6. /\ n \in Seq(Tasks) /\ Len(n) = Len(q) + 1 /\ n[Len(q) + 1] = x
      /\ \A p \in 1..Len(q) : n[p] = q[p]
  BY <1>2, <1>3, <1>4
<1>7. Len(q) \in Nat /\ Len(n) \in Nat /\ Extends(n, q)
  BY <1>5, <1>6 DEF Extends
<1>8. \A p \in 1..Len(n) : p \in 1..Len(q) \/ (p = Len(q) + 1 /\ n[p] = x)
  BY <1>6, <1>7
<1>9. /\ queue' \in [Streams -> Seq(Tasks)] /\ key # NoKey /\ key \in KeysOrNone
      /\ "compute" \in Streams /\ "prefetch" \in Streams
  <2>1. queue' = [queue EXCEPT !["compute"] = n]
    BY <1>1 DEF Multiply, n, Streams
  <2>2. queue' \in [Streams -> Seq(Tasks)]
    BY <1>1, <1>6, <2>1
  <2>3. key # NoKey /\ key \in KeysOrNone /\ "compute" \in Streams /\ "prefetch" \in Streams
    BY DEF Keys, Layers, NoKey, KeysOrNone, Streams
  <2> QED
    BY <2>2, <2>3
<1>10. /\ comp' = comp /\ weights' = weights /\ wrong' = wrong /\ pinned' = pinned
       /\ Paired(comp, q) /\ Paired(comp, queue["prefetch"])
  BY DEF LlamaInv, Multiply, q
<1>11. \A j \in Slots : /\ On("prefetch", j)' <=> On("prefetch", j)
                        /\ On("compute", j)' => On("compute", j) \/ j = i
  <2> SUFFICES ASSUME NEW j \in Slots
               PROVE  /\ On("prefetch", j)' <=> On("prefetch", j)
                      /\ On("compute", j)' => On("compute", j) \/ j = i
    OBVIOUS
  <2>1. On("prefetch", j)' <=> On("prefetch", j)
    BY <1>2 DEF On
  <2>2. On("compute", j)' => On("compute", j) \/ j = i
    BY <1>3, <1>6, <1>8 DEF On, n, q
  <2> QED
    BY <2>1, <2>2
<1>12. TypeInv'
  BY <1>9, <1>10 DEF LlamaInv, TypeInv, Refilled, SlotTypes
<1>13. Paired(comp', n) /\ Paired(comp', queue'["prefetch"])
  <2>1. \A p \in 1..Len(n) : p > Len(q) => n[p].op = "multiply"
    BY <1>3, <1>7, <1>8
  <2>2. Paired(comp, n)
    BY <1>5, <1>6, <1>7, <1>10, <2>1, PairedProduct
  <2> QED
    BY <1>2, <1>10, <2>2
<1>14. ~On("prefetch", i) => Gives(weights, q, Len(q) + 1, i, key)
  BY <1>9 DEF LlamaInv, KeysHold, q
<1>15. Products'
  <2> SUFFICES ASSUME NEW p \in 1..Len(queue'["compute"]), NEW y,
                      y = queue'["compute"][p], y.op = "multiply"
               PROVE  Gives(weights, queue'["compute"], p, y.slot, y.key)
    BY <1>10 DEF Products, Gives, Loads
  <2>0. p \in 1..Len(n) /\ y = n[p] /\ n = queue'["compute"]
    BY DEF n
  <2>1. Gives(weights, q, p, y.slot, y.key)
    <3>1. CASE p \in 1..Len(q)
      BY <1>6, <2>0, <3>1 DEF LlamaInv, Products, q
    <3>2. CASE p = Len(q) + 1
      BY <1>3, <1>6, <1>14, <2>0, <3>2
    <3> QED
      BY <1>8, <2>0, <3>1, <3>2
  <2>2. p \in 1..(Len(q) + 1)
    BY <1>6, <2>0
  <2> QED
    BY <1>5, <1>6, <1>7, <2>0, <2>1, <2>2, GivesKept
<1>16. Prefetching'
  <2>1. \A p \in 1..Len(queue'["prefetch"]) : queue'["prefetch"][p].op # "multiply"
    BY <1>2 DEF LlamaInv, Prefetching
  <2>2. ASSUME NEW j \in Slots, On("prefetch", j)'
        PROVE  slot'[j].pending /\ slot'[j].stream = "prefetch" /\ ~On("compute", j)'
    <3>1. On("prefetch", j) /\ j # i
      BY <1>11, <2>2
    <3>2. slot[j].pending /\ slot[j].stream = "prefetch" /\ ~On("compute", j)
      BY <3>1 DEF LlamaInv, Prefetching
    <3> QED
      BY <1>11, <3>1, <3>2 DEF Refilled
  <2>3. \A j \in Slots : slot'[j].key = NoKey => ~slot'[j].pending
    BY <1>9 DEF LlamaInv, Prefetching, Refilled
  <2> QED
    BY <2>1, <2>2, <2>3 DEF Prefetching
<1>17. KeysHold'
  <2> SUFFICES ASSUME NEW j \in Slots, NEW k, k = slot'[j].key, k # NoKey
               PROVE  /\ On("prefetch", j) =>
                           Gives(weights, queue["prefetch"], Len(queue["prefetch"]) + 1, j, k)
                      /\ ~On("prefetch", j) =>
                           Gives(weights, queue'["compute"], Len(queue'["compute"]) + 1, j, k)
    BY <1>2, <1>10, <1>11 DEF KeysHold, Gives, Loads
  <2>1. k = slot[j].key
    BY DEF Refilled
  <2>2. /\ On("prefetch", j) =>
             Gives(weights, queue["prefetch"], Len(queue["prefetch"]) + 1, j, k)
        /\ ~On("prefetch", j) => Gives(weights, q, Len(q) + 1, j, k)
    BY <2>1 DEF LlamaInv, KeysHold, q
  <2>3. \A p \in 1..Len(n) : p > Len(q) /\ n[p].op = "decode" => n[p].slot # j
    BY <1>3, <1>7, <1>8
  <2>4. ~On("prefetch", j) => Gives(weights, n, Len(n) + 1, j, k)
    BY <1>5, <1>6, <1>7, <2>2, <2>3, GivesAppended
  <2> QED
    BY <2>2, <2>4 DEF n
<1> QED
  BY <1>10, <1>12, <1>13, <1>15, <1>16, <1>17 DEF LlamaInv, MultipliesItsLoad, n

\* get_expert_weights for an expert with a slot: its load is waited for, so it is not on
\* the prefetch stream, and what is loaded again or multiplied comes after it.
LEMMA HitStep == ASSUME LlamaInv, Hit PROVE LlamaInv'
<1> DEFINE key == Head(hostTodo).key
<1>1. /\ hostTodo # <<>> /\ hostTodo' = Tail(hostTodo) /\ Head(hostTodo).op = "use"
      /\ Head(hostTodo) \in HostOps
  BY TodoFacts DEF Hit
<1>2. key \in Keys /\ "compute" \in Streams
  BY <1>1 DEF HostOps, Streams
<1> HIDE DEF key
<1>3. hostTodo' \in Seq(HostOps) /\ PrefetchesFirst'
  BY <1>1, HostStep
<1>4. PICK i \in Find(key) :
        LET t == TierFor(slot[i].tier, slot[i].visits + 1) IN
        /\ Waited(i)
        /\ slot' = [slot EXCEPT ![i].visits = @ + 1, ![i].pending = FALSE, ![i].tier = t]
        /\ IF t < slot[i].tier THEN Load(i, key, "compute", Product(i, key))
             ELSE /\ queue' = [queue EXCEPT !["compute"] = @ \o Product(i, key)]
                  /\ UNCHANGED pinned
  BY DEF Hit, key
<1> DEFINE t == TierFor(slot[i].tier, slot[i].visits + 1)
<1>5. i \in Slots /\ slot[i].key = key
  BY DEF Find
<1>6. ~On("prefetch", i)
  BY <1>4, <1>5, Settled
<1>7. UNCHANGED <<comp, weights, wrong>>
  BY DEF Hit
<1>8. slot \in SlotTypes
  BY DEF LlamaInv, TypeInv, SlotTypes
<1>9. t \in 0..2
  <2>1. slot[i].tier \in 0..2
    BY <1>5, <1>8 DEF SlotTypes
  <2> QED
    BY <2>1 DEF TierFor
<1>10. slot' = [slot EXCEPT ![i].visits = @ + 1, ![i].pending = FALSE, ![i].tier = t]
  BY <1>4
<1> HIDE DEF t
<1>11. Refilled(i, key, "compute")
  <2>1. slot' \in SlotTypes
    <3> DEFINE R == [key : KeysOrNone, tier : 0..2, visits : Nat,
                     pending : BOOLEAN, stream : Streams]
    <3>1. slot \in [Slots -> R] /\ slot[i] \in R
      BY <1>5, <1>8 DEF SlotTypes
    <3>2. [slot[i] EXCEPT !.visits = @ + 1, !.pending = FALSE, !.tier = t] \in R
      <4>1. slot[i].visits + 1 \in Nat
        BY <3>1
      <4>2. \A r \in R, v \in Nat : [r EXCEPT !.visits = v, !.pending = FALSE, !.tier = t] \in R
        BY <1>9
      <4> QED
        BY <3>1, <4>1, <4>2
    <3>3. slot' = [slot EXCEPT ![i] =
                     [slot[i] EXCEPT !.visits = @ + 1, !.pending = FALSE, !.tier = t]]
      BY <1>5, <1>10, <3>1
    <3> HIDE DEF R
    <3> QED
      BY <3>1, <3>2, <3>3 DEF SlotTypes, R
  <2>2. slot'[i].key = key /\ \A j \in Slots \ {i} : slot'[j] = slot[j]
    BY <1>5, <1>8, <1>10 DEF SlotTypes
  <2> QED
    BY <2>1, <2>2 DEF Refilled
<1>12. CASE Load(i, key, "compute", Product(i, key))
  BY <1>2, <1>3, <1>5, <1>6, <1>7, <1>11, <1>12, LoadKeeps
<1>13. CASE Multiply(i, key)
  BY <1>2, <1>3, <1>5, <1>6, <1>7, <1>11, <1>13, ProductKeeps
<1> QED
  BY <1>4, <1>12, <1>13 DEF Multiply

\* An expert that is not used, and the wait for the stream, enqueue nothing.
LEMMA IdleStep == ASSUME LlamaInv, Skip \/ Synchronize PROVE LlamaInv'
<1>1. UNCHANGED <<slot, comp, weights, pinned, queue, wrong>>
  BY DEF Skip, Synchronize
<1>2. hostTodo # <<>> /\ hostTodo' = Tail(hostTodo)
  BY TodoFacts DEF Skip, Synchronize
<1>3. hostTodo' \in Seq(HostOps) /\ PrefetchesFirst'
  BY <1>1, <1>2, HostStep
<1> QED
  BY <1>1, <1>3, HostKeeps

\* clear_all: with every load waited for, nothing is left on the prefetch stream.
LEMMA ClearStep == ASSUME LlamaInv, ClearAll PROVE LlamaInv'
<1>1. /\ \A i \in Slots : Waited(i)
      /\ slot' = [i \in Slots |-> [Empty EXCEPT !.stream = slot[i].stream]]
      /\ comp' = comp /\ weights' = weights /\ pinned' = pinned /\ queue' = queue
      /\ hostTodo' = hostTodo /\ wrong' = wrong
  BY DEF ClearAll
<1>2. \A i \in Slots : ~On("prefetch", i)'
  BY <1>1, Settled DEF On
<1>3. \A i \in Slots : /\ slot'[i].key = NoKey /\ ~slot'[i].pending
                       /\ slot'[i] \in [key : KeysOrNone, tier : 0..2, visits : Nat,
                                        pending : BOOLEAN, stream : Streams]
  <2> SUFFICES ASSUME NEW i \in Slots
               PROVE  /\ slot'[i].key = NoKey /\ ~slot'[i].pending
                      /\ slot'[i] \in [key : KeysOrNone, tier : 0..2, visits : Nat,
                                       pending : BOOLEAN, stream : Streams]
    OBVIOUS
  <2>1. slot[i].stream \in Streams /\ NoKey \in KeysOrNone
    BY DEF LlamaInv, TypeInv, KeysOrNone
  <2>2. slot'[i] = [Empty EXCEPT !.stream = slot[i].stream]
    BY <1>1
  <2>3. slot'[i] = [key |-> NoKey, tier |-> 2, visits |-> 0, pending |-> FALSE,
                    stream |-> slot[i].stream]
    BY <2>2 DEF Empty
  <2> QED
    BY <2>1, <2>3
<1>4. TypeInv'
  BY <1>1, <1>3 DEF LlamaInv, TypeInv
<1>5. Paired(comp', queue'["compute"]) /\ Paired(comp', queue'["prefetch"])
  BY <1>1 DEF LlamaInv
<1>6. Products'
  BY <1>1 DEF LlamaInv, Products, Gives, Loads
<1>7. Prefetching'
  BY <1>1, <1>2, <1>3 DEF LlamaInv, Prefetching
<1>8. KeysHold'
  BY <1>3 DEF KeysHold
<1>9. PrefetchesFirst' /\ MultipliesItsLoad'
  BY <1>1 DEF LlamaInv, PrefetchesFirst, MultipliesItsLoad
<1> QED
  BY <1>4, <1>5, <1>6, <1>7, <1>8, <1>9 DEF LlamaInv

\* The first x tasks, and no others, are prefetches to the other stream.
First(o) == o.op = "prefetch" /\ o.stream = "prefetch"
Firsts(h, x) == /\ x \in 0..Len(h)
                /\ \A p \in 1..Len(h) : First(h[p]) <=> p <= x

LEMMA FirstsConcat ==
  ASSUME NEW h \in Seq(HostOps), NEW r \in Seq(HostOps), NEW x, Firsts(h, x),
         \A p \in 1..Len(r) : ~First(r[p])
  PROVE  h \o r \in Seq(HostOps) /\ Firsts(h \o r, x)
<1>1. /\ h \o r \in Seq(HostOps) /\ Len(h \o r) = Len(h) + Len(r)
      /\ \A p \in 1..Len(h) : (h \o r)[p] = h[p]
      /\ \A p \in 1..Len(h \o r) : p \notin 1..Len(h) =>
           p - Len(h) \in 1..Len(r) /\ (h \o r)[p] = r[p - Len(h)]
  BY ConcatFacts
<1> DEFINE m == h \o r
<1>2. Len(h) \in Nat /\ Len(r) \in Nat
  OBVIOUS
<1>3. /\ m \in Seq(HostOps) /\ Len(m) = Len(h) + Len(r)
      /\ \A p \in 1..Len(h) : m[p] = h[p]
      /\ \A p \in 1..Len(m) : p \notin 1..Len(h) =>
           p - Len(h) \in 1..Len(r) /\ m[p] = r[p - Len(h)]
  BY <1>1
<1> HIDE DEF m
<1>4. \A p \in 1..Len(m) : First(m[p]) <=> p <= x
  <2> SUFFICES ASSUME NEW p \in 1..Len(m) PROVE First(m[p]) <=> p <= x
    OBVIOUS
  <2>1. x \in 0..Len(h)
    BY DEF Firsts
  <2>2. CASE p \in 1..Len(h)
    <3>1. m[p] = h[p]
      BY <1>3, <2>2
    <3> QED
      BY <2>2, <3>1 DEF Firsts
  <2>3. CASE p \notin 1..Len(h)
    <3>1. ~First(m[p])
      BY <1>3, <2>3
    <3>2. ~(p <= x)
      BY <1>2, <1>3, <2>1, <2>3
    <3> QED
      BY <3>1, <3>2
  <2> QED
    BY <2>2, <2>3
<1>5. x \in 0..Len(m)
  BY <1>2, <1>3 DEF Firsts
<1> QED
  BY <1>3, <1>4, <1>5 DEF Firsts, m

\* What ggml_cuda_mul_mat_id prefetches, and what it goes through after that.
LEMMA TodoTypes ==
  ASSUME NEW l \in Layers, NEW n \in Nat, NEW order \in [1..n -> Experts], NEW s \in Streams
  PROVE  /\ Prefetches(l, order, s) \in Seq(HostOps) /\ Len(Prefetches(l, order, s)) = n
         /\ \A p \in 1..n : First(Prefetches(l, order, s)[p]) <=> s = "prefetch"
         /\ Uses(l, Range(order)) \in Seq(HostOps)
         /\ \A p \in 1..Len(Uses(l, Range(order))) : ~First(Uses(l, Range(order))[p])
<1>1. \A p \in 1..n : <<l, order[p]>> \in Keys
  BY DEF Keys
<1>2. \A k \in Keys : [op |-> "prefetch", key |-> k, stream |-> s] \in HostOps
  BY DEF HostOps
<1>3. Prefetches(l, order, s)
        = [p \in 1..n |-> [op |-> "prefetch", key |-> <<l, order[p]>>, stream |-> s]]
  BY DEF Prefetches
<1>4. /\ Prefetches(l, order, s) \in Seq(HostOps) /\ Len(Prefetches(l, order, s)) = n
      /\ \A p \in 1..n : First(Prefetches(l, order, s)[p]) <=> s = "prefetch"
  <2> DEFINE f(p) == [op |-> "prefetch", key |-> <<l, order[p]>>, stream |-> s]
  <2>1. \A p \in 1..n : f(p) \in HostOps /\ (First(f(p)) <=> s = "prefetch")
    BY <1>1, <1>2 DEF First
  <2>2. Prefetches(l, order, s) = [p \in 1..n |-> f(p)]
    BY <1>3
  <2> HIDE DEF f
  <2> QED
    BY <2>1, <2>2
<1>5. /\ Uses(l, Range(order)) \in Seq(HostOps)
      /\ \A p \in 1..Len(Uses(l, Range(order))) : ~First(Uses(l, Range(order))[p])
  <2> DEFINE g(p) == [op |-> IF p - 1 \in Range(order) THEN "use" ELSE "skip",
                      key |-> <<l, p - 1>>]
  <2>1. NumExperts \in Nat
    BY LlamaAssumption
  <2>2. \A p \in 1..NumExperts : <<l, p - 1>> \in Keys
    BY <2>1 DEF Keys, Experts
  <2>3. \A p \in 1..NumExperts : g(p) \in HostOps /\ ~First(g(p))
    BY <2>2 DEF HostOps, First
  <2>4. Uses(l, Range(order)) = [p \in 1..NumExperts |-> g(p)]
    BY DEF Uses
  <2> HIDE DEF g
  <2>5. Uses(l, Range(order)) \in Seq(HostOps) /\ Len(Uses(l, Range(order))) = NumExperts
    BY <2>1, <2>3, <2>4
  <2> QED
    BY <2>3, <2>4, <2>5
<1> QED
  BY <1>4, <1>5

\* ggml_cuda_mul_mat_id prefetches to the other stream while its own is empty.
LEMMA MulMatIdStep ==
  ASSUME LlamaInv, NEW l \in Layers, NEW order \in Orders, MulMatId(l, order) PROVE LlamaInv'
<1> DEFINE A == NextLayer(l, order)
           B == Prefetches(l, order, "prefetch")
           C == Prefetches(l, order, "compute")
           D == <<[op |-> "sync"]>>
           E == Uses(l, Range(order))
<1>1. UNCHANGED <<slot, comp, weights, pinned, queue, wrong>> /\ queue["compute"] = <<>>
  BY DEF MulMatId
<1>2. PICK n \in 1..MaxUsed : order \in [1..n -> Experts]
  BY DEF Orders
<1>3. n \in Nat /\ "prefetch" \in Streams /\ "compute" \in Streams
  BY LlamaAssumption DEF Streams
<1>4. /\ B \in Seq(HostOps) /\ \A p \in 1..Len(B) : First(B[p])
      /\ C \in Seq(HostOps) /\ \A p \in 1..Len(C) : ~First(C[p])
      /\ E \in Seq(HostOps) /\ \A p \in 1..Len(E) : ~First(E[p])
  BY <1>2, <1>3, TodoTypes
<1>5. A \in Seq(HostOps) /\ \A p \in 1..Len(A) : First(A[p])
  <2>1. CASE l + 1 < NumLayers
    <3>1. l + 1 \in Layers
      BY LlamaAssumption, <2>1 DEF Layers
    <3>2. A = Prefetches(l + 1, order, "prefetch")
      BY <2>1 DEF NextLayer
    <3> QED
      BY <1>2, <1>3, <3>1, <3>2, TodoTypes
  <2>2. CASE ~(l + 1 < NumLayers)
    BY <2>2 DEF NextLayer
  <2> QED
    BY <2>1, <2>2
<1>6. D \in Seq(HostOps) /\ \A p \in 1..Len(D) : ~First(D[p])
  BY DEF HostOps, First
<1>7. hostTodo' = A \o B \o C \o D \o E
  BY DEF MulMatId
<1> HIDE DEF A, B, C, D, E
<1>8. A \o B \in Seq(HostOps) /\ Firsts(A \o B, Len(A) + Len(B))
  <2> DEFINE m == A \o B
  <2>1. /\ m \in Seq(HostOps) /\ Len(m) = Len(A) + Len(B) /\ Len(A) + Len(B) \in Nat
        /\ \A p \in 1..Len(A) : m[p] = A[p]
        /\ \A p \in 1..Len(m) : p \notin 1..Len(A) =>
             p - Len(A) \in 1..Len(B) /\ m[p] = B[p - Len(A)]
    BY <1>4, <1>5, ConcatFacts
  <2> HIDE DEF m
  <2>2. \A p \in 1..Len(m) : First(m[p]) /\ p <= Len(A) + Len(B)
    <3> SUFFICES ASSUME NEW p \in 1..Len(m) PROVE First(m[p]) /\ p <= Len(A) + Len(B)
      OBVIOUS
    <3>1. p <= Len(A) + Len(B)
      BY <2>1
    <3>2. First(m[p])
      <4>1. CASE p \in 1..Len(A)
        BY <1>5, <2>1, <4>1
      <4>2. CASE p \notin 1..Len(A)
        BY <1>4, <2>1, <4>2
      <4> QED
        BY <4>1, <4>2
    <3> QED
      BY <3>1, <3>2
  <2>3. Firsts(m, Len(A) + Len(B))
    BY <2>1, <2>2 DEF Firsts
  <2> QED
    BY <2>1, <2>3 DEF m
<1>9. PICK x : Firsts(A \o B, x)
  BY <1>8
<1>10. A \o B \o C \in Seq(HostOps) /\ Firsts(A \o B \o C, x)
  BY <1>4, <1>8, <1>9, FirstsConcat
<1>11. A \o B \o C \o D \in Seq(HostOps) /\ Firsts(A \o B \o C \o D, x)
  BY <1>6, <1>10, FirstsConcat
<1>12. A \o B \o C \o D \o E \in Seq(HostOps) /\ Firsts(A \o B \o C \o D \o E, x)
  BY <1>4, <1>11, FirstsConcat
<1>13. hostTodo' \in Seq(HostOps) /\ Firsts(hostTodo', x)
  BY <1>7, <1>12
<1>14. PrefetchesFirst'
  <2> SUFFICES ASSUME NEW j \in 1..Len(hostTodo'), First(hostTodo'[j])
               PROVE  /\ queue'["compute"] = <<>>
                      /\ \A h \in 1..(j - 1) : First(hostTodo'[h])
    BY DEF PrefetchesFirst, First
  <2>1. queue'["compute"] = <<>>
    BY <1>1
  <2>2. \A h \in 1..(j - 1) : h \in 1..Len(hostTodo') /\ h <= x
    BY <1>13 DEF Firsts
  <2> QED
    BY <1>13, <2>1, <2>2 DEF Firsts
<1> QED
  BY <1>1, <1>13, <1>14, HostKeeps
-----------------------------------------------------------------------------
LEMMA LlamaStart == LlamaInit => LlamaInv
<1> SUFFICES ASSUME LlamaInit PROVE LlamaInv
  OBVIOUS
<1>1. /\ slot = [i \in Slots |-> Empty] /\ comp = [i \in Slots |-> NoLoad]
      /\ weights = [i \in Slots |-> NoLoad] /\ pinned = NoKey
      /\ queue = [s \in Streams |-> <<>>] /\ hostTodo = <<>> /\ wrong = {}
  BY DEF LlamaInit
<1>2. \A s \in Streams : queue[s] = <<>> /\ 1..Len(queue[s]) = {} /\ queue[s] \in Seq(Tasks)
  BY <1>1
<1>3. "compute" \in Streams /\ "prefetch" \in Streams
  BY DEF Streams
<1>4. TypeInv
  BY <1>1, <1>3 DEF TypeInv, Empty, NoLoad, Loaded, KeysOrNone
<1>5. Paired(comp, queue["compute"]) /\ Paired(comp, queue["prefetch"])
  BY <1>2, <1>3 DEF Paired
<1>6. Products
  BY <1>2, <1>3 DEF Products
<1>7. Prefetching
  BY <1>1, <1>2, <1>3 DEF Prefetching, On, Empty
<1>8. KeysHold
  BY <1>1 DEF KeysHold, Empty
<1>9. PrefetchesFirst /\ MultipliesItsLoad
  BY <1>1 DEF PrefetchesFirst, MultipliesItsLoad
<1> QED
  BY <1>4, <1>5, <1>6, <1>7, <1>8, <1>9 DEF LlamaInv

LEMMA LlamaStep == LlamaInv /\ [LlamaNext]_llamaVars => LlamaInv'
<1> SUFFICES ASSUME LlamaInv, [LlamaNext]_llamaVars PROVE LlamaInv'
  OBVIOUS
<1>1. CASE \E s \in Streams : Run(s)
  BY <1>1, RunStep
<1>2. CASE \E l \in Layers, o \in Orders : MulMatId(l, o)
  BY <1>2, MulMatIdStep
<1>3. CASE Prefetch
  BY <1>3, PrefetchStep
<1>4. CASE Synchronize \/ Skip
  BY <1>4, IdleStep
<1>5. CASE Hit
  BY <1>5, HitStep
<1>6. CASE Miss
  BY <1>6, MissStep
<1>7. CASE ClearAll
  BY <1>7, ClearStep
<1>8. CASE UNCHANGED llamaVars
  <2>1. /\ UNCHANGED <<slot, comp, weights, pinned, queue, wrong>>
        /\ hostTodo' = hostTodo
    BY <1>8 DEF llamaVars
  <2>2. hostTodo' \in Seq(HostOps) /\ PrefetchesFirst'
    BY <2>1 DEF LlamaInv, TypeInv, PrefetchesFirst
  <2> QED
    BY <2>1, <2>2, HostKeeps
<1> QED
  BY <1>1, <1>2, <1>3, <1>4, <1>5, <1>6, <1>7, <1>8 DEF LlamaNext

\* What is on the two streams of the llama.cpp port, what its slots hold and what the
\* host has to do fit together after every step.
THEOREM LlamaInvariance == LlamaSpec => []LlamaInv
BY LlamaStart, LlamaStep, PTL DEF LlamaSpec

\* A product finds in its slot what was last loaded for its expert, for any number of
\* layers, experts and slots, and however the two streams take turns.
THEOREM ProductsFindTheirLoad == LlamaSpec => []MultipliesItsLoad
<1>1. LlamaInv => MultipliesItsLoad
  BY DEF LlamaInv
<1> QED
  BY <1>1, LlamaInvariance, PTL
-----------------------------------------------------------------------------
\* The layer class. What a layer's weights may be, and what its codes decode to.
CodesOf(l) == {Coded(OwnWeights(l), b) : b \in MoeLayers}
ValuesOf(l) == {OwnWeights(l)} \cup CodesOf(l)
AllValues == UNION {ValuesOf(l) : l \in MoeLayers}
Routed(l) == class[l] > 0 /\ reach[l] = "routed"
InCall == [layer : MoeLayers, level : Nat, saved : Seq(AllValues),
           phase : {"enter", "leave"}, skipped : BOOLEAN]

PatchTypes ==
  /\ cls \in Nat /\ original \in {NoClass, 0}
  /\ class \in [MoeLayers -> Nat \cup {NoClass}] /\ DOMAIN reach = MoeLayers
  /\ fused \in [MoeLayers -> AllValues]
  /\ DOMAIN codes = MoeLayers /\ DOMAIN decoded = MoeLayers /\ DOMAIN results = MoeLayers
  /\ codebook \in MoeLayers \cup {NoLayer}
  /\ \A l \in MoeLayers : /\ codes[l] \in CodesOf(l) \cup {NotCoded}
                          /\ decoded[l] \in {NotCoded, codes[l]}
  /\ \/ run = Idle
     \/ /\ run \in InCall
        /\ class[run.layer] \in Nat /\ run.level <= class[run.layer]

\* The first wrapper entered saves the layer's own weights; those within, and the layer
\* itself, find the decoded ones.
Stacked ==
  \A l \in MoeLayers :
    IF l = run.layer /\ run # Idle /\ run.saved # <<>>
      THEN /\ fused[l] = codes[l] /\ codes[l] # NotCoded /\ Routed(l)
           /\ run.saved[1] = OwnWeights(l)
           /\ \A i \in DOMAIN run.saved : i > 1 => run.saved[i] = codes[l]
      ELSE fused[l] = OwnWeights(l)

\* A layer that is routed is entered by a wrapper that swaps, fails, or goes on without.
Entered == run.phase = "enter" /\ Routed(run.layer) /\ run.level < class[run.layer]
             => run.saved # <<>> \/ run.skipped

\* So the calls of a layer see the same, but for those that went on without.
OneResult ==
  \A l \in MoeLayers : \A r \in results[l] :
    \/ r.data = OwnWeights(l) /\ class[l] # NoClass /\ (~Routed(l) \/ r.skipped)
    \/ r.data = codes[l] /\ codes[l] # NotCoded /\ Routed(l)
PatchInv == /\ PatchTypes /\ (original = NoClass => cls = 0)
            /\ Stacked /\ Entered /\ OneResult

\* Encoded weights are not the empty state of the attributes.
LEMMA CodesAreSomething ==
  ASSUME NEW l \in MoeLayers
  PROVE  NotCoded \notin CodesOf(l) /\ OwnWeights(l) \in AllValues /\ CodesOf(l) \subseteq AllValues
  BY DEF NotCoded, CodesOf, Coded, OwnWeights, AllValues, ValuesOf

\* A call that enters or leaves a wrapper.
LEMMA CallMoves ==
  ASSUME NEW r \in InCall, NEW n \in Nat, NEW s \in Seq(AllValues)
  PROVE  LET q == [r EXCEPT !.level = n, !.saved = s] IN
         q \in InCall /\ q.layer = r.layer /\ q.level = n /\ q.saved = s /\ q.phase = r.phase
         /\ q.skipped = r.skipped
  BY DEF InCall

\* A call that goes on in the wrapper inside, with or without a swap.
LEMMA CallGoesOn ==
  ASSUME NEW r \in InCall, NEW n \in Nat, NEW b \in BOOLEAN
  PROVE  LET q == [r EXCEPT !.level = n, !.skipped = b] IN
         q \in InCall /\ q.layer = r.layer /\ q.level = n /\ q.saved = r.saved
         /\ q.phase = r.phase /\ q.skipped = b
  BY DEF InCall

\* A sequence that grows or shrinks at its end.
LEMMA AtTheEnd ==
  ASSUME NEW S, NEW s \in Seq(S), NEW e \in S
  PROVE  /\ Append(s, e) \in Seq(S) /\ Append(s, e) # <<>> /\ Len(Append(s, e)) = Len(s) + 1
         /\ \A i \in 1..(Len(s) + 1) : Append(s, e)[i] = IF i = Len(s) + 1 THEN e ELSE s[i]
         /\ s # <<>> =>
              /\ Len(s) \in Nat \ {0} /\ s[Len(s)] \in S
              /\ Front(s) \in Seq(S) /\ Len(Front(s)) = Len(s) - 1
              /\ \A i \in 1..(Len(s) - 1) : Front(s)[i] = s[i]
<1>1. /\ Append(s, e) \in Seq(S) /\ Append(s, e) # <<>> /\ Len(Append(s, e)) = Len(s) + 1
      /\ \A i \in 1..(Len(s) + 1) : Append(s, e)[i] = IF i = Len(s) + 1 THEN e ELSE s[i]
  BY AppendProperties
<1>2. ASSUME s # <<>>
      PROVE  /\ Len(s) \in Nat \ {0} /\ s[Len(s)] \in S
             /\ Front(s) \in Seq(S) /\ Len(Front(s)) = Len(s) - 1
             /\ \A i \in 1..(Len(s) - 1) : Front(s)[i] = s[i]
  <2>1. Len(s) \in Nat \ {0} /\ s[Len(s)] \in S
    BY <1>2
  <2>2. \A i \in 1..(Len(s) - 1) : s[i] \in S
    OBVIOUS
  <2> DEFINE n == Len(s) - 1
  <2>3. n \in Nat
    BY <2>1
  <2> HIDE DEF n
  <2>4. \A i \in 1..n : s[i] \in S
    BY <2>2 DEF n
  <2>5. /\ SubSeq(s, 1, n) \in Seq(S)
        /\ Len(SubSeq(s, 1, n)) = (IF 1 <= n THEN n - 1 + 1 ELSE 0)
        /\ \A i \in 1..(n - 1 + 1) : SubSeq(s, 1, n)[i] = s[1 + i - 1]
    BY <2>3, <2>4, SubSeqProperties
  <2>6. /\ Len(SubSeq(s, 1, n)) = n
        /\ \A i \in 1..n : SubSeq(s, 1, n)[i] = s[i]
    BY <2>3, <2>5
  <2> QED BY <2>1, <2>5, <2>6 DEF Front, n
<1> QED BY <1>1, <1>2

\* A module just imported has not been patched.
LEMMA PatchStart == PatchInit => PatchInv
<1> SUFFICES ASSUME PatchInit PROVE PatchInv
  OBVIOUS
<1>1. PatchTypes
  BY CodesAreSomething DEF PatchInit, PatchTypes, NoClass
<1> QED BY <1>1 DEF PatchInit, PatchInv, Stacked, Entered, OneResult, Idle

\* Each patch, restore and step of a call keeps the invariant.
LEMMA PatchStep == PatchInv /\ [PatchNext]_patchVars => PatchInv'
<1> SUFFICES ASSUME PatchInv, [PatchNext]_patchVars PROVE PatchInv'
  OBVIOUS
<1> USE DEF PatchInv, PatchTypes, NoClass, InCall
<1>1. CASE PatchModel
  BY <1>1 DEF PatchModel, Saved, Stacked, Entered, OneResult, Routed, Idle
<1>2. CASE RestoreModel
  BY <1>2 DEF RestoreModel, Stacked, Entered, OneResult, Routed, Idle
<1>3. ASSUME NEW l \in MoeLayers, Construct(l) PROVE PatchInv'
  BY <1>3 DEF Construct, Stacked, Entered, OneResult, Routed, Idle
<1>4. ASSUME NEW l \in MoeLayers, EnterLayer(l) PROVE PatchInv'
  <2>1. run = Idle /\ class[l] \in Nat
        /\ run' = [layer |-> l, level |-> class[l], saved |-> <<>>, phase |-> "enter",
                   skipped |-> FALSE]
        /\ UNCHANGED <<cls, original, class, reach, fused, codes, decoded, codebook, results>>
    BY <1>4 DEF EnterLayer, Idle
  <2>2. PatchTypes'
    BY <2>1
  <2>3. Stacked' /\ Entered' /\ OneResult'
    BY <2>1 DEF Stacked, Entered, OneResult, Routed
  <2> QED BY <2>1, <2>2, <2>3
<1>5. CASE QuantizeExperts
  <2> DEFINE l == run.layer
  <2>1. /\ l \in MoeLayers /\ codes[l] = NotCoded /\ run # Idle /\ run.phase = "enter"
        /\ run \in InCall
        /\ UNCHANGED <<cls, original, class, reach, fused, results>>
    BY <1>5 DEF QuantizeExperts, Entering, Quantized, Idle
  <2>2. fused[l] = OwnWeights(l) /\ run.saved = <<>>
    BY <2>1 DEF Stacked
  <2>3. PICK b \in MoeLayers :
          /\ codebook' \in {b, codebook}
          /\ \/ codes' = [codes EXCEPT ![l] = Coded(OwnWeights(l), b)]
                /\ decoded' = [decoded EXCEPT ![l] = NotCoded] /\ run' = run
             \/ run' = [run EXCEPT !.phase = "leave"] /\ UNCHANGED <<codes, decoded>>
    <3>1. (IF saves /\ codebook # NoLayer THEN codebook ELSE l) \in MoeLayers
      BY <2>1
    <3> QED BY <1>5, <2>2, <3>1 DEF QuantizeExperts
  <2>4. PatchTypes'
    <3>1. Coded(OwnWeights(l), b) \in CodesOf(l)
      BY DEF CodesOf
    <3> QED BY <2>1, <2>3, <3>1 DEF Idle
  <2>5. run'.saved = <<>> /\ run'.layer = l
    BY <2>1, <2>2, <2>3
  <2>6. Stacked'
    BY <2>1, <2>2, <2>3, <2>5 DEF Stacked
  <2>7. Entered'
    BY <2>1, <2>2, <2>3, <2>5 DEF Entered, Routed
  <2>8. OneResult'
    BY <2>1, <2>3 DEF OneResult, Routed
  <2> QED BY <2>1, <2>4, <2>6, <2>7, <2>8
<1>6. CASE SwapIn
  <2> DEFINE l == run.layer
  <2>1. /\ l \in MoeLayers /\ run # Idle /\ run.phase = "enter" /\ run.level \in Nat \ {0}
        /\ run \in InCall
        /\ class[l] \in Nat /\ run.level <= class[l]
        /\ UNCHANGED <<cls, original, class, reach, codes, codebook, results>>
    BY <1>6 DEF SwapIn, Entering, Idle
  <2>2. codes[l] # NotCoded /\ reach[l] = "routed"
    BY <1>6 DEF SwapIn, Quantized
  <2>3. /\ decoded' = [decoded EXCEPT ![l] = codes[l]]
        /\ fused' = [fused EXCEPT ![l] = codes[l]]
        /\ run' = [run EXCEPT !.level = @ - 1, !.saved = Append(@, fused[l])]
    BY <1>6, <2>1, <2>2 DEF SwapIn, Quantized
  <2>4. codes[l] \in AllValues /\ fused[l] \in AllValues
    BY <2>1, <2>2, CodesAreSomething
  <2>5. /\ run'.layer = l /\ run'.saved = Append(run.saved, fused[l])
        /\ run'.level = run.level - 1 /\ run'.phase = "enter"
        /\ run' \in InCall
    <3>1. Append(run.saved, fused[l]) \in Seq(AllValues) /\ run.level - 1 \in Nat
      BY <2>1, <2>4, AtTheEnd DEF InCall
    <3>2. run' = [run EXCEPT !.level = run.level - 1, !.saved = Append(run.saved, fused[l])]
      BY <2>3
    <3> QED BY <2>1, <3>1, <3>2, CallMoves
  <2>6. PatchTypes'
    BY <2>1, <2>3, <2>4, <2>5
  <2>7. /\ run'.saved # <<>> /\ run'.saved[1] = OwnWeights(l)
        /\ \A i \in DOMAIN run'.saved : i > 1 => run'.saved[i] = codes[l]
    <3> DEFINE old == run.saved
    <3>1. old \in Seq(AllValues) /\ (old = <<>> => fused[l] = OwnWeights(l))
          /\ (old # <<>> => fused[l] = codes[l] /\ old[1] = OwnWeights(l)
                            /\ \A i \in DOMAIN old : i > 1 => old[i] = codes[l])
      BY <2>1 DEF Stacked, InCall
    <3>2. run'.saved = Append(old, fused[l])
      BY <2>5
    <3> HIDE DEF old
    <3>3. Append(old, fused[l]) # <<>> /\ Append(old, fused[l])[1] = OwnWeights(l)
      <4>1. Len(old) \in Nat /\ (old = <<>> <=> Len(old) = 0)
        BY <3>1
      <4>2. Append(old, fused[l]) # <<>>
            /\ Append(old, fused[l])[1] = IF Len(old) = 0 THEN fused[l] ELSE old[1]
        BY <2>4, <3>1, <4>1, AtTheEnd
      <4> QED BY <3>1, <4>1, <4>2
    <3>4. \A i \in DOMAIN Append(old, fused[l]) : i > 1 => Append(old, fused[l])[i] = codes[l]
      BY <2>4, <3>1, AtTheEnd
    <3> QED BY <3>2, <3>3, <3>4
  <2>8. Stacked'
    <3>1. Routed(l) /\ Routed(l)' /\ run' # Idle
      BY <2>1, <2>2, <2>5 DEF Routed, Idle
    <3>2. fused'[l] = codes'[l] /\ codes'[l] # NotCoded
      BY <2>1, <2>2, <2>3
    <3>3. \A m \in MoeLayers : m # l => fused'[m] = OwnWeights(m)
      BY <2>1, <2>3 DEF Stacked
    <3> QED BY <2>1, <2>5, <2>7, <3>1, <3>2, <3>3 DEF Stacked
  <2>9. Entered' /\ OneResult'
    BY <2>1, <2>5, <2>7 DEF Entered, OneResult, Routed
  <2> QED BY <2>1, <2>6, <2>8, <2>9
<1>7. CASE GoOn
  <2> DEFINE l == run.layer
  <2>1. /\ l \in MoeLayers /\ run # Idle /\ run.phase = "enter" /\ run.level \in Nat \ {0}
        /\ run \in InCall
        /\ class[l] \in Nat /\ run.level <= class[l]
        /\ UNCHANGED <<cls, original, class, reach, fused, codes, decoded, codebook, results>>
    BY <1>7 DEF GoOn, Entering, Idle
  <2> DEFINE without == run.skipped \/ reach[l] = "routed"
  <2>2. /\ run' \in InCall /\ run' # Idle /\ run'.layer = l /\ run'.saved = run.saved
        /\ run'.level = run.level - 1 /\ run'.level \in Nat /\ run'.phase = "enter"
        /\ run'.skipped = without
    <3>1. run' = [run EXCEPT !.level = run.level - 1, !.skipped = without]
      BY <1>7 DEF GoOn
    <3>2. without \in BOOLEAN /\ run.level - 1 \in Nat
      BY <2>1
    <3> HIDE DEF without
    <3>3. run' \in InCall /\ run'.layer = l /\ run'.saved = run.saved /\ run'.phase = "enter"
          /\ run'.level = run.level - 1 /\ run'.skipped = without
      BY <2>1, <3>1, <3>2, CallGoesOn
    <3> QED BY <2>1, <3>2, <3>3 DEF Idle
  <2>3. PatchTypes'
    BY <2>1, <2>2
  <2>4. Stacked'
    BY <2>1, <2>2 DEF Stacked, Routed
  <2>5. Entered' /\ OneResult'
    BY <2>1, <2>2 DEF Entered, OneResult, Routed
  <2> QED BY <2>1, <2>3, <2>4, <2>5
<1>8. CASE Raise
  BY <1>8 DEF Raise, Entering, Stacked, Entered, OneResult, Routed, Idle
<1>9. CASE Compute
  BY <1>9 DEF Compute, Stacked, Entered, OneResult, Routed, Idle
<1>10. CASE PutBack
  <2> DEFINE l == run.layer
  <2>1. /\ l \in MoeLayers /\ run # Idle
        /\ run \in InCall
        /\ class[l] \in Nat /\ run.level <= class[l]
        /\ UNCHANGED <<cls, original, class, reach, codes, decoded, codebook, results>>
    BY <1>10 DEF PutBack, Idle
  <2>2. CASE run.saved = <<>>
    BY <1>10, <2>1, <2>2 DEF PutBack, Stacked, Entered, OneResult, Routed, Idle
  <2>3. CASE run.saved # <<>>
    <3> DEFINE n == Len(run.saved)
    <3>1. /\ n \in Nat \ {0} /\ run.saved[n] \in AllValues
          /\ fused' = [fused EXCEPT ![l] = run.saved[n]]
          /\ Front(run.saved) \in Seq(AllValues) /\ Len(Front(run.saved)) = n - 1
          /\ \A i \in 1..(n - 1) : Front(run.saved)[i] = run.saved[i]
      <4>1. run.saved \in Seq(AllValues) /\ fused[l] \in AllValues
        BY <2>1 DEF InCall
      <4> QED BY <1>10, <2>3, <4>1, AtTheEnd DEF PutBack, Last
    <3>2. /\ run' \in InCall /\ run'.layer = l /\ run'.phase = "leave"
          /\ run'.level = run.level /\ run'.saved = Front(run.saved)
      <4>1. run' = [run EXCEPT !.level = run.level, !.saved = Front(run.saved)]
            /\ run.phase = "leave" /\ run.level \in Nat
        BY <1>10, <2>1, <2>3 DEF PutBack, InCall
      <4> QED BY <2>1, <3>1, <4>1, CallMoves
    <3> HIDE DEF n
    <3>3. PatchTypes'
      BY <2>1, <3>1, <3>2
    <3>4. Stacked'
      <4>1. /\ run.saved[1] = OwnWeights(l) /\ codes[l] # NotCoded /\ Routed(l)
            /\ \A i \in 1..n : i > 1 => run.saved[i] = codes[l]
        BY <2>1, <2>3 DEF Stacked, n
      <4>2. \A m \in MoeLayers : m # l => fused'[m] = OwnWeights(m)
        BY <2>1, <3>1 DEF Stacked
      <4>3. CASE n = 1
        <5>1. run'.saved = <<>> /\ fused'[l] = OwnWeights(l)
          BY <2>1, <3>1, <3>2, <4>1, <4>3 DEF InCall
        <5> QED BY <3>2, <4>2, <5>1 DEF Stacked
      <4>4. CASE n > 1
        <5>1. run'.saved # <<>> /\ run'.saved[1] = OwnWeights(l) /\ run' # Idle
          BY <3>1, <3>2, <4>1, <4>4 DEF Idle
        <5>2. \A i \in DOMAIN run'.saved : i > 1 => run'.saved[i] = codes'[l]
          <6>1. DOMAIN run'.saved = 1..(n - 1) /\ codes' = codes
            BY <2>1, <3>1, <3>2
          <6>2. \A i \in 1..(n - 1) : i > 1 => run'.saved[i] = codes[l]
            BY <3>1, <3>2, <4>1
          <6> QED BY <6>1, <6>2
        <5>3. fused'[l] = codes'[l] /\ codes'[l] # NotCoded /\ Routed(l)'
          <6>1. run.saved[n] = codes[l] /\ UNCHANGED <<codes, class, reach>>
            BY <2>1, <3>1, <4>1, <4>4
          <6>2. fused'[l] = run.saved[n]
            BY <2>1, <3>1
          <6> QED BY <3>2, <4>1, <6>1, <6>2 DEF Routed
        <5> QED BY <3>2, <4>2, <5>1, <5>2, <5>3 DEF Stacked
      <4>5. n = 1 \/ n > 1
        BY <3>1
      <4> QED BY <4>3, <4>4, <4>5
    <3>5. Entered' /\ OneResult'
      BY <2>1, <3>2 DEF Entered, OneResult, Routed
    <3> QED BY <2>1, <3>3, <3>4, <3>5
  <2> QED BY <2>2, <2>3
<1>11. CASE UNCHANGED patchVars
  BY <1>11 DEF patchVars, Stacked, Entered, OneResult, Routed
<1> QED
  BY <1>1, <1>2, <1>3, <1>4, <1>5, <1>6, <1>7, <1>8, <1>9, <1>10, <1>11
    DEF PatchNext

\* What the wrappers of a call have saved, and what a layer's calls run with, is as PatchInv
\* says in every reachable state.
THEOREM PatchInvariance == PatchSpec => []PatchInv
  BY PatchStart, PatchStep, PTL DEF PatchSpec

\* However often the class was patched and whatever raised, a layer has its own weights
\* between calls, all its calls in which no clone failed run with the same and the others
\* with those or its own, and a restore leaves vLLM's class.
THEOREM RestoredAsBefore == PatchSpec => []PatchesUndone
<1>1. PatchInv => PatchesUndone
  <2> SUFFICES ASSUME PatchInv PROVE PatchesUndone
    OBVIOUS
  <2>1. run = Idle => \A l \in MoeLayers : fused[l] = OwnWeights(l)
    BY DEF PatchInv, Stacked
  <2>2. ASSUME NEW l \in MoeLayers
        PROVE  \E data \in {OwnWeights(l)} \cup CodesOf(l) :
                 \A r \in results[l] : r.data = data \/ (r.skipped /\ r.data = OwnWeights(l))
    <3>1. CASE Routed(l) /\ codes[l] # NotCoded
      <4>1. codes[l] \in CodesOf(l)
        BY <3>1 DEF PatchInv, PatchTypes
      <4>2. \A r \in results[l] : r.data = codes[l] \/ (r.skipped /\ r.data = OwnWeights(l))
        BY <3>1 DEF PatchInv, OneResult
      <4> QED BY <4>1, <4>2
    <3>2. CASE ~(Routed(l) /\ codes[l] # NotCoded)
      BY <3>2 DEF PatchInv, OneResult
    <3> QED BY <3>1, <3>2
  <2> QED BY <2>1, <2>2 DEF PatchInv, PatchesUndone, CodesOf
<1> QED BY <1>1, PatchInvariance, PTL

-----------------------------------------------------------------------------
\* The method. The list there is was made for ids at the address of the last call's.
Sums == UNION {[1..n -> SUBSET RoutedExperts] : n \in Sizes}
Applied == [layer : SparseLayers, at : Addresses, ids : Sums, sum : Sums]
AddressOfLast ==
  IF applies = <<>> THEN cached.ptr = 0 ELSE cached.ptr = applies[Len(applies)].at
MethodInv == applies \in Seq(Applied) /\ AddressOfLast /\ MissesOnlyReused

\* A batch sent to the experts of a list that is its own gets all of them.
LEMMA ListsAllOf ==
  ASSUME NEW ids \in Batches, NEW list
  PROVE  /\ ids \in Sums /\ [t \in DOMAIN ids |-> ids[t] \cap list] \in Sums
         /\ list = UNION Range(ids) => [t \in DOMAIN ids |-> ids[t] \cap list] = ids
<1>1. PICK n \in Sizes : ids \in [1..n -> {S \in SUBSET RoutedExperts : Cardinality(S) = K}]
  BY DEF Batches
<1>2. /\ ids \in [1..n -> SUBSET RoutedExperts]
      /\ [t \in DOMAIN ids |-> ids[t] \cap list] \in [1..n -> SUBSET RoutedExperts]
  BY <1>1
<1>3. ASSUME list = UNION Range(ids)
      PROVE  [t \in DOMAIN ids |-> ids[t] \cap list] = ids
  <2>1. \A t \in DOMAIN ids : ids[t] \cap list = ids[t]
    BY <1>3 DEF Range
  <2> QED BY <1>1, <2>1
<1> QED BY <1>2, <1>3 DEF Sums

\* Loading a layer leaves the list alone, and a call leaves one made for its own address.
LEMMA MethodStep == MethodInv /\ [MethodNext]_methodVars => MethodInv'
<1> SUFFICES ASSUME MethodInv, [MethodNext]_methodVars PROVE MethodInv'
  OBVIOUS
<1>1. CASE UNCHANGED <<cached, applies>>
  BY <1>1 DEF MethodInv, AddressOfLast, MissesOnlyReused
<1>2. ASSUME NEW at \in Addresses, NEW ids \in Batches, Apply(LayerInTurn, at, ids)
      PROVE  MethodInv'
  <2> DEFINE n == Len(applies)
             sums == [t \in DOMAIN ids |-> ids[t] \cap cached'.list]
             call == [layer |-> LayerInTurn, at |-> at, ids |-> ids, sum |-> sums]
  <2>1. applies' = Append(applies, call) /\ cached' = Listed(at, ids)
    BY <1>2 DEF Apply
  <2>2. LayerInTurn \in SparseLayers
    <3>1. CASE applies = <<>>
      BY <3>1, MethodAssumption DEF LayerInTurn, SparseLayers
    <3>2. CASE applies # <<>>
      <4>1. applies[n].layer \in 1..NumSparse
        <5>1. applies \in Seq(Applied) /\ n \in 1..Len(applies)
          BY <3>2 DEF MethodInv
        <5>2. applies[n] \in Applied
          BY <5>1
        <5> QED BY <5>2 DEF Applied, SparseLayers
      <4>2. applies[n].layer % NumSparse \in 0..(NumSparse - 1)
        BY <4>1, MethodAssumption
      <4> QED BY <3>2, <4>2, MethodAssumption DEF LayerInTurn, SparseLayers, Last
    <3> QED BY <3>1, <3>2
  <2>3. call \in Applied
    BY <2>2, ListsAllOf DEF Applied
  <2>4. /\ applies' \in Seq(Applied) /\ applies' # <<>> /\ Len(applies') = n + 1
        /\ \A i \in 1..n : applies'[i] = applies[i]
        /\ applies'[n + 1] = call /\ n \in Nat
    <3>1. applies \in Seq(Applied)
      BY DEF MethodInv
    <3> QED BY <2>1, <2>3, <3>1, AppendProperties
  <2>5. cached'.ptr = at
    BY <2>1 DEF Listed
  <2>6. AddressOfLast'
    BY <2>4, <2>5 DEF AddressOfLast
  <2>7. call.sum = call.ids \/ (n + 1 > 1 /\ call.at = applies[n].at)
    <3>1. CASE cached.ptr = at
      <4>1. applies # <<>>
        BY <3>1, MethodAssumption DEF MethodInv, AddressOfLast
      <4>2. n > 0 /\ applies[n].at = at
        BY <3>1, <4>1 DEF MethodInv, AddressOfLast
      <4> QED BY <2>4, <4>2
    <3>2. CASE cached.ptr # at
      <4>1. cached'.list = UNION Range(ids)
        BY <2>1, <3>2 DEF Listed
      <4> QED BY <4>1, ListsAllOf
    <3> QED BY <3>1, <3>2
  <2>8. MissesOnlyReused'
    <3> SUFFICES ASSUME NEW i \in DOMAIN applies'
                 PROVE  applies'[i].sum = applies'[i].ids
                          \/ (i > 1 /\ applies'[i].at = applies'[i - 1].at)
      BY DEF MissesOnlyReused
    <3> HIDE DEF call, n
    <3>1. i \in 1..n \/ i = n + 1
      BY <2>4
    <3>2. CASE i = n + 1
      BY <2>4, <2>7, <3>2
    <3>3. CASE i \in 1..n
      <4>1. applies[i].sum = applies[i].ids \/ (i > 1 /\ applies[i].at = applies[i - 1].at)
        BY <3>3 DEF MethodInv, MissesOnlyReused, n
      <4> QED BY <2>4, <3>3, <4>1
    <3> QED BY <3>1, <3>2, <3>3
  <2> QED BY <2>4, <2>6, <2>8 DEF MethodInv
<1> QED
  BY <1>1, <1>2 DEF MethodNext, methodVars, GetQuantMethod, ProcessWeightsAfterLoading

\* A token misses an expert it was sent to only in a layer whose ids lie where the ids
\* of the call before did.
THEOREM MissesOnlyThere == MethodSpec => []MissesOnlyReused
<1>1. MethodInit => MethodInv
  BY DEF MethodInit, MethodInv, AddressOfLast, MissesOnlyReused
<1>2. MethodInv => MissesOnlyReused
  BY DEF MethodInv
<1> QED BY <1>1, <1>2, MethodStep, PTL DEF MethodSpec

-----------------------------------------------------------------------------
\* The cache. Entries are of the experts used or mentioned, and stamped with their last
\* use; the cached ones are among them, each once.
Entry == [tier : 0..2, visits : Nat, last : Nat, weights : Blobs \cup {NoBlob}]
Stored == [key : ExpertKeys, blob : Blobs]
ProgressiveTypes ==
  /\ cache \in Seq(Stored) /\ accesses \in Seq(ExpertKeys) /\ globalStep = Len(accesses)
  /\ entries \in [DOMAIN entries -> Entry] /\ DOMAIN entries \subseteq ExpertKeys
CachedOnce ==
  /\ \A i \in DOMAIN cache : cache[i].key \in DOMAIN entries
  /\ \A i, j \in DOMAIN cache : cache[i].key = cache[j].key => i = j
Stamped ==
  /\ \A i \in DOMAIN accesses : accesses[i] \in DOMAIN entries
  /\ \A x \in DOMAIN entries : entries[x].last = LastUse(x)
ProgressiveInv == ProgressiveTypes /\ CachedOnce /\ Stamped

\* A set of numbers that is not empty has a lowest.
LEMMA LowestExists ==
  ASSUME NEW T, T \subseteq Nat, T # {}
  PROVE  \E x \in T : \A y \in T : x <= y
<1>1. \E x \in T : \A y \in T : ~(<<y, x>> \in OpToRel(<, Nat))
  BY NatLessThanWellFounded, WFMin
<1>2. PICK x \in T : \A y \in T : ~(<<y, x>> \in OpToRel(<, Nat))
  BY <1>1
<1>3. ASSUME NEW y \in T PROVE x <= y
  <2>1. ~(<<y, x>> \in OpToRel(<, Nat))
    BY <1>2
  <2>2. x \in Nat /\ y \in Nat
    OBVIOUS
  <2>3. ~(y < x)
    BY <2>1, <2>2 DEF OpToRel
  <2> QED BY <2>2, <2>3
<1> QED BY <1>3

\* An expert never used counts as used at 0.
LEMMA LastUseOfUnused ==
  ASSUME NEW x, \A i \in DOMAIN accesses : accesses[i] # x
  PROVE  LastUse(x) = 0
  BY DEF LastUse

\* An access is the last one of its expert and of no other.
LEMMA LastUseMoves ==
  ASSUME NEW x, accesses \in Seq(ExpertKeys), x \in ExpertKeys, accesses' = Append(accesses, x)
  PROVE  /\ LastUse(x)' = Len(accesses)
         /\ \A y : y # x => LastUse(y)' = LastUse(y)
         /\ \A i \in DOMAIN accesses' :
              accesses'[i] = x \/ (i \in DOMAIN accesses /\ accesses'[i] = accesses[i])
<1> DEFINE n == Len(accesses)
<1>1. /\ n \in Nat /\ DOMAIN accesses = 1..n /\ DOMAIN accesses' = 1..(n + 1)
      /\ accesses'[n + 1] = x /\ \A i \in 1..n : accesses'[i] = accesses[i]
  BY AppendProperties
<1> HIDE DEF n
<1>2. LastUse(x)' = n
  <2> DEFINE at == {i \in DOMAIN accesses' : accesses'[i] = x}
             S == {i - 1 : i \in at}
  <2>1. n + 1 \in at /\ n \in S /\ \A y \in S : y \in Int /\ n >= y
    BY <1>1
  <2>2. LastUse(x)' = Max(S)
    BY <2>1 DEF LastUse
  <2> HIDE DEF S, at
  <2>3. \A y \in S : (\A z \in S : y >= z) => y = n
    BY <1>1, <2>1
  <2> QED BY <2>1, <2>2, <2>3 DEF Max
<1>3. ASSUME NEW y, y # x
      PROVE  LastUse(y)' = LastUse(y)
  <2>1. {i \in DOMAIN accesses' : accesses'[i] = y} = {i \in DOMAIN accesses : accesses[i] = y}
    BY <1>1, <1>3
  <2> QED BY <2>1 DEF LastUse
<1>4. \A i \in DOMAIN accesses' :
        accesses'[i] = x \/ (i \in DOMAIN accesses /\ accesses'[i] = accesses[i])
  BY <1>1
<1> QED BY <1>2, <1>3, <1>4 DEF n

\* A new entry is stamped as one never used.
LEMMA NewEntries ==
  ASSUME ProgressiveInv, NEW x \in ExpertKeys
  PROVE  LET es == WithEntry(x) IN
         /\ es \in [DOMAIN entries \cup {x} -> Entry] /\ x \in DOMAIN es
         /\ \A y \in DOMAIN es : es[y].last = LastUse(y)
         /\ \A y \in DOMAIN entries : es[y] = entries[y]
<1>1. CASE x \in DOMAIN entries
  BY <1>1 DEF WithEntry, ProgressiveInv, ProgressiveTypes, Stamped
<1>2. CASE x \notin DOMAIN entries
  <2>1. NewEntry \in Entry /\ NewEntry.last = 0
    BY DEF NewEntry, Entry
  <2>2. LastUse(x) = 0
    BY <1>2, LastUseOfUnused DEF ProgressiveInv, Stamped
  <2>3. WithEntry(x) = [y \in DOMAIN entries \cup {x} |-> IF y = x THEN NewEntry ELSE entries[y]]
    BY <1>2 DEF WithEntry
  <2> QED BY <1>2, <2>1, <2>2, <2>3 DEF ProgressiveInv, ProgressiveTypes, Stamped
<1> QED BY <1>1, <1>2

\* A sequence from which one place is taken.
LEMMA RemoveAtFacts ==
  ASSUME NEW S, NEW s \in Seq(S), NEW p \in 1..Len(s)
  PROVE  /\ RemoveAt(s, p) \in Seq(S) /\ Len(RemoveAt(s, p)) = Len(s) - 1
         /\ \A j \in 1..(Len(s) - 1) : RemoveAt(s, p)[j] = IF j < p THEN s[j] ELSE s[j + 1]
<1> DEFINE a == SubSeq(s, 1, p - 1)
           b == SubSeq(s, p + 1, Len(s))
<1>1. p \in Int /\ Len(s) \in Nat /\ p - 1 \in Int /\ p + 1 \in Int
      /\ \A i \in 1..Len(s) : s[i] \in S
  OBVIOUS
<1>2. a \in Seq(S) /\ Len(a) = p - 1 /\ \A i \in 1..(p - 1) : a[i] = s[i]
  <2>1. \A i \in 1..(p - 1) : s[i] \in S
    BY <1>1
  <2>2. /\ a \in Seq(S) /\ Len(a) = (IF 1 <= p - 1 THEN p - 1 - 1 + 1 ELSE 0)
        /\ \A i \in 1..(p - 1 - 1 + 1) : a[i] = s[1 + i - 1]
    BY <1>1, <2>1, SubSeqProperties
  <2> HIDE DEF a
  <2> QED BY <1>1, <2>2
<1>3. b \in Seq(S) /\ Len(b) = Len(s) - p /\ \A i \in 1..(Len(s) - p) : b[i] = s[p + i]
  <2>1. \A i \in (p + 1)..Len(s) : s[i] \in S
    BY <1>1
  <2>2. /\ b \in Seq(S) /\ Len(b) = (IF p + 1 <= Len(s) THEN Len(s) - (p + 1) + 1 ELSE 0)
        /\ \A i \in 1..(Len(s) - (p + 1) + 1) : b[i] = s[p + 1 + i - 1]
    BY <1>1, <2>1, SubSeqProperties
  <2> HIDE DEF b
  <2> QED BY <1>1, <2>2
<1>4. RemoveAt(s, p) = a \o b
  BY DEF RemoveAt
<1> HIDE DEF a, b
<1>5. /\ a \o b \in Seq(S) /\ Len(a \o b) = Len(a) + Len(b)
      /\ \A i \in 1..(Len(a) + Len(b)) : (a \o b)[i] = IF i <= Len(a) THEN a[i] ELSE b[i - Len(a)]
  BY <1>2, <1>3, ConcatProperties
<1>6. ASSUME NEW j \in 1..(Len(s) - 1)
      PROVE  (a \o b)[j] = IF j < p THEN s[j] ELSE s[j + 1]
  <2>1. CASE j < p
    BY <1>1, <1>2, <1>3, <1>5, <2>1
  <2>2. CASE ~(j < p)
    <3>1. (a \o b)[j] = b[j - (p - 1)] /\ j - (p - 1) \in 1..(Len(s) - p)
      BY <1>1, <1>2, <1>3, <1>5, <2>2
    <3>2. b[j - (p - 1)] = s[p + (j - (p - 1))] /\ p + (j - (p - 1)) = j + 1
      BY <1>1, <1>3, <3>1
    <3> QED BY <2>2, <3>1, <3>2
  <2> QED BY <2>1, <2>2
<1> QED BY <1>1, <1>2, <1>3, <1>4, <1>5, <1>6

\* Without an expert all others are cached as before.
LEMMA OthersStay ==
  ASSUME ProgressiveInv, NEW x, IsCached(x)
  PROVE  /\ Without(x) \in Seq(Stored)
         /\ \A j \in DOMAIN Without(x) : Without(x)[j].key # x
              /\ \E i \in DOMAIN cache : Without(x)[j] = cache[i]
         /\ \A i \in DOMAIN cache : cache[i].key # x =>
              \E j \in DOMAIN Without(x) : Without(x)[j] = cache[i]
         /\ \A i, j \in DOMAIN Without(x) : Without(x)[i].key = Without(x)[j].key => i = j
<1> DEFINE p == CHOOSE i \in DOMAIN cache : cache[i].key = x
           n == Len(cache)
           W == Without(x)
<1>1. cache \in Seq(Stored) /\ n \in Nat /\ DOMAIN cache = 1..n
  BY DEF ProgressiveInv, ProgressiveTypes
<1>2. p \in 1..n /\ cache[p].key = x
  BY <1>1 DEF IsCached
<1>3. \A i, j \in 1..n : cache[i].key = cache[j].key => i = j
  BY <1>1 DEF ProgressiveInv, CachedOnce
<1>4. W = RemoveAt(cache, p)
  BY DEF Without
<1> HIDE DEF p, n, W
<1>5. /\ W \in Seq(Stored) /\ DOMAIN W = 1..(n - 1)
      /\ \A j \in 1..(n - 1) : W[j] = IF j < p THEN cache[j] ELSE cache[j + 1]
  <2>1. /\ W \in Seq(Stored) /\ Len(W) = Len(cache) - 1
        /\ \A j \in 1..(Len(cache) - 1) : W[j] = IF j < p THEN cache[j] ELSE cache[j + 1]
    <3>1. p \in 1..Len(cache)
      BY <1>2 DEF n
    <3> QED BY <1>1, <1>4, <3>1, RemoveAtFacts
  <2>2. DOMAIN W = 1..Len(W)
    BY <2>1
  <2> QED BY <2>1, <2>2 DEF n
<1>6. \A j \in 1..(n - 1) : \E i \in 1..n : i # p /\ W[j] = cache[i]
  BY <1>1, <1>2, <1>5
<1>7. \A j \in 1..(n - 1) : W[j].key # x
  BY <1>2, <1>3, <1>6
<1>8. ASSUME NEW i \in 1..n, cache[i].key # x
      PROVE  \E j \in 1..(n - 1) : W[j] = cache[i]
  <2>1. CASE i < p
    BY <1>1, <1>2, <1>5, <2>1
  <2>2. CASE i > p
    <3>1. i - 1 \in 1..(n - 1) /\ ~(i - 1 < p) /\ i - 1 + 1 = i
      BY <1>1, <1>2, <2>2
    <3> QED BY <1>5, <3>1
  <2> QED BY <1>1, <1>2, <1>8, <2>1, <2>2
<1>9. \A i, j \in 1..(n - 1) : W[i].key = W[j].key => i = j
  <2> SUFFICES ASSUME NEW i \in 1..(n - 1), NEW j \in 1..(n - 1), W[i].key = W[j].key
               PROVE  i = j
    OBVIOUS
  <2>1. PICK a \in 1..n : W[i] = cache[a] /\ a = (IF i < p THEN i ELSE i + 1)
    BY <1>1, <1>2, <1>5
  <2>2. PICK b \in 1..n : W[j] = cache[b] /\ b = (IF j < p THEN j ELSE j + 1)
    BY <1>1, <1>2, <1>5
  <2>3. a = b
    BY <1>3, <2>1, <2>2
  <2> QED BY <1>1, <1>2, <2>1, <2>2, <2>3
<1> QED BY <1>1, <1>5, <1>6, <1>7, <1>8, <1>9 DEF W

\* Of the cached experts none was used before the one _evict_one takes.
LEMMA LruIsOldest ==
  ASSUME ProgressiveInv, cache # <<>>
  PROVE  /\ Lru \in DOMAIN cache
         /\ \A j \in DOMAIN cache : LastUse(cache[Lru].key) <= LastUse(cache[j].key)
<1>1. /\ cache \in Seq(Stored) /\ DOMAIN cache = 1..Len(cache) /\ Len(cache) \in Nat \ {0}
      /\ \A i \in DOMAIN cache : Stamp(i) \in Nat /\ Stamp(i) = LastUse(cache[i].key)
  BY DEF ProgressiveInv, ProgressiveTypes, CachedOnce, Stamped, Stamp, Entry
<1> DEFINE Stamps == {Stamp(i) : i \in DOMAIN cache}
<1>2. PICK low \in Stamps : \A y \in Stamps : low <= y
  <2>1. Stamps \subseteq Nat /\ Stamps # {}
    BY <1>1
  <2> QED BY <2>1, LowestExists
<1> DEFINE Lows == {i \in DOMAIN cache : Stamp(i) = low}
<1>3. PICK i \in Lows : \A j \in Lows : i <= j
  <2>1. Lows \subseteq Nat /\ Lows # {}
    BY <1>1, <1>2
  <2> QED BY <2>1, LowestExists
<1>4. /\ i \in DOMAIN cache
      /\ \A j \in DOMAIN cache : Stamp(i) < Stamp(j) \/ (Stamp(i) = Stamp(j) /\ i <= j)
  <2>1. ASSUME NEW j \in DOMAIN cache
        PROVE  Stamp(i) < Stamp(j) \/ (Stamp(i) = Stamp(j) /\ i <= j)
    <3>1. Stamp(i) <= Stamp(j)
      BY <1>2, <1>3
    <3> QED BY <1>1, <1>3, <3>1
  <2> QED BY <1>3, <2>1
<1>5. /\ Lru \in DOMAIN cache
      /\ \A j \in DOMAIN cache : Stamp(Lru) < Stamp(j) \/ (Stamp(Lru) = Stamp(j) /\ Lru <= j)
  BY <1>4 DEF Lru
<1> QED BY <1>1, <1>5

\* What is stored in an entry or evicted from it is not its stamp.
LEMMA StoredEntries ==
  ASSUME NEW D, NEW es \in [D -> Entry], NEW x, NEW b \in Blobs \cup {NoBlob},
         NEW q, q = [es EXCEPT ![x].weights = b]
  PROVE  q \in [D -> Entry] /\ \A y \in D : q[y].last = es[y].last
<1>1. CASE x \in D
  <2> DEFINE old == es[x]
             t == old.tier
             f == [old EXCEPT !.weights = b]
  <2>1. old \in Entry /\ t \in 0..2 /\ f = [old EXCEPT !.weights = b, !.tier = t]
    BY <1>1 DEF Entry
  <2>2. q = [es EXCEPT ![x] = f]
    BY <1>1
  <2> HIDE DEF old, t, f
  <2>3. f \in Entry /\ f.last = old.last
    BY <2>1 DEF Entry
  <2> QED BY <1>1, <2>2, <2>3 DEF old
<1>2. CASE x \notin D
  BY <1>2
<1> QED BY <1>1, <1>2

\* The same of an eviction, which demotes, too.
LEMMA EvictedEntries ==
  ASSUME NEW D, NEW es \in [D -> Entry], NEW x
  PROVE  Evicted(es, x) \in [D -> Entry] /\ \A y \in D : Evicted(es, x)[y].last = es[y].last
<1>1. CASE x \in D
  <2> DEFINE old == es[x]
             t == DemotedBy(old.tier)
             f == [old EXCEPT !.weights = NoBlob, !.tier = t]
  <2>1. old \in Entry /\ t \in 0..2
    BY <1>1 DEF Entry, DemotedBy
  <2>2. Evicted(es, x) = [es EXCEPT ![x] = f]
    BY <1>1 DEF Evicted
  <2> HIDE DEF old, t
  <2>3. f \in Entry /\ f.last = old.last
    BY <2>1 DEF Entry
  <2> HIDE DEF f
  <2> QED BY <1>1, <2>2, <2>3 DEF old
<1>2. CASE x \notin D
  BY <1>2 DEF Evicted
<1> QED BY <1>1, <1>2

\* Stamps are right as long as nothing is used and new entries are stamped 0.
LEMMA StampsStay ==
  ASSUME ProgressiveInv, UNCHANGED accesses,
         NEW D, entries' \in [D -> Entry], D \subseteq ExpertKeys, DOMAIN entries \subseteq D,
         \A y \in D : entries'[y].last = LastUse(y)
  PROVE  Stamped'
<1>1. \A y : LastUse(y)' = LastUse(y)
  BY DEF LastUse
<1>2. DOMAIN entries' = D /\ \A i \in DOMAIN accesses : accesses[i] \in D
  BY DEF ProgressiveInv, Stamped
<1> QED BY <1>1, <1>2 DEF Stamped

\* Each operation of the cache keeps the invariant.
LEMMA ProgressiveStep == ProgressiveInv /\ [ProgressiveNext]_progressiveVars => ProgressiveInv'
<1> SUFFICES ASSUME ProgressiveInv, [ProgressiveNext]_progressiveVars PROVE ProgressiveInv'
  OBVIOUS
<1> USE DEF ProgressiveInv
<1>1. ASSUME NEW x \in ExpertKeys, RecordAccess(x) PROVE ProgressiveInv'
  <2> DEFINE es == WithEntry(x)
  <2>1. /\ es \in [DOMAIN entries \cup {x} -> Entry] /\ x \in DOMAIN es
        /\ \A y \in DOMAIN es : es[y].last = LastUse(y)
    BY NewEntries
  <2>2. /\ entries' = [es EXCEPT ![x].visits = es[x].visits + 1, ![x].last = globalStep,
                                 ![x].tier = TierOf(es[x].visits + 1)]
        /\ globalStep' = globalStep + 1 /\ accesses' = Append(accesses, x) /\ cache' = cache
    BY <1>1 DEF RecordAccess
  <2>3. globalStep = Len(accesses) /\ globalStep \in Nat
    BY DEF ProgressiveTypes
  <2> HIDE DEF es
  <2>4. /\ entries' \in [DOMAIN entries \cup {x} -> Entry]
        /\ entries'[x].last = globalStep
        /\ \A y \in DOMAIN entries \cup {x} : y # x => entries'[y].last = es[y].last
    <3> DEFINE e == [es[x] EXCEPT !.visits = es[x].visits + 1, !.last = globalStep,
                                  !.tier = TierOf(es[x].visits + 1)]
    <3>1. entries' = [es EXCEPT ![x] = e]
      BY <2>1, <2>2
    <3>2. e \in Entry /\ e.last = globalStep
      <4>1. es[x] \in Entry /\ TierOf(es[x].visits + 1) \in 0..2
        BY <2>1 DEF TierOf
      <4> DEFINE t == TierOf(es[x].visits + 1)
                 old == es[x]
      <4> HIDE DEF t, old
      <4>2. old \in Entry /\ t \in 0..2 /\ old.visits + 1 \in Nat
        BY <4>1 DEF Entry, t, old
      <4>3. LET g == [old EXCEPT !.visits = old.visits + 1, !.last = globalStep, !.tier = t] IN
            g \in Entry /\ g.last = globalStep
        BY <2>3, <4>2 DEF Entry
      <4> QED BY <4>3 DEF t, old
    <3> HIDE DEF e
    <3> QED BY <2>1, <3>1, <3>2
  <2>5. /\ LastUse(x)' = Len(accesses)
        /\ \A y : y # x => LastUse(y)' = LastUse(y)
        /\ \A i \in DOMAIN accesses' :
             accesses'[i] = x \/ (i \in DOMAIN accesses /\ accesses'[i] = accesses[i])
    BY <2>2, LastUseMoves DEF ProgressiveTypes
  <2>6. ProgressiveTypes'
    BY <2>2, <2>3, <2>4, AppendProperties DEF ProgressiveTypes
  <2>7. CachedOnce'
    BY <2>2, <2>4 DEF CachedOnce
  <2>8. Stamped'
    BY <2>1, <2>3, <2>4, <2>5 DEF Stamped
  <2> QED BY <2>6, <2>7, <2>8
<1>2. ASSUME NEW x \in ExpertKeys, GetTier(x) PROVE ProgressiveInv'
  <2>1. /\ entries' \in [DOMAIN entries \cup {x} -> Entry]
        /\ \A y \in DOMAIN entries \cup {x} : entries'[y].last = LastUse(y)
        /\ UNCHANGED <<cache, globalStep, accesses>>
    BY <1>2, NewEntries DEF GetTier
  <2>2. Stamped'
    BY <2>1, StampsStay DEF ProgressiveTypes
  <2>3. ProgressiveTypes' /\ CachedOnce'
    BY <2>1 DEF ProgressiveTypes, CachedOnce
  <2> QED BY <2>2, <2>3
<1>3. ASSUME NEW x \in ExpertKeys, Evict(x) PROVE ProgressiveInv'
  <2>1. IsCached(x) /\ cache' = Without(x) /\ entries' = Evicted(entries, x)
        /\ UNCHANGED <<globalStep, accesses>>
    BY <1>3 DEF Evict
  <2>2. /\ entries' \in [DOMAIN entries -> Entry]
        /\ \A y \in DOMAIN entries : entries'[y].last = LastUse(y)
    BY <2>1, EvictedEntries DEF ProgressiveTypes, Stamped
  <2>3. Stamped'
    BY <2>1, <2>2, StampsStay DEF ProgressiveTypes
  <2>4. ProgressiveTypes' /\ CachedOnce'
    BY <2>1, <2>2, OthersStay DEF ProgressiveTypes, CachedOnce
  <2> QED BY <2>3, <2>4
<1>4. ASSUME NEW x \in ExpertKeys, NEW b \in Blobs, CacheWeights(x, b) PROVE ProgressiveInv'
  <2> DEFINE es == WithEntry(x)
             D == DOMAIN entries \cup {x}
             item == [key |-> x, blob |-> b]
  <2>1. /\ es \in [D -> Entry] /\ \A y \in D : es[y].last = LastUse(y)
        /\ item \in Stored /\ D \subseteq ExpertKeys /\ DOMAIN entries \subseteq D
    BY NewEntries DEF Stored, ProgressiveTypes
  <2>2. UNCHANGED <<globalStep, accesses>> /\ cache \in Seq(Stored)
    BY <1>4 DEF CacheWeights, ProgressiveTypes
  <2>3. /\ \/ entries' = [es EXCEPT ![x].weights = b]
           \/ \E v : entries' = [Evicted(es, v) EXCEPT ![x].weights = b]
    BY <1>4 DEF CacheWeights
  <2> HIDE DEF es
  <2>4. entries' \in [D -> Entry] /\ \A y \in D : entries'[y].last = LastUse(y)
    <3> DEFINE ds == D
    <3> HIDE DEF ds
    <3>1. es \in [ds -> Entry] /\ \A y \in ds : es[y].last = LastUse(y)
      BY <2>1 DEF ds
    <3>2. CASE entries' = [es EXCEPT ![x].weights = b]
      BY <3>1, <3>2, StoredEntries DEF ds
    <3>3. ASSUME NEW v, entries' = [Evicted(es, v) EXCEPT ![x].weights = b]
          PROVE  entries' \in [ds -> Entry] /\ \A y \in ds : entries'[y].last = LastUse(y)
      <4> DEFINE fs == Evicted(es, v)
      <4>1. fs \in [ds -> Entry] /\ \A y \in ds : fs[y].last = es[y].last
        BY <3>1, EvictedEntries
      <4>2. entries' = [fs EXCEPT ![x].weights = b]
        BY <3>3
      <4> HIDE DEF fs
      <4>3. entries' \in [ds -> Entry] /\ \A y \in ds : entries'[y].last = fs[y].last
        <5> DEFINE old == fs[x]
                   f == [old EXCEPT !.weights = b]
        <5>1. old \in Entry /\ entries' = [fs EXCEPT ![x] = f]
          BY <4>1, <4>2 DEF ds
        <5> HIDE DEF old
        <5>2. f \in Entry /\ f.last = old.last
          BY <5>1 DEF Entry
        <5> HIDE DEF f
        <5> QED BY <4>1, <5>1, <5>2 DEF old
      <4> QED BY <3>1, <4>1, <4>3
    <3> QED BY <2>3, <3>2, <3>3 DEF ds
  <2>5. Stamped'
    BY <2>1, <2>2, <2>4, StampsStay
  <2>6. CASE IsCached(x)
    <3>1. cache' = [i \in DOMAIN cache |-> IF cache[i].key = x THEN item ELSE cache[i]]
      BY <1>4, <2>6 DEF CacheWeights
    <3>2. cache' \in Seq(Stored) /\ DOMAIN cache' = DOMAIN cache
          /\ \A i \in DOMAIN cache : cache'[i].key = cache[i].key
      BY <2>1, <2>2, <3>1
    <3>3. ProgressiveTypes' /\ CachedOnce'
      BY <2>1, <2>2, <2>4, <3>2 DEF ProgressiveTypes, CachedOnce
    <3> QED BY <2>5, <3>3
  <2>7. ASSUME NEW kept \in Seq(Stored), cache' = Append(kept, item),
               \A j \in DOMAIN kept : kept[j].key # x /\ kept[j].key \in DOMAIN entries,
               \A i, j \in DOMAIN kept : kept[i].key = kept[j].key => i = j
        PROVE  ProgressiveTypes' /\ CachedOnce'
    <3>1. /\ cache' \in Seq(Stored) /\ DOMAIN cache' = 1..(Len(kept) + 1)
          /\ DOMAIN kept = 1..Len(kept) /\ Len(kept) \in Nat
          /\ \A i \in 1..Len(kept) : cache'[i] = kept[i]
          /\ cache'[Len(kept) + 1].key = x
      BY <2>1, <2>7, AppendProperties
    <3>2. ProgressiveTypes'
      BY <2>1, <2>2, <2>4, <3>1 DEF ProgressiveTypes
    <3>3. CachedOnce'
      BY <2>1, <2>4, <2>7, <3>1 DEF CachedOnce
    <3> QED BY <3>2, <3>3
  <2>8. CASE ~IsCached(x) /\ CacheFull /\ cache # <<>>
    <3> DEFINE v == cache[Lru].key
    <3>1. cache' = Append(Without(v), item)
      BY <1>4, <2>8 DEF CacheWeights
    <3>2. IsCached(v)
      BY <2>8, LruIsOldest DEF IsCached
    <3> HIDE DEF v
    <3>3. /\ Without(v) \in Seq(Stored)
          /\ \A j \in DOMAIN Without(v) : Without(v)[j].key # x
               /\ Without(v)[j].key \in DOMAIN entries
          /\ \A i, j \in DOMAIN Without(v) : Without(v)[i].key = Without(v)[j].key => i = j
      BY <2>8, <3>2, OthersStay DEF IsCached, CachedOnce
    <3> QED BY <2>5, <2>7, <3>1, <3>3
  <2>9. CASE ~IsCached(x) /\ ~(CacheFull /\ cache # <<>>)
    <3>1. cache' = Append(cache, item)
      BY <1>4, <2>9 DEF CacheWeights
    <3>2. /\ \A j \in DOMAIN cache : cache[j].key # x /\ cache[j].key \in DOMAIN entries
          /\ \A i, j \in DOMAIN cache : cache[i].key = cache[j].key => i = j
      BY <2>9 DEF IsCached, CachedOnce
    <3> QED BY <2>2, <2>5, <2>7, <3>1, <3>2
  <2> QED BY <2>6, <2>8, <2>9
<1>5. CASE Clear
  <2>1. /\ cache' = <<>> /\ UNCHANGED <<globalStep, accesses>>
        /\ entries' \in [DOMAIN entries -> Entry]
        /\ \A y \in DOMAIN entries : entries'[y].last = LastUse(y)
    <3>1. entries' = [y \in DOMAIN entries |-> [entries[y] EXCEPT !.weights = NoBlob]]
      BY <1>5 DEF Clear
    <3>2. ASSUME NEW y \in DOMAIN entries
          PROVE  /\ [entries[y] EXCEPT !.weights = NoBlob] \in Entry
                 /\ [entries[y] EXCEPT !.weights = NoBlob].last = LastUse(y)
      <4>1. entries[y] \in Entry /\ entries[y].last = LastUse(y)
        BY DEF ProgressiveTypes, Stamped
      <4> QED BY <4>1 DEF Entry
    <3> HIDE DEF Entry
    <3> QED BY <1>5, <3>1, <3>2 DEF Clear
  <2>2. Stamped'
    BY <2>1, StampsStay DEF ProgressiveTypes
  <2> QED BY <2>1, <2>2 DEF ProgressiveTypes, CachedOnce
<1>6. CASE UNCHANGED progressiveVars
  BY <1>6 DEF progressiveVars, ProgressiveTypes, CachedOnce, Stamped, LastUse
<1> QED BY <1>1, <1>2, <1>3, <1>4, <1>5, <1>6 DEF ProgressiveNext

\* Every cached expert has an entry, once, and every stamp is that of its last use.
THEOREM ProgressiveInvariance == ProgressiveSpec => []ProgressiveInv
<1>1. ProgressiveInit => ProgressiveInv
  BY DEF ProgressiveInit, ProgressiveInv, ProgressiveTypes, CachedOnce, Stamped
<1> QED BY <1>1, ProgressiveStep, PTL DEF ProgressiveSpec

\* An expert that makes room for another was used no later than any that stays.
THEOREM OldestMakesRoom == ProgressiveSpec => EvictsLru
<1> DEFINE Makes == \A i \in DOMAIN cache :
             /\ ~(\E j \in DOMAIN cache' : cache'[j].key = cache[i].key)
             /\ \E j \in DOMAIN cache' : ~IsCached(cache'[j].key)
             => \A j \in DOMAIN cache : LastUse(cache[i].key) <= LastUse(cache[j].key)
<1>1. ASSUME ProgressiveInv, [ProgressiveNext]_progressiveVars, NEW i \in DOMAIN cache,
             ~(\E j \in DOMAIN cache' : cache'[j].key = cache[i].key),
             NEW new \in DOMAIN cache', ~IsCached(cache'[new].key)
      PROVE  \A j \in DOMAIN cache : LastUse(cache[i].key) <= LastUse(cache[j].key)
  <2>1. cache' # cache /\ cache' # <<>>
    BY <1>1 DEF IsCached
  <2>2. ASSUME NEW x \in ExpertKeys, Evict(x) PROVE FALSE
    BY <1>1, <2>2, OthersStay DEF Evict, IsCached
  <2>3. PICK x \in ExpertKeys, b \in Blobs : CacheWeights(x, b)
    BY <1>1, <2>1, <2>2 DEF ProgressiveNext, RecordAccess, GetTier, Clear, progressiveVars
  <2> DEFINE v == cache[Lru].key
             item == [key |-> x, blob |-> b]
  <2>4. cache \in Seq(Stored) /\ item \in Stored
    BY <1>1 DEF ProgressiveInv, ProgressiveTypes, Stored
  <2>5. ~IsCached(x)
    <3> SUFFICES ASSUME IsCached(x) PROVE FALSE
      OBVIOUS
    <3>1. cache' = [j \in DOMAIN cache |-> IF cache[j].key = x THEN item ELSE cache[j]]
      BY <2>3 DEF CacheWeights
    <3>2. i \in DOMAIN cache' /\ cache'[i].key = cache[i].key
      BY <3>1
    <3> QED BY <1>1, <3>2
  <2>6. cache' # Append(cache, item)
    <3> SUFFICES ASSUME cache' = Append(cache, item) PROVE FALSE
      OBVIOUS
    <3>1. i \in DOMAIN cache' /\ cache'[i] = cache[i]
      BY <2>4, AppendProperties
    <3> QED BY <1>1, <3>1
  <2>7. cache # <<>> /\ cache' = Append(Without(v), item)
    BY <2>3, <2>5, <2>6 DEF CacheWeights
  <2>8. IsCached(v)
    BY <1>1, <2>7, LruIsOldest DEF IsCached
  <2> HIDE DEF v, item
  <2>9. cache[i].key = v
    <3> SUFFICES ASSUME cache[i].key # v PROVE FALSE
      OBVIOUS
    <3>1. PICK j \in DOMAIN Without(v) : Without(v)[j] = cache[i]
      BY <1>1, <2>8, OthersStay
    <3>2. Without(v) \in Seq(Stored)
      BY <1>1, <2>8, OthersStay
    <3>3. j \in DOMAIN cache' /\ cache'[j] = cache[i]
      BY <2>4, <2>7, <3>1, <3>2, AppendProperties
    <3> QED BY <1>1, <3>3
  <2> QED BY <1>1, <2>7, <2>9, LruIsOldest DEF v
<1>2. ProgressiveInv /\ [ProgressiveNext]_progressiveVars => [Makes]_progressiveVars
  BY <1>1
<1> QED BY <1>2, ProgressiveInvariance, PTL DEF ProgressiveSpec, EvictsLru
=============================================================================
