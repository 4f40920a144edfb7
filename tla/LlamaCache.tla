----------------------------- MODULE LlamaCache -----------------------------
(* The llama.cpp port's expert cache (ExpertCacheManager) and the code that calls it
   for each sparse layer, ggml_cuda_mul_mat_id. The host goes through its calls one
   after the other; what they enqueue runs later, in order on each of two CUDA
   streams. All loads go through one pinned buffer, which the host refills while
   copies out of it may still be queued.                                       *)
EXTENDS Integers, Sequences, FiniteSets, Functions

CONSTANTS NumLayers, NumExperts, NumSlots,
          HotAt, WarmAt,  \* visits that earn tiers 0 and 1
          MaxUsed,        \* experts a layer uses at most
          MaxCalls        \* bound of the model

Layers == 0..(NumLayers - 1)
Experts == 0..(NumExperts - 1)
Keys == Layers \X Experts
Slots == 0..(NumSlots - 1)
NoKey == <<-1, -1>>
Streams == {"compute", "prefetch"}

ASSUME LlamaAssumption ==
  /\ NumLayers \in Nat /\ NumExperts \in Nat /\ NumSlots \in Nat \ {0}
  /\ HotAt \in Nat /\ WarmAt \in Nat /\ MaxUsed \in Nat /\ MaxCalls \in Nat

VARIABLES
  slot,    \* slots_: key, tier, visits, load_pending and the stream of load_event
  comp,    \* gpu_compressed of each slot: whose bytes, and for whom they were loaded
  weights, \* gpu_weights of each slot, likewise
  pinned,  \* whose bytes are in pinned_buf_
  queue,   \* what each stream has still to do
  hostTodo, \* what the host has still to do for this layer
  calls,
  wrong    \* history: what a product did not find: the "load" for its expert, or
           \* that expert's "bytes"
llamaVars == <<slot, comp, weights, pinned, queue, hostTodo, calls, wrong>>

Empty == [key |-> NoKey, tier |-> 2, visits |-> 0, pending |-> FALSE, stream |-> "compute"]
NoLoad == [bytes |-> NoKey, for |-> NoKey]
LlamaInit == /\ slot = [i \in Slots |-> Empty]
             /\ comp = [i \in Slots |-> NoLoad] /\ weights = [i \in Slots |-> NoLoad]
             /\ pinned = NoKey /\ queue = [s \in Streams |-> <<>>] /\ hostTodo = <<>>
             /\ calls = 0 /\ wrong = {}
-----------------------------------------------------------------------------
\* The streams. A copy takes what is in the pinned buffer when it runs.
Task(op, i, key) == [op |-> op, slot |-> i, key |-> key]
Run(s) ==
  /\ queue[s] # <<>> /\ queue' = [queue EXCEPT ![s] = Tail(@)]
  /\ LET x == Head(queue[s])  found == weights[x.slot] IN
     /\ comp' = IF x.op = "copy"
                  THEN [comp EXCEPT ![x.slot] = [bytes |-> pinned, for |-> x.key]] ELSE comp
     /\ weights' = IF x.op = "decode" THEN [weights EXCEPT ![x.slot] = comp[x.slot]]
                     ELSE weights
     /\ wrong' = IF x.op # "multiply" THEN wrong
                 ELSE wrong \cup (IF found.for # x.key THEN {"load"} ELSE {})
                            \cup (IF found.bytes # x.key THEN {"bytes"} ELSE {})
  /\ UNCHANGED <<slot, pinned, hostTodo, calls>>

\* cudaEventSynchronize(load_event): the load it follows has run. A bug: the event is
\* not waited for.
WaitedNever(i) == TRUE
Waited(i) ==
  slot[i].pending => \A x \in Range(queue[slot[i].stream]) : x.op = "decode" => x.slot # i

\* pread, then what is enqueued: copy, decode and what follows.
Load(i, key, s, after) ==
  /\ pinned' = key
  /\ queue' = [queue EXCEPT ![s] = @ \o <<Task("copy", i, key), Task("decode", i, key)>>
                                     \o after]
-----------------------------------------------------------------------------
\* find_or_evict_slot: a free slot, or turns through the slots from the one with the
\* fewest visits on. A slot it comes to is demoted or, if cold already, taken.
Lowest(S) == CHOOSE i \in S : \A j \in S : i <= j
Free == {i \in Slots : slot[i].key = NoKey}
Lfu == Lowest({i \in Slots : \A j \in Slots : slot[i].visits <= slot[j].visits})
Ahead(i) == (i - Lfu + NumSlots) % NumSlots
Turn(i, round) == (round * NumSlots) + Ahead(i)
TakenAt(i) == Turn(i, 2 - slot[i].tier)
Victim == CHOOSE i \in Slots : \A j \in Slots : TakenAt(i) <= TakenAt(j)
Demotions(i) == Cardinality({r \in 0..2 : Turn(i, r) < TakenAt(Victim)})
Taken == IF Free # {} THEN Lowest(Free) ELSE Victim
Visited == IF Free # {} THEN {} ELSE {i \in Slots : i = Victim \/ Demotions(i) > 0}

\* The slots with key in the one that was taken; the turns waited for pending loads.
Filled(key, visits, pending, s) ==
  [i \in Slots |->
     IF i = Taken THEN [key |-> key, tier |-> 2, visits |-> visits, pending |-> pending,
                        stream |-> s]
     ELSE IF i \in Visited THEN [slot[i] EXCEPT !.pending = FALSE, !.tier = @ + Demotions(i)]
     ELSE slot[i]]
Find(key) == {i \in Slots : slot[i].key = key}

Does(op) == hostTodo # <<>> /\ Head(hostTodo).op = op /\ hostTodo' = Tail(hostTodo)
\* prefetch_expert
Prefetch ==
  /\ Does("prefetch")
  /\ LET key == Head(hostTodo).key  s == Head(hostTodo).stream IN
     IF Find(key) # {} THEN UNCHANGED <<slot, pinned, queue>>
     ELSE /\ \A i \in Visited : Waited(i)
          /\ slot' = Filled(key, 0, TRUE, s) /\ Load(Taken, key, s, <<>>)
  /\ UNCHANGED <<comp, weights, calls, wrong>>

\* get_expert_weights, and the product with what it returns. A hit waits for a load
\* that is pending; one that earns a better tier loads again (upgrade_slot).
TierFor(t, visits) == IF t > 0 /\ visits >= HotAt THEN 0
                      ELSE IF t > 1 /\ visits >= WarmAt THEN 1 ELSE t
Product(i, key) == <<Task("multiply", i, key)>>
Hit ==
  /\ Does("use")
  /\ LET key == Head(hostTodo).key IN \E i \in Find(key) :
       LET t == TierFor(slot[i].tier, slot[i].visits + 1) IN
       /\ Waited(i)
       /\ slot' = [slot EXCEPT ![i].visits = @ + 1, ![i].pending = FALSE, ![i].tier = t]
       /\ IF t < slot[i].tier THEN Load(i, key, "compute", Product(i, key))
            ELSE /\ queue' = [queue EXCEPT !["compute"] = @ \o Product(i, key)]
                 /\ UNCHANGED pinned
  /\ UNCHANGED <<comp, weights, calls, wrong>>
Miss ==
  /\ Does("use")
  /\ LET key == Head(hostTodo).key IN
     /\ Find(key) = {} /\ \A i \in Visited : Waited(i)
     /\ slot' = Filled(key, 1, FALSE, "compute")
     /\ Load(Taken, key, "compute", Product(Taken, key))
  /\ UNCHANGED <<comp, weights, calls, wrong>>

ClearAll ==
  /\ hostTodo = <<>> /\ \E i \in Slots : slot[i].key # NoKey
  /\ \A i \in Slots : Waited(i)
  /\ slot' = [i \in Slots |-> [Empty EXCEPT !.stream = slot[i].stream]]
  /\ UNCHANGED <<comp, weights, pinned, queue, hostTodo, calls, wrong>>
-----------------------------------------------------------------------------
\* ggml_cuda_mul_mat_id for the experts order of a layer: the ids are copied back,
\* which empties the compute stream. Then the next layer's and these are prefetched
\* on the other stream, these again on this one, which is then emptied again, and
\* each is fetched and multiplied, in the order of their ids.
Prefetches(l, order, s) ==
  [j \in DOMAIN order |-> [op |-> "prefetch", key |-> <<l, order[j]>>, stream |-> s]]
NextLayer(l, order) == IF l + 1 < NumLayers THEN Prefetches(l + 1, order, "prefetch") ELSE <<>>
Uses(l, S) == [j \in 1..NumExperts |->
                 [op |-> IF j - 1 \in S THEN "use" ELSE "skip", key |-> <<l, j - 1>>]]
MulMatId(l, order) ==
  /\ hostTodo = <<>> /\ calls < MaxCalls /\ calls' = calls + 1
  /\ queue["compute"] = <<>>
  /\ hostTodo' = NextLayer(l, order) \o Prefetches(l, order, "prefetch")
               \o Prefetches(l, order, "compute") \o <<[op |-> "sync"]>>
               \o Uses(l, Range(order))
  /\ UNCHANGED <<slot, comp, weights, pinned, queue, wrong>>
Synchronize ==
  /\ Does("sync") /\ queue["compute"] = <<>>
  /\ UNCHANGED <<slot, comp, weights, pinned, queue, calls, wrong>>
\* An expert no token was sent to.
Skip == Does("skip") /\ UNCHANGED <<slot, comp, weights, pinned, queue, calls, wrong>>

Orders == {o \in UNION {[1..n -> Experts] : n \in 1..MaxUsed} : IsInjective(o)}
LlamaNext == \/ \E s \in Streams : Run(s)
             \/ \E l \in Layers, o \in Orders : MulMatId(l, o)
             \/ Prefetch \/ Synchronize \/ Hit \/ Miss \/ Skip \/ ClearAll
LlamaSpec == LlamaInit /\ [][LlamaNext]_llamaVars
-----------------------------------------------------------------------------
\* A product finds in its slot what was last loaded for its expert: neither a load on
\* the other stream that is still on its way nor one for another expert, whatever
\* was evicted, prefetched or loaded again in between.
MultipliesItsLoad == "load" \notin wrong

\* llama-io.h:94-96, "Get a pointer to decompressed bf16 weights for this expert":
\* what a product finds was made of its own expert's bytes.
MultipliesOwnWeights == "bytes" \notin wrong
=============================================================================
