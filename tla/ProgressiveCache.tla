-------------------------- MODULE ProgressiveCache --------------------------
(* The vLLM port's cache of decompressed experts (progressive_cache.py). An
   expert has an entry, with its tier and when it was used, from its first
   mention on; its decompressed weights may be in the cache besides, which has
   room for a few and drops the least recently used. A layer's forward records
   accesses; whoever decompresses stores the weights, at any time. The counts per
   layer predict_next_layer ranks its guesses by decide nothing here.           *)
EXTENDS Integers, Sequences, FiniteSets, SequencesExt

CONSTANTS ExpertKeys,   \* a layer and an expert of it
          MaxEntries,   \* max_gpu_entries
          Hot, Warm,    \* hot_threshold, warm_threshold
          Blobs,        \* decompressed weights
          MaxSteps      \* bound of the model: accesses

NoBlob == "none"

VARIABLES
  entries,     \* the entries there are
  cache,       \* _cache, in the order its keys came in
  globalStep,  \* _global_step
  accesses     \* history: the accesses
progressiveVars == <<entries, cache, globalStep, accesses>>

NewEntry == [tier |-> 2, visits |-> 0, last |-> 0, weights |-> NoBlob]
ProgressiveInit == /\ entries = [k \in {} |-> NewEntry] /\ cache = <<>>
                   /\ globalStep = 0 /\ accesses = <<>>

WithEntry(k) == IF k \in DOMAIN entries THEN entries
                ELSE [x \in DOMAIN entries \cup {k} |->
                        IF x = k THEN NewEntry ELSE entries[x]]
IsCached(k) == \E i \in DOMAIN cache : cache[i].key = k
Without(k) == RemoveAt(cache, CHOOSE i \in DOMAIN cache : cache[i].key = k)

TierOf(n) == IF n >= Hot THEN 0 ELSE IF n >= Warm THEN 1 ELSE 2

RecordAccess(k) ==
  /\ globalStep < MaxSteps
  /\ entries' = [WithEntry(k) EXCEPT
       ![k].visits = @ + 1, ![k].last = globalStep,
       ![k].tier = TierOf(WithEntry(k)[k].visits + 1)]
  /\ globalStep' = globalStep + 1 /\ accesses' = Append(accesses, k)
  /\ UNCHANGED cache

\* get_tier makes an entry, too
GetTier(k) == entries' = WithEntry(k) /\ UNCHANGED <<cache, globalStep, accesses>>

DemotedBy(t) == IF t < 2 THEN t + 1 ELSE t
Evicted(es, k) == [es EXCEPT ![k].weights = NoBlob, ![k].tier = DemotedBy(@)]
Evict(k) ==
  /\ IsCached(k)
  /\ cache' = Without(k) /\ entries' = Evicted(entries, k)
  /\ UNCHANGED <<globalStep, accesses>>

\* min(): the first of those with the lowest step, in the order of the cache
Stamp(i) == entries[cache[i].key].last
OldestCached == 1   \* a bug: the one that came in first
Lru == CHOOSE i \in DOMAIN cache :
         \A j \in DOMAIN cache : Stamp(i) < Stamp(j) \/ (Stamp(i) = Stamp(j) /\ i <= j)

CacheFull == Len(cache) >= MaxEntries
CacheWeights(k, b) ==
  LET es == WithEntry(k)
      Stored(e) == [e EXCEPT ![k].weights = b]
      item == [key |-> k, blob |-> b]
  IN /\ IF IsCached(k)
          THEN /\ cache' = [i \in DOMAIN cache |-> IF cache[i].key = k THEN item ELSE cache[i]]
               /\ entries' = Stored(es)
        ELSE IF CacheFull /\ cache # <<>>
          THEN LET v == cache[Lru].key IN
               /\ cache' = Append(Without(v), item)
               /\ entries' = Stored(Evicted(es, v))
          ELSE cache' = Append(cache, item) /\ entries' = Stored(es)
     /\ UNCHANGED <<globalStep, accesses>>

Clear == /\ cache # <<>> /\ cache' = <<>>
         /\ entries' = [k \in DOMAIN entries |-> [entries[k] EXCEPT !.weights = NoBlob]]
         /\ UNCHANGED <<globalStep, accesses>>

ProgressiveNext ==
  \/ \E k \in ExpertKeys : RecordAccess(k) \/ GetTier(k) \/ Evict(k)
  \/ \E k \in ExpertKeys, b \in Blobs : CacheWeights(k, b)
  \/ Clear
ProgressiveSpec == ProgressiveInit /\ [][ProgressiveNext]_progressiveVars
-----------------------------------------------------------------------------
\* The number of the last access, counted from 0; an expert never used counts as
\* used at 0, as the first one used does.
LastUse(k) == LET at == {i \in DOMAIN accesses : accesses[i] = k} IN
              IF at = {} THEN 0 ELSE Max({i - 1 : i \in at})

\* An expert that makes room for another was used no later than any that stays,
\* whatever was stored, evicted or stored again in between.
EvictsLru == [][\A i \in DOMAIN cache :
                  /\ ~(\E j \in DOMAIN cache' : cache'[j].key = cache[i].key)
                  /\ \E j \in DOMAIN cache' : ~IsCached(cache'[j].key)
                  => \A j \in DOMAIN cache : LastUse(cache[i].key) <= LastUse(cache[j].key)
                ]_progressiveVars
=============================================================================
