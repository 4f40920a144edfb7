----------------------------- MODULE VllmMethod -----------------------------
(* The vLLM quantisation method of a converted checkpoint (quant_method.py): each
   sparse layer has a method object of its own, which fills in what the checkpoint's
   tensors do not hold and computes the layer's experts. The list of experts to go
   through is kept in the class, for all layers, under the address of the router's
   ids; the ids themselves are not kept, so that a later object may lie there.   *)
EXTENDS Integers, Sequences, FiniteSets, SequencesExt

CONSTANTS NumSparse, RoutedExperts,
          K,          \* experts a token is sent to
          Sizes,      \* numbers of tokens
          Addresses,  \* where the router's ids may lie
          MaxApplies  \* bound of the model

ASSUME MethodAssumption == NumSparse \in Nat \ {0} /\ 0 \notin Addresses

SparseLayers == 1..NumSparse
Batches == UNION {[1..n -> {S \in SUBSET RoutedExperts : Cardinality(S) = K}] : n \in Sizes}

VARIABLES
  path,     \* lut_path: "none", or a directory with codebooks, or with "absmax", too
  made,     \* layers whose method and parameters exist
  moeIdx,   \* _pw_moe_idx of each layer's method
  loaded,   \* layers with _lut_codebook_loaded
  book,     \* layers whose _codebook was filled in
  scales,   \* layer whose values a layer's w13_absmax and w2_absmax hold; 0: nobody's
  cached,   \* _cached
  applies   \* history: the calls of apply, and the experts they added up
methodVars == <<path, made, moeIdx, loaded, book, scales, cached, applies>>

MethodInit == /\ path \in {"none", "codebooks", "absmax"}
              /\ made = 0 /\ moeIdx = [l \in SparseLayers |-> 0] /\ loaded = {} /\ book = {}
              /\ scales = [l \in SparseLayers |-> 0]
              /\ cached = [ptr |-> 0, list |-> {}] /\ applies = <<>>

\* get_quant_method, a new method for each layer, and its create_weights
GetQuantMethod ==
  /\ made < NumSparse /\ made' = made + 1
  /\ UNCHANGED <<path, moeIdx, loaded, book, scales, cached, applies>>

\* The layers in the file, counted round by the method's own counter.
LayerId(i) == (i % NumSparse) + 1
ProcessWeightsAfterLoading(l) ==
  /\ made = NumSparse /\ l \notin loaded
  /\ loaded' = loaded \cup {l}
  /\ book' = IF path = "none" THEN book ELSE book \cup {l}
  /\ IF path = "absmax"
       THEN /\ scales' = [scales EXCEPT ![l] = LayerId(moeIdx[l])]
            /\ moeIdx' = [moeIdx EXCEPT ![l] = @ + 1]
       ELSE UNCHANGED <<scales, moeIdx>>
  /\ UNCHANGED <<path, made, cached, applies>>

\* torch.unique, unless the list there is was made for ids at this address
ListedOnce(at, ids) ==   \* a bug: any list there is
  IF cached.ptr # 0 THEN cached ELSE [ptr |-> at, list |-> UNION Range(ids)]
Listed(at, ids) ==
  IF cached.ptr = at THEN cached ELSE [ptr |-> at, list |-> UNION Range(ids)]

\* A token gets the results of those of its experts that are gone through.
Apply(l, at, ids) ==
  /\ loaded = SparseLayers /\ Len(applies) < MaxApplies
  /\ cached' = Listed(at, ids)
  /\ applies' = Append(applies, [layer |-> l, at |-> at, ids |-> ids,
                               sum |-> [t \in DOMAIN ids |-> ids[t] \cap cached'.list]])
  /\ UNCHANGED <<path, made, moeIdx, loaded, book, scales>>

LayerInTurn == IF applies = <<>> THEN 1 ELSE (Last(applies).layer % NumSparse) + 1
MethodNext == \/ GetQuantMethod
              \/ \E l \in SparseLayers : ProcessWeightsAfterLoading(l)
              \/ \E at \in Addresses, ids \in Batches : Apply(LayerInTurn, at, ids)
MethodSpec == MethodInit /\ [][MethodNext]_methodVars
-----------------------------------------------------------------------------
\* A token misses an expert it was sent to only in a layer whose ids lie where the
\* ids of the layer before did.
MissesOnlyReused ==
  \A i \in DOMAIN applies :
    applies[i].sum = applies[i].ids \/ (i > 1 /\ applies[i].at = applies[i - 1].at)

\* program.md:379, "load the absmax values of each block of each expert from the npz
\* file": a layer has its own.
OwnScales == path = "absmax" => \A l \in loaded : scales[l] = l
=============================================================================
