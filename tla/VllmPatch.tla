----------------------------- MODULE VllmPatch ------------------------------
(* The patching of vLLM's sparse layer class (patcher.py). Each patch derives a class
   from the one there is, so that a layer built after two patches goes through two
   wrappers; both keep their state in the same attributes of the layer. A wrapper
   quantises the experts once and for each call swaps in the decoded weights.    *)
EXTENDS Integers, Sequences, FiniteSets, SequencesExt

CONSTANTS MoeLayers,
          MaxDepth   \* bound of the model: patches on top of each other

NoLayer == "none"
NoClass == -1

VARIABLES
  saves,    \* whether the config has a lut_path
  cls,      \* mod.DeepseekV2MoE: the number of wrappers around vLLM's class
  original, \* mod._original_DeepseekV2MoE, or NoClass
  class,    \* the class each layer was built with
  reach,    \* under which name quantize_experts finds the layer's experts, if any
  fused,    \* the data of its w13_weight and w2_weight
  codes,    \* what _w13_indices and _w2_indices encode, with _codebook
  decoded,  \* _decompressed_cache
  codebook, \* layer whose codebook is saved in the lut_path
  run,      \* the layer that runs, the wrappers still to enter, what those entered
            \* have saved, and (history) whether one went on without
  results   \* history: the weights the fused kernel ran with, and whether a wrapper
            \* had gone on without
patchVars == <<saves, cls, original, class, reach, fused, codes, decoded, codebook, run, results>>

Idle == [layer |-> NoLayer, level |-> 0, saved |-> <<>>, phase |-> "idle",
         skipped |-> FALSE]
OwnWeights(l) == <<l>>           \* as the checkpoint has them
Coded(data, b) == <<data, b>>    \* encoded and decoded with the codebook of layer b
NotCoded == <<>>

PatchInit == /\ saves \in BOOLEAN /\ cls = 0 /\ original = NoClass
             /\ class = [l \in MoeLayers |-> NoClass] /\ reach = [l \in MoeLayers |-> NoLayer]
             /\ fused = [l \in MoeLayers |-> OwnWeights(l)]
             /\ codes = [l \in MoeLayers |-> NotCoded] /\ decoded = [l \in MoeLayers |-> NotCoded]
             /\ codebook = NoLayer /\ run = Idle /\ results = [l \in MoeLayers |-> {}]
-----------------------------------------------------------------------------
\* patch_deepseek_v2: the class there was is saved by the first patch only.
SavedAlways == cls   \* a bug: by each
Saved == IF original = NoClass THEN cls ELSE original
PatchModel ==
  /\ run = Idle /\ cls < MaxDepth
  /\ original' = Saved /\ cls' = cls + 1
  /\ UNCHANGED <<saves, class, reach, fused, codes, decoded, codebook, run, results>>

RestoreModel ==
  /\ run = Idle /\ original # NoClass
  /\ cls' = original /\ original' = NoClass
  /\ UNCHANGED <<saves, class, reach, fused, codes, decoded, codebook, run, results>>

\* vLLM builds a layer with the class it finds.
Construct(l) ==
  /\ run = Idle /\ class[l] = NoClass
  /\ class' = [class EXCEPT ![l] = cls]
  /\ \E r \in {"routed", "modular", NoLayer} : reach' = [reach EXCEPT ![l] = r]
  /\ UNCHANGED <<saves, cls, original, fused, codes, decoded, codebook, run, results>>
-----------------------------------------------------------------------------
\* A call of a layer enters its wrappers from the outermost in.
EnterLayer(l) ==
  /\ run = Idle /\ class[l] # NoClass
  /\ run' = [Idle EXCEPT !.layer = l, !.level = class[l], !.phase = "enter"]
  /\ UNCHANGED <<saves, cls, original, class, reach, fused, codes, decoded, codebook, results>>

Entering == run.phase = "enter" /\ run.level > 0
Quantized == codes[run.layer] # NotCoded

\* quantize_experts: the codebook is the one in the lut_path or is trained on this
\* layer and, if there is a lut_path, saved; what follows may fail.
QuantizeExperts ==
  /\ Entering /\ ~Quantized /\ reach[run.layer] # NoLayer
  /\ LET l == run.layer
         book == IF saves /\ codebook # NoLayer THEN codebook ELSE l IN
     /\ codebook' = IF saves THEN book ELSE codebook
     /\ \/ /\ codes' = [codes EXCEPT ![l] = Coded(fused[l], book)]
           /\ decoded' = [decoded EXCEPT ![l] = NotCoded]
           /\ UNCHANGED run
        \/ run' = [run EXCEPT !.phase = "leave"] /\ UNCHANGED <<codes, decoded>>
  /\ UNCHANGED <<saves, cls, original, class, reach, fused, results>>

\* The weights are swapped where they are routed_experts'; the wrapper inside is next.
SwapIn ==
  /\ Entering /\ Quantized /\ reach[run.layer] = "routed"
  /\ LET l == run.layer
         data == IF decoded[l] = NotCoded THEN codes[l] ELSE decoded[l] IN
     /\ decoded' = [decoded EXCEPT ![l] = data]
     /\ fused' = [fused EXCEPT ![l] = data]
     /\ run' = [run EXCEPT !.level = @ - 1, !.saved = Append(@, fused[l])]
  /\ UNCHANGED <<saves, cls, original, class, reach, codes, codebook, results>>

\* Where they are not, or where there was nothing to quantise, the wrapper goes on with
\* what is there. So it does, without a word, when it cannot clone the weights.
GoOn ==
  /\ Entering /\ (Quantized \/ reach[run.layer] = NoLayer)
  /\ run' = [run EXCEPT !.level = @ - 1, !.skipped = @ \/ reach[run.layer] = "routed"]
  /\ UNCHANGED <<saves, cls, original, class, reach, fused, codes, decoded, codebook, results>>

\* Encoding, decoding and the layer itself may raise; all lead back through the wrappers.
Raise ==
  /\ Entering /\ reach[run.layer] # NoLayer /\ run' = [run EXCEPT !.phase = "leave"]
  /\ UNCHANGED <<saves, cls, original, class, reach, fused, codes, decoded, codebook, results>>
Compute ==
  /\ run.phase = "enter" /\ run.level = 0
  /\ results' = [results EXCEPT ![run.layer] = @ \cup
                  {[data |-> fused[run.layer], skipped |-> run.skipped]}]
  /\ run' = [run EXCEPT !.phase = "leave"]
  /\ UNCHANGED <<saves, cls, original, class, reach, fused, codes, decoded, codebook>>

\* finally: what the wrapper saved is put back.
PutBack ==
  /\ run.phase = "leave"
  /\ IF run.saved = <<>> THEN run' = Idle /\ UNCHANGED fused
       ELSE /\ fused' = [fused EXCEPT ![run.layer] = Last(run.saved)]
            /\ run' = [run EXCEPT !.saved = Front(@)]
  /\ UNCHANGED <<saves, cls, original, class, reach, codes, decoded, codebook, results>>

PatchNext == \/ PatchModel \/ RestoreModel
             \/ \E l \in MoeLayers : Construct(l) \/ EnterLayer(l)
             \/ QuantizeExperts \/ SwapIn \/ GoOn \/ Raise \/ Compute \/ PutBack
PatchSpec == PatchInit /\ [][PatchNext]_patchVars
-----------------------------------------------------------------------------
\* However often the class was patched, and whatever raised: between calls each layer
\* has its own weights again; all its calls run with the same weights, its own or
\* those encoded once, save that one in which a clone failed may run with its own; and
\* after a restore the class is vLLM's.
PatchesUndone ==
  /\ run = Idle => \A l \in MoeLayers : fused[l] = OwnWeights(l)
  /\ \A l \in MoeLayers :
       \E data \in {OwnWeights(l)} \cup {Coded(OwnWeights(l), b) : b \in MoeLayers} :
         \A r \in results[l] : r.data = data \/ (r.skipped /\ r.data = OwnWeights(l))
  /\ original = NoClass => cls = 0
=============================================================================
