------------------------------ MODULE MCParts ------------------------------
\* The parts of the system that share no state with one another, for TLC: a behaviour
\* is one of one of them, chosen at the start; the others stand still.
EXTENDS OffloadStore, BitPlanes, EngineThreads, DenseHooks, ExpertRouting, CachePlanning,
        LlamaCache, ProgressiveCache, VllmMethod, VllmPatch, TLC

CONSTANT Running   \* the parts that may be chosen

VARIABLE part
-----------------------------------------------------------------------------
\* Two tensors, of which one has all bits of its indices vary.
MCWeights == {[p \in 0..15 |-> ((37 * p) + 91) % 256], [p \in 0..15 |-> 255 - (17 * p)]}

\* Three leaf modules in two stages, one with two tensors.
MCTensorsOf == ("a" :> <<"a1">>) @@ ("b" :> <<"b1", "b2">>) @@ ("c" :> <<"c1">>)
MCLayerOf == ("a" :> 0) @@ ("b" :> 1) @@ ("c" :> 1)
MCWeightsAt == ("a1" :> "wa1") @@ ("b1" :> "wb1") @@ ("b2" :> "wb2") @@ ("c1" :> "wc1")

\* Scores with ties, with zeros, and with the best expert in any place.
Four(a, b, c, d) == (0 :> a) @@ (1 :> b) @@ (2 :> c) @@ (3 :> d)
MCScores == {Four(2, 1, 1, 5), Four(3, 1, 2, 0), Four(0, 2, 3, 3), Four(2, 5, 0, 4),
             Four(0, 0, 0, 7)}

\* Three prompts, the last of which is left out of a batch of two; and one alone.
MCTraces == {<< <<c>>, <<d>>, << <<0, 0, 9, 0>> >> >> :
               c \in {<<4, 0, 0, 0>>, <<1, 2, 3, 4>>, <<0, 0, 0, 0>>, <<9, 1, 1, 0>>},
               d \in {<<0, 0, 0, 3>>, <<2, 2, 2, 2>>, <<0, 0, 0, 0>>, <<7, 0, 1, 0>>}}
            \cup {<< << <<1, 1, 1, 1>> >> >>}
MCWeightLists == {<<5, 3, 2, 1>>, <<2, 2, 1, 1>>, <<9, 1, 1, 1>>, <<3, 2, 0, 0>>}
-----------------------------------------------------------------------------
\* A part that does not run has one initial state only.
MCInit ==
  /\ part \in Running
  /\ Init /\ PlanesInit /\ ThreadsInit /\ HooksInit /\ ProgressiveInit
  /\ RoutingInit /\ PlanningInit /\ LlamaInit
  /\ MethodInit /\ PatchInit
  /\ part # "planes" => tier = 0 /\ w[0] = 255
  /\ part # "routing" => kind = "greedy" /\ factor = 1 /\ \A t \in {0, 1} : score[t][3] = 7
  /\ part # "planning" => memory = 25 /\ Len(trace) = 1
  /\ part # "method" => path = "none"
  /\ part # "patch" => saves

StoreStep == part = "store" /\ Next
  /\ UNCHANGED <<part, planesVars, threadsVars, hooksVars, progressiveVars, routingVars,
                 planningVars, llamaVars, methodVars, patchVars>>
PlanesStep == part = "planes" /\ PlanesNext
  /\ UNCHANGED <<part, vars, threadsVars, hooksVars, progressiveVars, routingVars,
                 planningVars, llamaVars, methodVars, patchVars>>
ThreadsStep == part = "threads" /\ ThreadsNext
  /\ UNCHANGED <<part, vars, planesVars, hooksVars, progressiveVars, routingVars,
                 planningVars, llamaVars, methodVars, patchVars>>
HooksStep == part = "hooks" /\ HooksNext
  /\ UNCHANGED <<part, vars, planesVars, threadsVars, progressiveVars, routingVars,
                 planningVars, llamaVars, methodVars, patchVars>>
CacheStep == part = "cache" /\ ProgressiveNext
  /\ UNCHANGED <<part, vars, planesVars, threadsVars, hooksVars, routingVars,
                 planningVars, llamaVars, methodVars, patchVars>>
RoutingStep == part = "routing" /\ RoutingNext
  /\ UNCHANGED <<part, vars, planesVars, threadsVars, hooksVars, progressiveVars,
                 planningVars, llamaVars, methodVars, patchVars>>
PlanningStep == part = "planning" /\ PlanningNext
  /\ UNCHANGED <<part, vars, planesVars, threadsVars, hooksVars, progressiveVars,
                 routingVars, llamaVars, methodVars, patchVars>>
LlamaStep == part = "llama" /\ LlamaNext
  /\ UNCHANGED <<part, vars, planesVars, threadsVars, hooksVars, progressiveVars,
                 routingVars, planningVars, methodVars, patchVars>>
MethodStep == part = "method" /\ MethodNext
  /\ UNCHANGED <<part, vars, planesVars, threadsVars, hooksVars, progressiveVars,
                 routingVars, planningVars, llamaVars, patchVars>>
PatchStep == part = "patch" /\ PatchNext
  /\ UNCHANGED <<part, vars, planesVars, threadsVars, hooksVars, progressiveVars,
                 routingVars, planningVars, llamaVars, methodVars>>
MCNext == \/ StoreStep \/ PlanesStep \/ ThreadsStep \/ HooksStep \/ CacheStep
          \/ RoutingStep \/ PlanningStep \/ LlamaStep \/ MethodStep \/ PatchStep

allVars == <<part, vars, planesVars, threadsVars, hooksVars, progressiveVars, routingVars,
             planningVars, llamaVars, methodVars, patchVars>>
PartsSpec == MCInit /\ [][MCNext]_allVars

\* EngineThreads' fairness, for the behaviours that are of its threads.
Fairness ==
  /\ WF_threadsVars(part = "threads" /\ main # "run" /\ Main)
  /\ WF_threadsVars(part = "threads" /\ Gpu)
  /\ \A x \in Workers : WF_threadsVars(part = "threads" /\ Worker(x))
  /\ \A t \in {"fetch", "exec", "output"} :
       WF_threadsVars(part = "threads" /\ Dispatcher(t))
FairPartsSpec == PartsSpec /\ Fairness
=============================================================================
