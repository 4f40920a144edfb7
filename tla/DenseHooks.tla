----------------------------- MODULE DenseHooks ----------------------------
(* The tensors outside the experts. A hook before a module's forward swaps a
   tensor's placeholder for its weights, one after it puts a placeholder back.
   Both identify a tensor by its data pointer, which they change: the hooks in a
   set, the engine in a map. The engine keeps a node's mutex from the first tensor
   of it that is acquired to the last that is released, or to the first release
   in another layer.

   Every dense node is on the GPU from the start (InitializeTopology), so the task
   pool answers at once; no code calls the prefetch path of this pool. All of it
   runs on the thread that generates, one at a time. A module's forward may raise,
   and the caller go on with another pass.                                                         *)
EXTENDS Integers, Sequences, FiniteSets, Functions

CONSTANTS Leaves,     \* modules with parameters of their own
          TensorsOf,  \* the tensors of each, in named_parameters' order
          LayerOf,    \* the stage, and so the one dense node, each leaf belongs to
          WeightsAt,  \* where in the dense pool each tensor's weights are
          Heap,       \* addresses placeholders are allocated at
          MaxPasses   \* bound of the model

DenseTensors == UNION {{TensorsOf[m][k] : k \in DOMAIN TensorsOf[m]} : m \in Leaves}
Nodes == {LayerOf[m] : m \in Leaves}
NodeOf(t) == LayerOf[CHOOSE m \in Leaves : \E k \in DOMAIN TensorsOf[m] :
                                             TensorsOf[m][k] = t]
NodeTensors(n) == {t \in DenseTensors : NodeOf(t) = n}
NoNode == -1

\* A tensor belongs to one module, named once; the weights are outside the heap, each
\* tensor's at a place of its own, and the heap has room for every placeholder.
ASSUME HooksAssumption ==
  /\ \A m \in Leaves : TensorsOf[m] \in Seq(DenseTensors) /\ TensorsOf[m] # <<>>
  /\ \A m, o \in Leaves : \A i \in DOMAIN TensorsOf[m], j \in DOMAIN TensorsOf[o] :
       TensorsOf[m][i] = TensorsOf[o][j] => m = o /\ i = j
  /\ LayerOf \in [Leaves -> Nat]
  /\ DOMAIN WeightsAt = DenseTensors /\ IsInjective(WeightsAt)
  /\ Range(WeightsAt) \cap Heap = {}
  /\ \E f \in [DenseTensors -> Heap] : IsInjective(f)

VARIABLES
  ptr,      \* param.data.data_ptr()
  offload,  \* offload_set
  idAt,     \* tensor_to_id_
  toRelease,  \* node_id_to_tensor_ids_
  heldNodes,  \* nodes whose mutex this thread holds
  inExec,   \* exec_queue_
  lastNode, lastLayer,
  leaf, k, phase,  \* the module being called, the tensor its hook is at, which hook
  layer,    \* the layer this pass has come to
  fault,    \* "none", or what went wrong in the engine
  passes
engine == <<ptr, offload, idAt, toRelease, heldNodes, inExec, lastNode, lastLayer, fault>>
hooksVars == <<engine, leaf, k, phase, layer, passes>>

HooksInit ==
  /\ ptr = CHOOSE f \in [DenseTensors -> Heap] : IsInjective(f)
  /\ offload = Range(ptr) /\ idAt = AntiFunction(ptr)
  /\ toRelease = [n \in Nodes |-> {}] /\ heldNodes = {} /\ inExec = {}
  /\ lastNode = NoNode /\ lastLayer = 0
  /\ leaf \in {m \in Leaves : LayerOf[m] = 0} /\ k = 1 /\ phase = "pre"
  /\ layer = 0 /\ fault = "none" /\ passes = 1

\* UpdateTensorMap: the entry moves; one that is there already is not overwritten.
MovedKept(old, new) ==   \* a bug: the old entry stays
  [a \in DOMAIN idAt \cup {new} |-> IF a \in DOMAIN idAt THEN idAt[a] ELSE idAt[old]]
Moved(old, new) ==
  LET others == DOMAIN idAt \ {old}
  IN [a \in others \cup {new} |-> IF a \in others THEN idAt[a] ELSE idAt[old]]

\* StartExec with its lock, StopExec with its unlock.
Locks(n) == /\ heldNodes' = heldNodes \cup {n} /\ inExec' = inExec \cup {n}
            /\ fault' = IF n \in heldNodes THEN "locks twice" ELSE fault
Acquire(n) ==
  IF toRelease[n] = {} THEN toRelease' = [toRelease EXCEPT ![n] = NodeTensors(n)] /\ Locks(n)
                       ELSE UNCHANGED <<toRelease, heldNodes, inExec, fault>>

\* begin: AcquireTensor, then the weights take the placeholder's place.
Begin(t) ==
  IF ptr[t] \notin offload THEN UNCHANGED engine
  ELSE IF ptr[t] \notin DOMAIN idAt
    THEN fault' = "unknown tensor" /\ UNCHANGED <<ptr, offload, idAt, toRelease,
                                            heldNodes, inExec, lastNode, lastLayer>>
  ELSE /\ Acquire(NodeOf(idAt[ptr[t]]))
       /\ ptr' = [ptr EXCEPT ![t] = WeightsAt[idAt[ptr[t]]]]
       /\ idAt' = Moved(ptr[t], ptr'[t])
       /\ offload' = (offload \ {ptr[t]}) \cup {ptr'[t]}
       /\ UNCHANGED <<lastNode, lastLayer>>

\* end: ReleaseTensor. A release in another layer first lets go of what the last
\* node still has to release.
Forced(n) == n # lastLayer /\ lastNode # NoNode /\ toRelease[lastNode] # {}
ForcedHeldKept == heldNodes   \* a bug: without the unlock
ForcedHeld == heldNodes \ {lastNode}
NotReadded(a) == {}   \* a bug: the new placeholder is not in the set
Readded(a) == {a}
Release(n, t) ==
  LET p1 == IF Forced(n) THEN [toRelease EXCEPT ![lastNode] = {}] ELSE toRelease
      h1 == IF Forced(n) THEN ForcedHeld ELSE heldNodes
      e1 == IF Forced(n) THEN inExec \ {lastNode} ELSE inExec
      p2 == [p1 EXCEPT ![n] = @ \ {t}]
  IN /\ toRelease' = p2 /\ lastNode' = n /\ lastLayer' = n
     /\ heldNodes' = IF p2[n] = {} THEN h1 \ {n} ELSE h1
     /\ inExec' = IF p2[n] = {} THEN e1 \ {n} ELSE e1
     /\ fault' = CASE n # lastLayer /\ lastNode = NoNode -> "no last node"
                   [] Forced(n) /\ lastNode \notin heldNodes -> "unlocks twice"
                   [] p2[n] = {} /\ n \notin h1 -> "unlocks twice"
                   [] OTHER -> fault

End(t) ==
  IF ptr[t] \notin offload THEN UNCHANGED engine
  ELSE IF ptr[t] \notin DOMAIN idAt
    THEN fault' = "unknown tensor" /\ UNCHANGED <<ptr, offload, idAt, toRelease,
                                            heldNodes, inExec, lastNode, lastLayer>>
  ELSE /\ Release(NodeOf(idAt[ptr[t]]), idAt[ptr[t]])
       /\ \E a \in Heap \ Range(ptr) :
            /\ ptr' = [ptr EXCEPT ![t] = a]
            /\ idAt' = Moved(ptr[t], a)
            /\ offload' = (offload \ {ptr[t]}) \cup Readded(a)

Current == TensorsOf[leaf][k]
HookStep ==
  /\ phase \in {"pre", "post"} /\ fault = "none"
  /\ (phase = "pre" /\ Begin(Current)) \/ (phase = "post" /\ End(Current))
  /\ IF k < Len(TensorsOf[leaf]) THEN k' = k + 1 /\ UNCHANGED phase
       ELSE k' = 1 /\ phase' = IF phase = "pre" THEN "forward" ELSE "called"
  /\ UNCHANGED <<leaf, layer, passes>>

Forward == /\ phase = "forward" /\ phase' = "post"
           /\ UNCHANGED <<engine, leaf, k, layer, passes>>

\* The pass goes on with a module of this layer or of a later one; which modules a
\* pass uses depends on its input.
Call == /\ phase = "called" /\ phase' = "pre" /\ fault = "none"
        /\ \E m \in Leaves : LayerOf[m] >= layer /\ leaf' = m /\ layer' = LayerOf[m]
        /\ UNCHANGED <<engine, k, passes>>

\* A pass ends, or the forward of a module raises, and the next begins.
NewPass == /\ phase \in {"called", "forward"} /\ fault = "none" /\ passes < MaxPasses
           /\ \E m \in Leaves : LayerOf[m] = 0 /\ leaf' = m
           /\ k' = 1 /\ phase' = "pre" /\ layer' = 0 /\ passes' = passes + 1
           /\ UNCHANGED engine

HooksNext == HookStep \/ Forward \/ Call \/ NewPass
HooksSpec == HooksInit /\ [][HooksNext]_hooksVars
-----------------------------------------------------------------------------
\* Both pointer tables are those of the tensors as they are now, whatever addresses
\* were used again.
PointersFollow == idAt = AntiFunction(ptr) /\ offload = Range(ptr)

\* The thread holds the mutex of exactly the nodes with tensors to release, which are
\* those the task pool takes for running; so it neither locks one it holds nor unlocks
\* one it does not, has a last node when it needs one, and finds every pointer.
HeldWhilePending ==
  /\ \A n \in Nodes : /\ n \in heldNodes <=> toRelease[n] # {}
                      /\ n \in heldNodes <=> n \in inExec
  /\ fault = "none"

\* A module that runs has its weights.
RunsOnWeights == phase = "forward" => \A j \in DOMAIN TensorsOf[leaf] :
                   ptr[TensorsOf[leaf][j]] = WeightsAt[TensorsOf[leaf][j]]
=============================================================================
