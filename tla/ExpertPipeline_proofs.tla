------------------------- MODULE ExpertPipeline_proofs -------------------------
(***************************************************************************)
(* Theorems about ExpertPipeline, for every number of nodes, slots, docks, *)
(* workers and layers, every policy and every choice of UsePoolPlanning    *)
(* and IsLut.                                                              *)
(*                                                                         *)
(* First, that it implements ExpertCache.  The refinement needs an         *)
(* invariant of the queues, and the queues need one of the cache (a        *)
(* cancellation and a fetch never abort), so the two are proved together.  *)
(*                                                                         *)
(* Then what it promises: each dispatch gets its own results, an operation *)
(* writes its own task's dock, what is decoded is the node's own bytes,    *)
(* and the main thread never waits for a mutex.  All rest on PipelineInv;  *)
(* the docks, the bytes, the results and the order of the prefetches add   *)
(* an invariant each.                                                      *)
(***************************************************************************)
EXTENDS ExpertPipeline, FiniteSetTheorems, TLAPS

\* The cache with its proofs, under the mapping of ExpertPipeline!Cache.
CP == INSTANCE ExpertCache_proofs WITH
  use <- [n \in Nodes |-> UseOf(n)],
  wanted <- {n \in locked : task[n].state /= "PREFETCH"},
  UserTiers <- [n \in Nodes |-> {}], MaxTokens <- 1, MaxMeta <- -1, MaxNow <- 1

-----------------------------------------------------------------------------
(***************************************************************************)
(* The invariant.                                                          *)
(***************************************************************************)
Ready == SeqSet(readyQ)
Exec  == SeqSet(execQ)
Distinct(q) == \A i, j \in 1 .. Len(q) : q[i] = q[j] => i = j

\* The nodes whose task is the demand of a dispatch.
Demanded == {n \in locked : task[n].state /= "PREFETCH"}

\* EnqueueExpert's loop, and the part of it that has an expert in hand.
Enqueuing == {"decide", "scanScheduled", "scanReady", "lock"}
Scanning  == {"scanScheduled", "scanReady", "lock"}
Quiet     == {"idle", "wait", "dozing", "asleep", "prefetch", "submit"}

OpRecords == [node : Nodes, part : ExpOps \cup SmOps, dock : 0 .. NumDocks - 1,
              live : BOOLEAN]
TaskRecords == [state : States \cup {"none"}, hit : BOOLEAN, pend : Int,
                ptrs : {"none", "gpu", "sm", "dock"}]

Types ==
  /\ pc \in PCs /\ layer \in 0 .. NumLayers - 1
  /\ request \subseteq Nodes /\ todo \subseteq Nodes
  /\ cur \in Nodes \cup {NoNode} /\ decision \in {"NORMAL", "SMCACHE", "EVICT"}
  /\ task \in [Nodes -> TaskRecords]
  /\ newQ \subseteq Nodes /\ sched \subseteq Nodes
  /\ readyQ \in Seq(Nodes) /\ execQ \in Seq(Nodes)
  /\ running \in Nodes \cup {NoNode}
  /\ opQ \subseteq OpRecords /\ work \in [Workers -> OpRecords \cup {NoOp}]

\* TaskInOnePlace with the places as sets.
Submitting == {n \in Nodes : pc = "submit" /\ cur = n}
Tasked == {n \in Nodes : HasTask(n)}
Placed ==
  /\ Tasked \subseteq locked
  /\ pc /= "raised" => locked \subseteq Tasked
  /\ Tasked = newQ \cup sched \cup Ready \cup Exec \cup ({running} \ {NoNode})
                   \cup Submitting
  /\ newQ \cap sched = {} /\ (newQ \cup sched) \cap Ready = {}
  /\ (newQ \cup sched \cup Ready) \cap Exec = {}
  /\ running \notin newQ \cup sched \cup Ready \cup Exec
  /\ Submitting \cap (newQ \cup sched \cup Ready \cup Exec \cup {running}) = {}
  /\ Distinct(readyQ) /\ Distinct(execQ)

\* How far the task of node n is, by the place it is in.
StagedAt(n) ==
  /\ HasTask(n) => task[n].hit = (task[n].state /= "PREFETCH")
  /\ Unwound(n) => n \in request /\ ~Resident(n)
  /\ n \in newQ => task[n].state /= "PREFETCH" /\ task[n].ptrs = "none" /\ ~Resident(n)
  /\ n \in Submitting => task[n].state = "PREFETCH" /\ task[n].ptrs = "none"
  /\ n \in sched /\ task[n].ptrs = "none" => Stopped
  /\ n \in sched \cup Ready /\ task[n].ptrs /= "none" =>
       task[n].ptrs = Staging(task[n].state) /\ ~Resident(n)
  /\ n \in Ready /\ task[n].ptrs = "none" =>
       task[n].state \in {"NORMAL", "PREFETCH"} /\ Resident(n)
  /\ n \in Exec \/ n = running => task[n].state /= "PREFETCH"
Staged == \A n \in Nodes : StagedAt(n)

\* The operation of a live task is of a scheduled one.
Serves(o) == o.live => o.node \in sched /\ (task[o.node].ptrs /= "none" \/ aborted)
OpsServe ==
  /\ \A o \in opQ : o.live /\ Serves(o)
  /\ \A w \in Workers : Serves(work[w])

\* What the main thread has in hand: experts that are not demanded yet, and, from
\* one scan to the next, not where it has looked.
MainAgrees ==
  /\ pc \in Enqueuing => todo \subseteq (request \cap LayerNodes(layer)) \ Demanded
  /\ pc \in Scanning => cur \in (request \cap LayerNodes(layer)) \ (todo \cup Demanded)
  /\ pc = "scanReady" => cur \notin sched
  /\ pc = "lock" => cur \notin locked
  /\ pc = "submit" => cur \in Nodes
  /\ pc \in Quiet => newQ = {}
  /\ newQ \subseteq request
  /\ pc \in {"idle", "prefetch", "submit"} => Demanded = {}

\* The experts of the dispatch that have no result yet, which pending_ counts.
Owed == Demanded \cup (IF pc \in Enqueuing THEN todo ELSE {})
                 \cup (IF pc \in Scanning THEN {cur} ELSE {})
PendingCounts == pending = Cardinality(Owed)

Tasks == Types /\ Placed /\ Staged /\ OpsServe /\ MainAgrees /\ PendingCounts

\* num_pending_operations: every operation of a new task, and then those that were
\* submitted and are not done.  The tables' sign/mantissa reads are counted but never
\* submitted.
NotSubmitted(n) == IF IsLut /\ NeedsSm(n) THEN Cardinality(SmOps) ELSE 0
CountedAt(n) ==
  /\ n \in newQ \cup Submitting => task[n].pend = NumOps(n)
  /\ n \in sched /\ task[n].ptrs /= "none" =>
       /\ IsFiniteSet(Ops(n))
       /\ task[n].pend = Cardinality(Ops(n)) + NotSubmitted(n)
       /\ task[n].pend /= 0
LiveOnce ==
  /\ \A w \in Workers : work[w].live => work[w] \notin opQ
  /\ \A v, w \in Workers : work[w].live /\ work[v] = work[w] => v = w
OpsCounted == LiveOnce /\ \A n \in Nodes : CountedAt(n)

DocksTyped ==
  /\ dockOf \in [Nodes -> 0 .. NumDocks - 1 \cup {NoSlot}]
  /\ freeDocks \in Seq(0 .. NumDocks - 1)

\* The inductive invariant.
PipelineInv == CP!Inv /\ Tasks /\ OpsCounted /\ DocksTyped

-----------------------------------------------------------------------------
(***************************************************************************)
(* The cache's operations mean the same to the pipeline and to the cache.  *)
(***************************************************************************)
LEMMA SameHit == \A n, k : UpdateOnHit(n, k) <=> CP!UpdateOnHit(n, k)
BY DEF UpdateOnHit, CP!UpdateOnHit, Promoted, CP!Promoted, MinTier, CP!MinTier,
       MaxTier, CP!MaxTier, OnHit, CP!OnHit, Owned, CP!Owned

LEMMA SameRegisterGpu ==
  \A n : RegisterCacheSlotForNode(n) <=> CP!RegisterCacheSlotForNode(n)
BY DEF RegisterCacheSlotForNode, CP!RegisterCacheSlotForNode, GpuSlotFree,
       CP!GpuSlotFree, GpuSlotTaken, CP!GpuSlotTaken, GpuNoVictim, CP!GpuNoVictim,
       HasFree, CP!HasFree, TopFree, CP!TopFree, PopFree, CP!PopFree, Owned, CP!Owned,
       Evict, CP!Evict, Place, CP!Place, Erase, CP!Erase, Evictable, CP!Evictable,
       OnMiss, CP!OnMiss, AfterSelect, CP!AfterSelect, NewPhase, CP!NewPhase,
       Victims, CP!Victims, OnDisk, CP!OnDisk, Demoted, CP!Demoted, MinTier, CP!MinTier

LEMMA SameRegisterSm ==
  \A n : RegisterSMCacheForNode(n) <=> CP!RegisterSMCacheForNode(n)
BY DEF RegisterSMCacheForNode, CP!RegisterSMCacheForNode, SmSlotFree, CP!SmSlotFree,
       SmSlotTaken, CP!SmSlotTaken, SmNoVictim, CP!SmNoVictim, HasFree, CP!HasFree,
       TopFree, CP!TopFree, PopFree, CP!PopFree, Owned, CP!Owned, Evict, CP!Evict,
       Place, CP!Place, Erase, CP!Erase, Evictable, CP!Evictable, OnMiss, CP!OnMiss,
       AfterSelect, CP!AfterSelect, NewPhase, CP!NewPhase, Victims, CP!Victims

LEMMA SameUnregister ==
  \A n : UnregisterCacheSlotForNode(n) <=> CP!UnregisterCacheSlotForNode(n)
BY DEF UnregisterCacheSlotForNode, CP!UnregisterCacheSlotForNode, OnDisk, CP!OnDisk,
       CanEvict, CP!CanEvict, Unregistered, CP!Unregistered, Evict, CP!Evict

LEMMA SameFetch ==
  \A n, state, ptr : FetchDevice(n, state, ptr) <=> CP!FetchDevice(n, state, ptr)
BY DEF FetchDevice, CP!FetchDevice, OnCuda, CP!OnCuda, DropsSm, CP!DropsSm, CanEvict,
       CP!CanEvict, Unregistered, CP!Unregistered, Evict, CP!Evict

LEMMA SameFinish == \A n, state : FinishDevice(n, state) <=> CP!FinishDevice(n, state)
BY DEF FinishDevice, CP!FinishDevice, OnDisk, CP!OnDisk, CanEvict, CP!CanEvict,
       Unregistered, CP!Unregistered, Evict, CP!Evict

\* What of the cache's invariant the pipeline needs.
LEMMA CacheFacts ==
  ASSUME CP!Inv
  PROVE  /\ gpuPool.node \in [GpuSlots -> Nodes \cup {NoNode}]
         /\ smPool.node \in [SmSlots -> Nodes \cup {NoNode}]
         /\ node \in [Nodes -> NodeRecords]
         /\ locked \subseteq Nodes /\ aborted \in BOOLEAN
<1>1. GpuSlots = CP!GpuSlots /\ SmSlots = CP!SmSlots /\ NodeRecords = CP!NodeRecords
  BY DEF GpuSlots, CP!GpuSlots, SmSlots, CP!SmSlots, Slots, CP!Slots, NodeRecords,
         CP!NodeRecords, Tiers, CP!Tiers
<1> QED BY <1>1 DEF CP!Inv, CP!TypeOK, CP!CacheTypeOK, CP!Pools, CP!Slots, GpuSlots,
          SmSlots, Slots

\* A step of the cache keeps the cache's invariant.
LEMMA CacheStep ==
  ASSUME CP!Inv, [CP!Next]_CP!vars
  PROVE  CP!Inv'
<1>1. CASE CP!Next
  BY <1>1, CP!NextInv, NoNodeAssumption, NoSlotAssumption, SlotCounts, PolicyAssumption,
     TierBounds, MemAssumption DEF Policies, CP!Policies, Tiers, CP!Tiers
<1>2. CASE UNCHANGED CP!vars
  BY <1>2, CP!StutterInv, NoNodeAssumption, NoSlotAssumption, SlotCounts, PolicyAssumption,
     TierBounds, MemAssumption DEF Policies, CP!Policies, Tiers, CP!Tiers
<1> QED BY <1>1, <1>2
-----------------------------------------------------------------------------
(***************************************************************************)
(* The queues, as sets.                                                    *)
(***************************************************************************)
LEMMA AppendFacts ==
  ASSUME NEW q \in Seq(Nodes), NEW n \in Nodes
  PROVE  /\ Append(q, n) \in Seq(Nodes)
         /\ SeqSet(Append(q, n)) = SeqSet(q) \cup {n}
         /\ Distinct(q) /\ n \notin SeqSet(q) => Distinct(Append(q, n))
<1>1. /\ Append(q, n) \in Seq(Nodes) /\ Len(Append(q, n)) = Len(q) + 1
      /\ Append(q, n)[Len(q) + 1] = n
      /\ \A i \in 1 .. Len(q) : Append(q, n)[i] = q[i]
  OBVIOUS
<1>2. Len(q) \in Nat
  OBVIOUS
<1>3. SeqSet(Append(q, n)) = SeqSet(q) \cup {n}
  BY <1>1, <1>2 DEF SeqSet
<1>4. Distinct(q) /\ n \notin SeqSet(q) => Distinct(Append(q, n))
  BY <1>1, <1>2 DEF SeqSet, Distinct
<1> QED BY <1>1, <1>3, <1>4

LEMMA TailFacts ==
  ASSUME NEW q \in Seq(Nodes), q /= <<>>, Distinct(q)
  PROVE  /\ Tail(q) \in Seq(Nodes) /\ Head(q) \in SeqSet(q) /\ Head(q) \in Nodes
         /\ SeqSet(Tail(q)) = SeqSet(q) \ {Head(q)}
         /\ Distinct(Tail(q))
<1>1. /\ Tail(q) \in Seq(Nodes) /\ Len(Tail(q)) = Len(q) - 1 /\ Head(q) = q[1]
      /\ Len(q) \in Nat \ {0}
      /\ \A i \in 1 .. Len(q) - 1 : Tail(q)[i] = q[i + 1]
  OBVIOUS
<1>2. \A i \in 1 .. Len(q) : q[i] \in Nodes
  OBVIOUS
<1>3. Head(q) \in SeqSet(q) /\ Head(q) \in Nodes
  BY <1>1, <1>2 DEF SeqSet
<1>4. Distinct(Tail(q))
  BY <1>1 DEF Distinct
<1>5. ASSUME NEW x \in SeqSet(Tail(q)) PROVE x \in SeqSet(q) \ {Head(q)}
  <2>1. PICK i \in 1 .. Len(q) - 1 : x = q[i + 1]
    BY <1>1 DEF SeqSet
  <2>2. i + 1 \in 1 .. Len(q) /\ 1 \in 1 .. Len(q) /\ i + 1 /= 1
    BY <1>1
  <2> QED BY <1>1, <2>1, <2>2 DEF SeqSet, Distinct
<1>6. ASSUME NEW x \in SeqSet(q) \ {Head(q)} PROVE x \in SeqSet(Tail(q))
  <2>1. PICK i \in 1 .. Len(q) : x = q[i] /\ i /= 1
    BY <1>1 DEF SeqSet
  <2>2. i - 1 \in 1 .. Len(q) - 1 /\ Tail(q)[i - 1] = q[(i - 1) + 1]
    BY <1>1, <2>1
  <2> QED BY <1>1, <2>1, <2>2 DEF SeqSet
<1> QED BY <1>1, <1>3, <1>4, <1>5, <1>6

LEMMA QueueFacts ==
  ASSUME Types
  PROVE  /\ Ready \subseteq Nodes /\ Exec \subseteq Nodes
         /\ \A n : (InSeq(n, readyQ) <=> n \in Ready) /\ (InSeq(n, execQ) <=> n \in Exec)
BY DEF Types, Ready, Exec, SeqSet, InSeq

-----------------------------------------------------------------------------
(***************************************************************************)
(* What the cache's operations leave alone.                                *)
(***************************************************************************)
\* A hit moves no node between the devices.
LEMMA HitKeeps ==
  ASSUME CP!Inv, NEW n \in Nodes, NEW k, UpdateOnHit(n, k)
  PROVE  /\ locked' = locked /\ aborted' = aborted
         /\ \A m \in Nodes : Resident(m)' = Resident(m) /\ NeedsSm(m)' = NeedsSm(m)
<1>1. node' = [node EXCEPT ![n].tier = Promoted(n)]
  BY DEF UpdateOnHit
<1>2. ASSUME NEW m \in Nodes
      PROVE  node'[m].device = node[m].device /\ node'[m].sm = node[m].sm
  BY <1>1, CacheFacts DEF NodeRecords
<1> QED BY <1>2 DEF UpdateOnHit, Resident, NeedsSm

\* A registration writes no node whose mutex is held, and brings none to the GPU.
LEMMA RegisterGpuKeeps ==
  ASSUME CP!Inv, NEW n \in Nodes, RegisterCacheSlotForNode(n)
  PROVE  /\ locked' = locked
         /\ \A m \in locked : node'[m] = node[m]
         /\ \A m \in Nodes : Resident(m)' => Resident(m)
<1>1. CASE node' = node
  BY <1>1 DEF RegisterCacheSlotForNode, Resident
<1>2. CASE GpuSlotTaken(n)
  <2>1. PICK s \in Victims(gpuPool, gpuMeta) :
          LET v == gpuPool.node[s] IN
            node' = [node EXCEPT ![v] = [OnDisk(@) EXCEPT !.tier = Demoted(v)]]
    BY <1>2 DEF GpuSlotTaken
  <2> DEFINE v == gpuPool.node[s]
  <2>2. v \in Nodes \ locked
    BY CacheFacts DEF Victims, Evictable
  <2>3. node' = [node EXCEPT ![v] = [OnDisk(node[v]) EXCEPT !.tier = Demoted(v)]]
    BY <2>1
  <2> HIDE DEF v
  <2>4. node'[v].device = "disk"
    BY <2>2, <2>3, CacheFacts DEF OnDisk, NodeRecords
  <2> QED BY <2>2, <2>3, <2>4, CacheFacts DEF RegisterCacheSlotForNode, Resident
<1> QED BY <1>1, <1>2 DEF RegisterCacheSlotForNode, GpuSlotFree, GpuNoVictim

LEMMA RegisterSmKeeps ==
  ASSUME CP!Inv, NEW n \in Nodes, RegisterSMCacheForNode(n)
  PROVE  /\ locked' = locked
         /\ \A m \in locked : node'[m] = node[m]
         /\ \A m \in Nodes : Resident(m)' => Resident(m)
<1>1. CASE node' = node
  BY <1>1 DEF RegisterSMCacheForNode, Resident
<1>2. CASE SmSlotTaken(n)
  <2>1. PICK s \in Victims(smPool, smMeta) :
          LET v == smPool.node[s] IN node' = [node EXCEPT ![v].sm = NoSlot]
    BY <1>2 DEF SmSlotTaken
  <2> DEFINE v == smPool.node[s]
  <2>2. v \in Nodes \ locked
    BY CacheFacts DEF Victims, Evictable
  <2>3. node' = [node EXCEPT ![v].sm = NoSlot]
    BY <2>1
  <2> HIDE DEF v
  <2>4. node'[v].device = node[v].device
    BY <2>2, <2>3, CacheFacts DEF NodeRecords
  <2> QED BY <2>2, <2>3, <2>4, CacheFacts DEF RegisterSMCacheForNode, Resident
<1> QED BY <1>1, <1>2 DEF RegisterSMCacheForNode, SmSlotFree, SmNoVictim
-----------------------------------------------------------------------------
(***************************************************************************)
(* What a step changes for the cache: the use of a node and the demands.   *)
(***************************************************************************)
LEMMA InSeqSet == \A n, q : InSeq(n, q) <=> n \in SeqSet(q)
BY DEF InSeq, SeqSet

LEMMA SameUse ==
  ASSUME NEW n \in Nodes, n \in locked' <=> n \in locked,
         (n \in Exec' \/ running' = n) <=> (n \in Exec \/ running = n),
         task'[n].state = task[n].state, task'[n].ptrs = task[n].ptrs
  PROVE  UseOf(n)' = UseOf(n)
BY InSeqSet DEF UseOf, Exec

LEMMA Stutter ==
  ASSUME UNCHANGED cacheVars, Demanded' = Demanded,
         \A n \in Nodes : UseOf(n)' = UseOf(n)
  PROVE  UNCHANGED CP!vars
<1>1. [n \in Nodes |-> UseOf(n)]' = [n \in Nodes |-> UseOf(n)]
  OBVIOUS
<1> QED BY <1>1 DEF CP!vars, CP!cacheVars, cacheVars, Demanded

\* Steps of the main thread that touch no task.
MainTypes ==
  /\ pc \in PCs /\ layer \in 0 .. NumLayers - 1
  /\ request \subseteq Nodes /\ todo \subseteq Nodes
  /\ cur \in Nodes \cup {NoNode} /\ decision \in {"NORMAL", "SMCACHE", "EVICT"}

LEMMA MainOnly ==
  ASSUME PipelineInv, UNCHANGED <<cacheVars, taskVars, opVars>>,
         pc \notin {"submit", "raised"}, pc' /= "submit",
         MainTypes', MainAgrees', PendingCounts'
  PROVE  Tasks' /\ UNCHANGED CP!vars
<1> USE DEF PipelineInv, Tasks, cacheVars, taskVars, opVars
<1>1. Submitting = {} /\ Submitting' = {}
  BY DEF Submitting
<1>2. Types'
  BY DEF Types, MainTypes
<1>3. Ready' = Ready /\ Exec' = Exec
  BY DEF Ready, Exec
<1>4. Placed' /\ locked \subseteq Tasked
  BY <1>1, <1>3 DEF Placed, Tasked, HasTask
<1>5. Staged'
  BY <1>1, <1>3, <1>4, CacheFacts
     DEF Staged, StagedAt, Resident, Stopped, Tasked, HasTask, Unwound
<1>6. OpsServe'
  BY DEF OpsServe, Serves
<1>7. UNCHANGED CP!vars
  BY <1>3, SameUse, Stutter DEF Demanded
<1> QED BY <1>2, <1>4, <1>5, <1>6, <1>7

\* The next layer is a layer.
LEMMA NextLayerType ==
  ASSUME layer \in 0 .. NumLayers - 1
  PROVE  NextLayer \in 0 .. NumLayers - 1
BY PipelineAssumptions DEF NextLayer

\* The main thread takes up the expert to demand next.
LEMMA DispatchStep ==
  ASSUME PipelineInv, Dispatch
  PROVE  Tasks' /\ UNCHANGED CP!vars
<1> USE DEF Dispatch
<1>1. PICK R \in (SUBSET LayerNodes(layer)) \ {{}} :
        request' = R /\ todo' = R /\ pending' = Cardinality(R)
  OBVIOUS
<1>2. Demanded' = {} /\ R \subseteq Nodes
  BY <1>1 DEF PipelineInv, Tasks, MainAgrees, Demanded, cacheVars, taskVars, LayerNodes
<1>3. Owed' = R
  BY <1>1, <1>2 DEF Owed, Enqueuing, Scanning
<1>4. MainAgrees' /\ PendingCounts'
  BY <1>1, <1>2, <1>3 DEF PipelineInv, Tasks, MainAgrees, PendingCounts, Enqueuing,
     Scanning, Quiet, LayerNodes, taskVars
<1>5. MainTypes'
  BY <1>1, <1>2 DEF PipelineInv, Tasks, Types, MainTypes, PCs
<1> QED BY <1>4, <1>5, MainOnly

LEMMA EnqueueDecideStep ==
  ASSUME PipelineInv, EnqueueDecide
  PROVE  Tasks' /\ UNCHANGED CP!vars /\ Owed' = Owed
<1> USE DEF EnqueueDecide
<1>1. PICK n \in todo, rank \in {"hot", "warm", "cold"} :
        cur' = n /\ todo' = todo \ {n} /\ decision' = ProactiveDecision(rank)
  OBVIOUS
<1>2. todo \subseteq (request \cap LayerNodes(layer)) \ Demanded /\ n \in Nodes /\ todo \subseteq Nodes
  BY DEF PipelineInv, Tasks, MainAgrees, Types, Enqueuing
<1>3. Demanded' = Demanded
  BY DEF Demanded, cacheVars, taskVars
<1>4. Owed' = Owed
  BY <1>1, <1>3 DEF Owed, Enqueuing, Scanning
<1>5. MainAgrees'
  BY <1>1, <1>2, <1>3
     DEF PipelineInv, Tasks, MainAgrees, Enqueuing, Scanning, Quiet, LayerNodes, taskVars
<1>6. PendingCounts'
  BY <1>4 DEF PipelineInv, Tasks, PendingCounts, waitVars
<1>7. MainTypes'
  BY <1>1, <1>2 DEF PipelineInv, Tasks, Types, MainTypes, PCs, ProactiveDecision
<1> QED BY <1>4, <1>5, <1>6, <1>7, MainOnly

\* OpsSchedule, CancelDone, ScheduleDone, and Wait's dozing, sleeping and waking.
LEMMA PhaseStep ==
  ASSUME PipelineInv,
         \/ OpsSchedule \/ CancelDone \/ ScheduleDone
         \/ WaitDoze \/ WaitSleep \/ SpuriousWake \/ SubmitDone
  PROVE  Tasks' /\ UNCHANGED CP!vars /\ Owed' = Owed
<1> USE DEF OpsSchedule, CancelDone, ScheduleDone, WaitDoze, WaitSleep, SpuriousWake,
            SubmitDone, WaitMove
<1>1. /\ UNCHANGED <<cacheVars, taskVars, opVars, waitVars>>
      /\ UNCHANGED <<layer, request, todo, cur, decision>>
      /\ \/ pc = "decide" /\ todo = {} /\ pc' = "cancel"
         \/ pc = "cancel" /\ pc' = "typeI"
         \/ pc \in {"typeI", "toWorkers"} /\ newQ = {} /\ pc' = "wait"
         \/ pc = "wait" /\ pc' = "dozing"
         \/ pc = "dozing" /\ pc' = "asleep"
         \/ pc = "asleep" /\ pc' = "wait"
         \/ pc = "prefetch" /\ pc' = "idle"
  OBVIOUS
<1> HIDE DEF OpsSchedule, CancelDone, ScheduleDone, WaitDoze, WaitSleep, SpuriousWake,
             SubmitDone, WaitMove
<1>2. Demanded' = Demanded /\ newQ' = newQ /\ sched' = sched /\ locked' = locked
  BY <1>1 DEF Demanded, cacheVars, taskVars
<1>3. Owed' = Owed
  BY <1>1, <1>2 DEF Owed, Enqueuing, Scanning
<1>4. MainAgrees'
  BY <1>1, <1>2 DEF PipelineInv, Tasks, MainAgrees, Enqueuing, Scanning, Quiet
<1>5. PendingCounts'
  BY <1>1, <1>3 DEF PipelineInv, Tasks, PendingCounts, waitVars
<1>6. MainTypes'
  BY <1>1 DEF PipelineInv, Tasks, Types, MainTypes, PCs
<1> QED BY <1>1, <1>3, <1>4, <1>5, <1>6, MainOnly

\* Owed is finite, so pending_ = 0 says that it is empty.
LEMMA OwedFinite ==
  ASSUME PipelineInv
  PROVE  Owed \subseteq Nodes /\ IsFiniteSet(Owed)
<1>1. Owed \subseteq Nodes
  BY CacheFacts DEF PipelineInv, Tasks, Types, MainAgrees, Owed, Demanded, LayerNodes
<1> QED BY <1>1, PipelineAssumptions, FS_Subset

LEMMA WaitReturnsStep ==
  ASSUME PipelineInv, WaitReturns
  PROVE  Tasks' /\ UNCHANGED CP!vars
<1> USE DEF WaitReturns
<1>1. Owed = {}
  BY OwedFinite, FS_EmptySet DEF PipelineInv, Tasks, PendingCounts
<1>2. Demanded' = Demanded /\ Demanded = {} /\ newQ' = newQ /\ newQ = {}
  BY <1>1 DEF Demanded, Owed, cacheVars, taskVars, PipelineInv, Tasks, MainAgrees, Quiet
<1>3. Owed' = {}
  BY <1>2 DEF Owed, Enqueuing, Scanning
<1>4. PICK P \in SUBSET LayerNodes(NextLayer) : todo' = P
  OBVIOUS
<1>5. MainAgrees' /\ PendingCounts'
  BY <1>2, <1>3, FS_EmptySet DEF MainAgrees, PendingCounts, Enqueuing, Scanning, Quiet
<1>6. MainTypes'
  BY <1>4, NextLayerType DEF PipelineInv, Tasks, Types, MainTypes, PCs, LayerNodes
<1> QED BY <1>5, <1>6, MainOnly

-----------------------------------------------------------------------------
\* A hit on a prefetch makes it a demand.
LEMMA PromoteStep ==
  ASSUME PipelineInv, ~aborted, pc \in {"scanScheduled", "scanReady"},
         cur \in sched \cup Ready, Promote(cur),
         UNCHANGED <<layer, request, todo, cur, decision, rounds, newQ, sched, readyQ,
                     execQ, running, opVars, waitVars>>
  PROVE  Tasks' /\ CP!Next /\ Owed' = Owed
<1> USE DEF Promote
<1>1. /\ cur \in Nodes /\ cur \in locked /\ cur \notin Demanded /\ cur \notin todo
      /\ cur \notin Exec /\ running /= cur
  BY DEF PipelineInv, Tasks, MainAgrees, Placed, Scanning, LayerNodes
<1>2. task[cur].state = "PREFETCH" /\ task[cur] \in TaskRecords
  BY <1>1 DEF Demanded, PipelineInv, Tasks, Types
<1>3. /\ task' = [task EXCEPT ![cur] = [task[cur] EXCEPT !.state = "NORMAL", !.hit = TRUE]]
      /\ task' \in [Nodes -> TaskRecords]
      /\ task'[cur].state = "NORMAL" /\ task'[cur].hit /\ task'[cur].ptrs = task[cur].ptrs
      /\ \A m \in Nodes \ {cur} : task'[m] = task[m]
  BY <1>1, <1>2 DEF PipelineInv, Tasks, Types, TaskRecords, States
<1>4. /\ locked' = locked /\ aborted' = aborted
      /\ \A m \in Nodes : Resident(m)' = Resident(m)
  BY <1>1, HitKeeps DEF PipelineInv
<1>5. Ready' = Ready /\ Exec' = Exec /\ Submitting' = {} /\ Submitting = {}
  BY DEF Ready, Exec, Submitting
<1>6. Types'
  BY <1>3 DEF PipelineInv, Tasks, Types, PCs, opVars
<1>7. Placed'
  <2>1. HasTask(cur) /\ HasTask(cur)' /\ \A m \in Nodes \ {cur} : HasTask(m)' = HasTask(m)
    BY <1>2, <1>3 DEF HasTask, PipelineInv, Tasks, Placed, Tasked
  <2>2. Tasked' = Tasked
    BY <1>2, <2>1 DEF Tasked
  <2> QED BY <1>1, <1>2, <1>3, <1>4, <1>5, <2>2 DEF PipelineInv, Tasks, Placed
<1>8. Staged'
  <2> SUFFICES ASSUME NEW m \in Nodes PROVE StagedAt(m)'
    BY DEF Staged
  <2>1. StagedAt(m)
    BY DEF PipelineInv, Tasks, Staged
  <2>2. CASE m /= cur
    BY <1>1, <1>3, <1>4, <1>5, <2>1, <2>2 DEF StagedAt, Stopped, HasTask, Unwound
  <2>3. CASE m = cur
    <3>1. cur \notin newQ
      BY <1>1 DEF PipelineInv, Tasks, Placed
    <3> QED BY <1>1, <1>2, <1>3, <1>4, <1>5, <2>1, <2>3, <3>1
            DEF StagedAt, Stopped, Staging, HasTask, Unwound
  <2> QED BY <2>2, <2>3
<1>9. OpsServe'
  BY <1>3, <1>4 DEF PipelineInv, Tasks, OpsServe, Serves, opVars, Types, OpRecords, NoOp
<1>10. Demanded' = Demanded \cup {cur}
  BY <1>1, <1>3, <1>4, CacheFacts DEF Demanded, PipelineInv
<1>11. Owed' = Owed
  BY <1>10 DEF Owed, Enqueuing, Scanning
<1>12. MainAgrees' /\ PendingCounts'
  BY <1>1, <1>10, <1>11 DEF PipelineInv, Tasks, MainAgrees, PendingCounts, waitVars, Scanning, Enqueuing, Quiet
<1>13. CP!Next
  <2>1. \A m \in Nodes : UseOf(m)' = UseOf(m)
    BY <1>1, <1>2, <1>3, <1>4, <1>5, InSeqSet DEF UseOf, Exec
  <2>2. UseOf(cur) = "gpu" \/ (UseOf(cur) = "held" /\ Resident(cur))
    BY <1>1, <1>2, InSeqSet DEF UseOf, Exec, PipelineInv, Tasks, Staged, StagedAt, Stopped, Staging
  <2>3. CP!HitTask(cur, 1)
    <3>1. [m \in Nodes |-> UseOf(m)]' = [m \in Nodes |-> UseOf(m)]
      BY <2>1
    <3>2. CP!UpdateOnHit(cur, 1) /\ CP!WithinBound(1)
      BY SameHit DEF CP!WithinBound
    <3> QED BY <1>1, <1>10, <2>2, <3>1, <3>2 DEF CP!HitTask, CP!Resident, Resident, Demanded
  <2> QED BY <1>1, <2>3 DEF CP!Next, CP!HitStep
<1> QED BY <1>6, <1>7, <1>8, <1>9, <1>11, <1>12, <1>13 DEF Tasks
LEMMA EnqueueScanScheduledStep ==
  ASSUME PipelineInv, ~aborted, EnqueueScanScheduled
  PROVE  Tasks' /\ [CP!Next]_CP!vars /\ Owed' = Owed
<1> USE DEF EnqueueScanScheduled
<1>1. CASE cur \in sched
  BY <1>1, PromoteStep
<1>2. CASE cur \notin sched
  <2>1. pc' = "scanReady" /\ UNCHANGED <<cacheVars, taskVars, opVars, waitVars>>
    BY <1>2 DEF taskVars
  <2>2. Demanded' = Demanded /\ Owed' = Owed
    BY <2>1 DEF Demanded, Owed, Enqueuing, Scanning, cacheVars, taskVars
  <2>3. MainAgrees' /\ PendingCounts' /\ MainTypes'
    BY <1>2, <2>1, <2>2 DEF PipelineInv, Tasks, Types, MainTypes, PCs, MainAgrees,
       PendingCounts, Enqueuing, Scanning, Quiet, waitVars, taskVars
  <2> QED BY <2>1, <2>2, <2>3, MainOnly
<1> QED BY <1>1, <1>2

\* An expert that has no task and is on the GPU is hit before its mutex is taken.
LEMMA ScanMissStep ==
  ASSUME PipelineInv, ~aborted, EnqueueScanReady, cur \notin Ready
  PROVE  Tasks' /\ [CP!Next]_CP!vars /\ Owed' = Owed
<1>1. /\ pc = "scanReady" /\ pc' = "lock"
      /\ IF Resident(cur) THEN UpdateOnHit(cur, 1) ELSE UNCHANGED cacheVars
      /\ UNCHANGED <<taskVars, opVars, waitVars, layer, request, todo, cur, decision>>
  BY InSeqSet DEF EnqueueScanReady, Ready, taskVars
<1>2. /\ cur \in Nodes /\ cur \notin locked /\ cur \notin todo /\ cur \in LayerNodes(layer)
      /\ cur \notin Demanded
  BY <1>1 DEF PipelineInv, Tasks, MainAgrees, Placed, Staged, StagedAt, Demanded, Submitting,
     Scanning, Quiet, LayerNodes
<1>3. /\ locked' = locked /\ aborted' = aborted
      /\ \A m \in Nodes : Resident(m)' = Resident(m)
  BY <1>1, <1>2, HitKeeps DEF PipelineInv, cacheVars, Resident
<1>4. /\ Ready' = Ready /\ Exec' = Exec /\ Submitting' = {} /\ Submitting = {}
      /\ Demanded' = Demanded
  BY <1>1, <1>3 DEF Ready, Exec, Submitting, Demanded, taskVars
<1>5. Types'
  BY <1>1 DEF PipelineInv, Tasks, Types, PCs, opVars, taskVars
<1>6. Placed'
  BY <1>1, <1>3, <1>4 DEF PipelineInv, Tasks, Placed, Tasked, HasTask, taskVars
<1>7. Staged' /\ OpsServe'
  BY <1>1, <1>3, <1>4 DEF PipelineInv, Tasks, Staged, StagedAt, Stopped, taskVars,
     OpsServe, Serves, opVars, HasTask, Unwound
<1>8. Owed' = Owed
  BY <1>1, <1>4 DEF Owed, Enqueuing, Scanning
<1>9. MainAgrees' /\ PendingCounts'
  BY <1>1, <1>2, <1>3, <1>4, <1>8 DEF PipelineInv, Tasks, MainAgrees, PendingCounts,
     waitVars, taskVars, Scanning, Enqueuing, Quiet
<1>10. \A m \in Nodes : UseOf(m)' = UseOf(m)
  BY <1>1, <1>3, <1>4, SameUse DEF taskVars
<1>11. [CP!Next]_CP!vars
  <2>1. CASE Resident(cur)
    <3>1. [m \in Nodes |-> UseOf(m)]' = [m \in Nodes |-> UseOf(m)]
      BY <1>10
    <3>2. CP!UpdateOnHit(cur, 1) /\ CP!WithinBound(1)
      BY <1>1, <2>1, SameHit DEF CP!WithinBound
    <3>3. UseOf(cur) = "idle"
      BY <1>2 DEF UseOf
    <3>4. CP!HitResident(cur, 1)
      BY <1>2, <1>4, <2>1, <3>1, <3>2, <3>3
         DEF CP!HitResident, CP!Resident, Resident, Demanded
    <3> QED BY <1>2, <3>4 DEF CP!Next, CP!HitStep
  <2>2. CASE ~Resident(cur)
    BY <1>1, <1>4, <1>10, <2>2, Stutter
  <2> QED BY <2>1, <2>2
<1> QED BY <1>5, <1>6, <1>7, <1>8, <1>9, <1>11 DEF Tasks

LEMMA EnqueueScanReadyStep ==
  ASSUME PipelineInv, ~aborted, EnqueueScanReady
  PROVE  Tasks' /\ [CP!Next]_CP!vars /\ Owed' = Owed
<1>1. CASE cur \in Ready
  <2>1. Promote(cur) /\ pc = "scanReady"
    BY <1>1, InSeqSet DEF EnqueueScanReady, Ready
  <2> QED BY <1>1, <2>1, PromoteStep DEF EnqueueScanReady
<1> QED BY <1>1, ScanMissStep

-----------------------------------------------------------------------------
\* Taking the mutex of n: the cache's Acquire, with the task's demand.
LEMMA AcquireStep ==
  ASSUME PipelineInv, ~aborted, NEW n \in Nodes, n \notin locked, UNCHANGED <<gpuPool, smPool, gpuMeta, smMeta, node, now, aborted>>,
         locked' = locked \cup {n}, NEW t \in TaskRecords, t.ptrs = "none",
         t.state /= "none", task' = [task EXCEPT ![n] = t], execQ' = execQ, running' = running
  PROVE  /\ CP!Next
         /\ Demanded' = IF t.state = "PREFETCH" THEN Demanded ELSE Demanded \cup {n}
<1>1. task'[n] = t /\ \A m \in Nodes \ {n} : task'[m] = task[m]
  BY DEF PipelineInv, Tasks, Types
<1>2. Demanded' = IF t.state = "PREFETCH" THEN Demanded ELSE Demanded \cup {n}
  BY <1>1, CacheFacts DEF Demanded, PipelineInv
<1>3. UseOf(n) = "idle" /\ UseOf(n)' = "held"
  <2>1. n \notin Exec /\ running /= n /\ ~InSeq(n, execQ)
    BY InSeqSet, NoNodeAssumption DEF PipelineInv, Tasks, Placed, Exec
  <2> QED BY <1>1, <2>1 DEF UseOf
<1>4. \A m \in Nodes \ {n} : UseOf(m)' = UseOf(m)
  BY <1>1, SameUse DEF Exec
<1>5. [m \in Nodes |-> UseOf(m)]' = [[m \in Nodes |-> UseOf(m)] EXCEPT ![n] = "held"]
  BY <1>3, <1>4
<1>6. CP!Acquire(n)
  BY <1>2, <1>3, <1>5 DEF CP!Acquire, Demanded
<1> QED BY <1>2, <1>6 DEF CP!Next, CP!TaskStep
\* A new task has its record type.
LEMMA NewTaskType ==
  ASSUME NEW n \in Nodes, NEW state \in States
  PROVE  /\ NewTask(n, state) \in TaskRecords
         /\ NewTask(n, state).state = state /\ NewTask(n, state).ptrs = "none"
         /\ NewTask(n, state).hit = (state /= "PREFETCH")
<1>1. NumOps(n) \in Int
  BY PipelineAssumptions, FS_CardinalityType DEF NumOps
<1> QED BY <1>1 DEF NewTask, TaskRecords, States

LEMMA EnqueueLockStep ==
  ASSUME PipelineInv, ~aborted, EnqueueLock
  PROVE  Tasks' /\ CP!Next /\ Owed' = Owed
<1> DEFINE state == IF Resident(cur) THEN "NORMAL" ELSE decision
           t == NewTask(cur, state)
<1>1. /\ pc = "lock" /\ pc' = "decide" /\ locked' = locked \cup {cur}
      /\ task' = [task EXCEPT ![cur] = t]
      /\ readyQ' = IF Resident(cur) THEN Append(readyQ, cur) ELSE readyQ
      /\ newQ' = IF Resident(cur) THEN newQ ELSE newQ \cup {cur}
      /\ UNCHANGED <<gpuPool, smPool, gpuMeta, smMeta, node, now, aborted>>
      /\ UNCHANGED <<layer, request, todo, cur, decision, rounds>>
      /\ UNCHANGED <<sched, execQ, running, opVars, waitVars>>
  BY DEF EnqueueLock
<1>2. cur \in Nodes /\ cur \notin todo /\ cur \notin locked /\ cur \in request
      /\ todo \subseteq (request \cap LayerNodes(layer)) \ Demanded
  BY <1>1 DEF PipelineInv, Tasks, MainAgrees, Scanning, Enqueuing, LayerNodes
<1>3. /\ state \in {"NORMAL", "SMCACHE", "EVICT"} /\ t \in TaskRecords /\ t.state = state
      /\ t.ptrs = "none" /\ t.hit = TRUE
  BY <1>2, NewTaskType DEF PipelineInv, Tasks, Types, States
<1> HIDE DEF t, state
<1>4. task'[cur] = t /\ \A m \in Nodes \ {cur} : task'[m] = task[m]
  BY <1>1, <1>2 DEF PipelineInv, Tasks, Types
<1>5. CP!Next /\ Demanded' = Demanded \cup {cur}
  BY <1>1, <1>2, <1>3, AcquireStep
<1>6. /\ readyQ' \in Seq(Nodes) /\ Exec' = Exec /\ Submitting = {} /\ Submitting' = {}
      /\ Ready' = IF Resident(cur) THEN Ready \cup {cur} ELSE Ready
      /\ Distinct(readyQ')
  BY <1>1, <1>2, AppendFacts DEF Ready, Exec, Submitting, PipelineInv, Tasks, Types, Placed
<1>7. Types'
  BY <1>1, <1>2, <1>3, <1>6 DEF PipelineInv, Tasks, Types, PCs, opVars
<1>8. Placed'
  <2>1. cur \notin newQ \cup sched \cup Ready \cup Exec \cup ({running} \ {NoNode}) \cup Submitting
    BY <1>2 DEF PipelineInv, Tasks, Placed
  <2>2. cur /= running
    BY <1>2, <2>1, NoNodeAssumption
  <2>3. Tasked' = Tasked \cup {cur}
    BY <1>2, <1>3, <1>4 DEF Tasked, HasTask
  <2> QED BY <1>1, <1>2, <1>6, <2>1, <2>2, <2>3 DEF PipelineInv, Tasks, Placed
<1>9. Staged'
  <2> SUFFICES ASSUME NEW m \in Nodes PROVE StagedAt(m)'
    BY DEF Staged
  <2>1. StagedAt(m)
    BY DEF PipelineInv, Tasks, Staged
  <2>2. CASE m /= cur
    BY <1>1, <1>4, <1>6, <2>1, <2>2 DEF StagedAt, Stopped, Resident, HasTask, Unwound
  <2>3. CASE m = cur
    <3>1. cur \notin newQ \cup sched \cup Ready \cup Exec \cup {running}
      BY <1>2, NoNodeAssumption DEF PipelineInv, Tasks, Placed
    <3>2. task'[m] = t
      BY <1>4, <2>3
    <3>3. /\ m \notin sched' /\ m \notin Exec' /\ m /= running' /\ m \notin Submitting'
          /\ m \in newQ' => ~Resident(m)'
          /\ m \in Ready' => state = "NORMAL" /\ Resident(m)'
      BY <1>1, <1>6, <2>3, <3>1 DEF Resident, state
    <3> QED BY <1>3, <3>2, <3>3 DEF StagedAt, HasTask, Unwound
  <2> QED BY <2>2, <2>3
<1>10. OpsServe'
  <2>1. \A o \in OpRecords \cup {NoOp} : Serves(o) => Serves(o)'
    <3> SUFFICES ASSUME NEW o \in OpRecords \cup {NoOp}, Serves(o), o.live PROVE Serves(o)'
      BY <1>1 DEF Serves
    <3>1. o.node \in sched /\ o.node /= cur /\ o.node \in Nodes
      BY <1>2 DEF Serves, PipelineInv, Tasks, Placed, NoOp, OpRecords
    <3> QED BY <1>1, <1>4, <3>1 DEF Serves
  <2> QED BY <1>1, <2>1 DEF PipelineInv, Tasks, OpsServe, opVars, Types
<1>11. Owed' = Owed
  BY <1>1, <1>5 DEF Owed, Enqueuing, Scanning
<1>12. MainAgrees' /\ PendingCounts'
  BY <1>1, <1>2, <1>5, <1>11 DEF MainAgrees, PendingCounts, waitVars, Scanning, Enqueuing,
     Quiet, LayerNodes, PipelineInv, Tasks
<1> QED BY <1>5, <1>7, <1>8, <1>9, <1>10, <1>11, <1>12 DEF Tasks

LEMMA SubmitLockStep ==
  ASSUME PipelineInv, ~aborted, NEW n \in Nodes, SubmitLock(n)
  PROVE  Tasks' /\ CP!Next /\ Owed' = Owed
<1> DEFINE t == NewTask(n, "PREFETCH")
<1>1. /\ pc = "prefetch" /\ pc' = "submit" /\ locked' = locked \cup {n} /\ n \notin locked
      /\ todo' = todo \ {n} /\ cur' = n /\ task' = [task EXCEPT ![n] = t]
      /\ UNCHANGED <<gpuPool, smPool, gpuMeta, smMeta, node, now, aborted>>
      /\ UNCHANGED <<layer, request, decision, rounds>>
      /\ UNCHANGED <<newQ, sched, readyQ, execQ, running, opVars, waitVars>>
  BY DEF SubmitLock
<1>2. t \in TaskRecords /\ t.state = "PREFETCH" /\ t.ptrs = "none" /\ t.hit = FALSE
  BY NewTaskType DEF States
<1> HIDE DEF t
<1>3. task'[n] = t /\ \A m \in Nodes \ {n} : task'[m] = task[m]
  BY <1>1 DEF PipelineInv, Tasks, Types
<1>4. CP!Next /\ Demanded' = Demanded
  BY <1>1, <1>2, AcquireStep
<1>5. Ready' = Ready /\ Exec' = Exec /\ Submitting = {} /\ Submitting' = {n}
  BY <1>1 DEF Ready, Exec, Submitting
<1>6. Types'
  BY <1>1, <1>2 DEF PipelineInv, Tasks, Types, PCs, opVars
<1>7. n \notin newQ \cup sched \cup Ready \cup Exec \cup {running}
  BY <1>1, NoNodeAssumption DEF PipelineInv, Tasks, Placed
<1>8. Placed'
  <2>1. Tasked' = Tasked \cup {n}
    BY <1>2, <1>3 DEF Tasked, HasTask
  <2> QED BY <1>1, <1>5, <1>7, <2>1 DEF PipelineInv, Tasks, Placed
<1>9. Staged'
  <2> SUFFICES ASSUME NEW m \in Nodes PROVE StagedAt(m)'
    BY DEF Staged
  <2>1. StagedAt(m)
    BY DEF PipelineInv, Tasks, Staged
  <2>2. CASE m /= n
    BY <1>1, <1>3, <1>5, <2>1, <2>2 DEF StagedAt, Stopped, Resident, HasTask, Unwound
  <2>3. CASE m = n
    <3>1. task'[m] = t
      BY <1>3, <2>3
    <3>2. /\ m \notin newQ' /\ m \notin sched' /\ m \notin Ready' /\ m \notin Exec'
          /\ m /= running'
      BY <1>1, <1>5, <1>7, <2>3
    <3> QED BY <1>2, <3>1, <3>2 DEF StagedAt, HasTask, Unwound
  <2> QED BY <2>2, <2>3
<1>10. OpsServe'
  <2>1. \A o \in OpRecords \cup {NoOp} : Serves(o) => Serves(o)'
    <3> SUFFICES ASSUME NEW o \in OpRecords \cup {NoOp}, Serves(o), o.live PROVE Serves(o)'
      BY <1>1 DEF Serves
    <3>1. o.node \in sched /\ o.node /= n /\ o.node \in Nodes
      BY <1>7 DEF Serves, NoOp, OpRecords
    <3> QED BY <1>1, <1>3, <3>1 DEF Serves
  <2> QED BY <1>1, <2>1 DEF PipelineInv, Tasks, OpsServe, opVars, Types
<1>11. Owed' = Owed
  BY <1>1, <1>4 DEF Owed, Enqueuing, Scanning
<1>12. MainAgrees' /\ PendingCounts'
  BY <1>1, <1>4, <1>11 DEF MainAgrees, PendingCounts, waitVars, Scanning, Enqueuing,
     Quiet, PipelineInv, Tasks
<1> QED BY <1>4, <1>6, <1>8, <1>9, <1>10, <1>11, <1>12 DEF Tasks

\* A prefetched expert that is on the GPU goes straight to the ready queue.
LEMMA SubmitResidentStep ==
  ASSUME PipelineInv, ~aborted, SubmitResident
  PROVE  Tasks' /\ UNCHANGED CP!vars /\ Owed' = Owed
<1>1. /\ pc = "submit" /\ pc' = "prefetch" /\ Resident(cur) /\ readyQ' = Append(readyQ, cur)
      /\ UNCHANGED <<layer, request, todo, cur, decision, rounds>>
      /\ UNCHANGED <<task, newQ, sched, execQ, running>>
      /\ UNCHANGED <<cacheVars, opVars, waitVars>>
  BY DEF SubmitResident
<1>2. /\ cur \in Nodes /\ cur \in Submitting /\ Submitting' = {} /\ Submitting = {cur}
      /\ cur \notin newQ \cup sched \cup Ready \cup Exec \cup {running} /\ cur \in locked
  BY <1>1 DEF PipelineInv, Tasks, MainAgrees, Submitting, Placed
<1>3. /\ readyQ' \in Seq(Nodes) /\ Exec' = Exec /\ Ready' = Ready \cup {cur}
      /\ Distinct(readyQ') /\ locked' = locked /\ aborted' = aborted
  BY <1>1, <1>2, AppendFacts DEF Ready, Exec, PipelineInv, Tasks, Types, Placed, cacheVars
<1>4. Types'
  BY <1>1, <1>3 DEF PipelineInv, Tasks, Types, PCs, opVars
<1>5. Placed'
  <2>1. Tasked' = Tasked
    BY <1>1 DEF Tasked, HasTask
  <2> QED BY <1>1, <1>2, <1>3, <2>1 DEF PipelineInv, Tasks, Placed
<1>6. Staged'
  BY <1>1, <1>2, <1>3 DEF PipelineInv, Tasks, Staged, StagedAt, Stopped, Resident, cacheVars,
     HasTask, Unwound
<1>7. OpsServe'
  BY <1>1, <1>3 DEF PipelineInv, Tasks, OpsServe, Serves, opVars
<1>8. Demanded' = Demanded
  BY <1>1, <1>3 DEF Demanded
<1>9. Owed' = Owed
  BY <1>1, <1>8 DEF Owed, Enqueuing, Scanning
<1>10. MainAgrees' /\ PendingCounts'
  BY <1>1, <1>8, <1>9 DEF MainAgrees, PendingCounts, waitVars, Scanning, Enqueuing,
     Quiet, PipelineInv, Tasks
<1>11. UNCHANGED CP!vars
  BY <1>1, <1>3, <1>8, SameUse, Stutter
<1> QED BY <1>4, <1>5, <1>6, <1>7, <1>9, <1>10, <1>11 DEF Tasks
-----------------------------------------------------------------------------
(***************************************************************************)
(* The operations of the tasks.                                            *)
(***************************************************************************)
\* A step that submits and finishes no operation keeps the counts of the tasks that
\* are not new.
LEMMA CountsKept ==
  ASSUME OpsCounted, UNCHANGED opVars,
         \A n \in (newQ \cup Submitting)' :
           \/ task'[n].pend = NumOps(n)'
           \/ /\ n \in newQ \cup Submitting /\ task'[n].pend = task[n].pend
              /\ NeedsSm(n)' = NeedsSm(n),
         \A n \in sched' : task'[n].ptrs /= "none" =>
           /\ n \in sched /\ task'[n].ptrs = task[n].ptrs /\ task'[n].pend = task[n].pend
           /\ NeedsSm(n)' = NeedsSm(n)
  PROVE  OpsCounted'
<1>1. LiveOnce'
  BY DEF OpsCounted, LiveOnce, opVars
<1>2. \A n : Ops(n)' = Ops(n)
  BY DEF Ops, opVars
<1>3. ASSUME NEW n \in Nodes PROVE CountedAt(n)'
  <2>1. CountedAt(n)
    BY DEF OpsCounted
  <2>2. n \in (newQ \cup Submitting)' => task'[n].pend = NumOps(n)'
    BY <2>1 DEF CountedAt, NumOps
  <2>3. ASSUME n \in sched', task'[n].ptrs /= "none"
        PROVE  /\ IsFiniteSet(Ops(n)') /\ task'[n].pend /= 0
               /\ task'[n].pend = Cardinality(Ops(n)') + NotSubmitted(n)'
    BY <1>2, <2>1, <2>3 DEF CountedAt, NotSubmitted
  <2> QED BY <2>2, <2>3 DEF CountedAt
<1> QED BY <1>1, <1>3 DEF OpsCounted

\* The steps of the main thread that submit nothing.
LEMMA MainCounts ==
  ASSUME PipelineInv, ~aborted,
         \/ Dispatch \/ EnqueueDecide \/ OpsSchedule \/ CancelDone \/ ScheduleDone
         \/ WaitReturns \/ WaitDoze \/ WaitSleep \/ SpuriousWake \/ SubmitDone
         \/ EnqueueScanScheduled \/ EnqueueScanReady \/ EnqueueLock
         \/ (\E n \in Nodes : SubmitLock(n)) \/ SubmitResident
  PROVE  OpsCounted'
<1>1. /\ OpsCounted /\ newQ \subseteq locked /\ sched \subseteq locked /\ Submitting \subseteq locked
      /\ task \in [Nodes -> TaskRecords] /\ locked \subseteq Nodes
  BY CacheFacts DEF PipelineInv, Tasks, Types, Placed
<1>2. CASE \/ Dispatch \/ EnqueueDecide \/ OpsSchedule \/ CancelDone \/ ScheduleDone
           \/ WaitReturns \/ WaitDoze \/ WaitSleep \/ SpuriousWake \/ SubmitDone
  <2>1. UNCHANGED <<cacheVars, taskVars, opVars>> /\ pc' /= "submit"
    BY <1>2 DEF Dispatch, EnqueueDecide, OpsSchedule, CancelDone, ScheduleDone,
       WaitReturns, WaitDoze, WaitSleep, SpuriousWake, SubmitDone, WaitMove
  <2> QED BY <1>1, <2>1, CountsKept DEF Submitting, NeedsSm, cacheVars, taskVars
<1>3. CASE EnqueueScanScheduled \/ EnqueueScanReady
  <2>1. /\ pc \in Scanning /\ pc' /= "submit"
        /\ UNCHANGED <<newQ, sched, opVars>>
        /\ task' = task \/ task' = [task EXCEPT ![cur].state = "NORMAL", ![cur].hit = TRUE]
        /\ UNCHANGED cacheVars \/ UpdateOnHit(cur, 1)
    BY <1>3 DEF EnqueueScanScheduled, EnqueueScanReady, Promote, Scanning
  <2>2. cur \in Nodes
    BY <2>1 DEF PipelineInv, Tasks, MainAgrees, LayerNodes
  <2>3. \A n \in Nodes : NeedsSm(n)' = NeedsSm(n)
    BY <2>1, <2>2, HitKeeps DEF PipelineInv, NeedsSm, cacheVars
  <2>4. \A n \in Nodes : task'[n].pend = task[n].pend /\ task'[n].ptrs = task[n].ptrs
    BY <1>1, <2>1, <2>2 DEF TaskRecords
  <2> QED BY <1>1, <2>1, <2>3, <2>4, CountsKept DEF Submitting
<1>4. CASE EnqueueLock
  <2>1. /\ pc' /= "submit" /\ UNCHANGED <<node, sched, opVars>> /\ newQ' \subseteq newQ \cup {cur}
        /\ \E state : task' = [task EXCEPT ![cur] = NewTask(cur, state)]
    BY <1>4 DEF EnqueueLock
  <2>2. cur \in Nodes /\ cur \notin locked
    BY <1>4 DEF EnqueueLock, PipelineInv, Tasks, MainAgrees, Scanning, LayerNodes
  <2>3. /\ \A n \in Nodes \ {cur} : task'[n] = task[n]
        /\ task'[cur].pend = NumOps(cur)
    BY <1>1, <2>1, <2>2 DEF NewTask
  <2> QED BY <1>1, <2>1, <2>2, <2>3, CountsKept DEF Submitting, NeedsSm, NumOps
<1>5. ASSUME NEW n \in Nodes, SubmitLock(n) PROVE OpsCounted'
  <2>1. /\ pc' = "submit" /\ cur' = n /\ UNCHANGED <<node, sched, newQ, opVars>>
        /\ task' = [task EXCEPT ![n] = NewTask(n, "PREFETCH")] /\ n \notin locked
    BY <1>5 DEF SubmitLock
  <2>2. /\ \A m \in Nodes \ {n} : task'[m] = task[m]
        /\ task'[n].pend = NumOps(n)
    BY <1>1, <2>1 DEF NewTask
  <2> QED BY <1>1, <2>1, <2>2, CountsKept DEF Submitting, NeedsSm, NumOps
<1>6. CASE SubmitResident
  <2>1. /\ pc' /= "submit" /\ UNCHANGED <<cacheVars, task, newQ, sched, opVars>>
    BY <1>6 DEF SubmitResident
  <2> QED BY <1>1, <2>1, CountsKept DEF Submitting, NeedsSm, cacheVars
<1> QED BY <1>2, <1>3, <1>4, <1>5, <1>6

\* The thread that fetches and the one that executes submit nothing either.
LEMMA ServeCounts ==
  ASSUME PipelineInv, ~aborted, Fetch \/ ExecStart \/ ExecFinish
  PROVE  OpsCounted'
<1>1. /\ OpsCounted /\ newQ \subseteq Nodes /\ sched \subseteq Nodes /\ Submitting \subseteq Nodes
      /\ task \in [Nodes -> TaskRecords] /\ node \in [Nodes -> NodeRecords]
  BY CacheFacts DEF PipelineInv, Tasks, Types, Submitting
<1>2. CASE ExecStart
  BY <1>1, <1>2, CountsKept DEF ExecStart, Submitting, NeedsSm, cacheVars, mainVars
<1>3. CASE Fetch
  <2> DEFINE n == Head(readyQ)
  <2>1. n \in Nodes /\ n \notin newQ \cup sched \cup Submitting
    BY <1>3, TailFacts DEF Fetch, PipelineInv, Tasks, Types, Placed, Ready
  <2>2. /\ UNCHANGED <<newQ, sched, pc, cur, opVars>>
        /\ task' = task \/ task' = [task EXCEPT ![n] = NoTask]
        /\ node' = node \/ \E r : node' = [node EXCEPT ![n] = r]
    BY <1>3 DEF Fetch, FetchDevice, mainVars
  <2> HIDE DEF n
  <2>3. \A m \in Nodes \ {n} : task'[m] = task[m] /\ node'[m] = node[m]
    BY <1>1, <2>1, <2>2
  <2> QED BY <1>1, <2>1, <2>2, <2>3, CountsKept DEF Submitting, NeedsSm
<1>4. CASE ExecFinish
  <2> DEFINE n == running
  <2>1. n \in Nodes /\ n \notin newQ \cup sched \cup Submitting
    BY <1>4 DEF ExecFinish, PipelineInv, Tasks, Types, Placed
  <2>2. /\ UNCHANGED <<newQ, sched, cur, opVars>> /\ (pc' = pc \/ (pc = "asleep" /\ pc' = "wait"))
        /\ task' = task \/ task' = [task EXCEPT ![n] = NoTask]
        /\ node' = node \/ \E r : node' = [node EXCEPT ![n] = r]
    BY <1>4 DEF ExecFinish, FinishDevice
  <2>3. \A m \in Nodes \ {n} : task'[m] = task[m] /\ node'[m] = node[m]
    BY <1>1, <2>1, <2>2
  <2> QED BY <1>1, <2>1, <2>2, <2>3, CountsKept DEF Submitting, NeedsSm
<1> QED BY <1>2, <1>3, <1>4
\* The slots of a node agree with its use.
LEMMA AgreeFacts ==
  ASSUME CP!Inv, NEW n \in Nodes
  PROVE  /\ CP!GpuAgrees(UseOf(n), node[n], gpuPool.slotOf[n])
         /\ CP!SmAgrees(UseOf(n), node[n], smPool.slotOf[n])
         /\ gpuPool.slotOf[n] \in GpuSlots \cup {NoSlot} /\ DOMAIN gpuPool.node = GpuSlots
         /\ smPool.slotOf[n] \in SmSlots \cup {NoSlot} /\ DOMAIN smPool.node = SmSlots
<1>1. /\ gpuPool.slotOf \in [Nodes -> GpuSlots \cup {NoSlot}]
      /\ smPool.slotOf \in [Nodes -> SmSlots \cup {NoSlot}]
  BY DEF CP!Inv, CP!TypeOK, CP!CacheTypeOK, CP!Pools, CP!Slots, GpuSlots, SmSlots, Slots
<1>2. [m \in Nodes |-> UseOf(m)][n] = UseOf(n)
  OBVIOUS
<1> QED BY <1>1, <1>2, CacheFacts DEF CP!Inv, CP!GpuSlotsAgree, CP!SmSlotsAgree

\* A cancelled task is a prefetch with a GPU slot, so the cancellation never aborts.
LEMMA CancelFacts ==
  ASSUME PipelineInv, ~aborted, NEW n \in Nodes, CancelTask(n)
  PROVE  /\ aborted' = aborted /\ locked' = locked \ {n}
         /\ node' = [node EXCEPT ![n] = OnDisk(node[n])]
         /\ n \in locked /\ n \notin Demanded /\ UseOf(n) = "gpu"
         /\ n \notin newQ \cup Ready \cup Exec \cup {running} \cup Submitting
<1>1. /\ pc = "cancel" /\ n \in sched /\ ~task[n].hit /\ UnregisterCacheSlotForNode(n)
      /\ locked' = IF aborted' THEN locked ELSE locked \ {n}
  BY DEF CancelTask
<1>2. /\ n \in locked /\ n \notin Exec /\ running /= n
      /\ n \notin newQ \cup Ready \cup Exec \cup {running} \cup Submitting
  BY <1>1 DEF PipelineInv, Tasks, Placed
<1>3. task[n].state = "PREFETCH" /\ task[n].ptrs = "gpu"
  BY <1>1, <1>2 DEF PipelineInv, Tasks, Staged, StagedAt, Stopped, Staging, HasTask,
     Placed, Tasked
<1>4. UseOf(n) = "gpu" /\ n \notin Demanded
  BY <1>2, <1>3, InSeqSet DEF UseOf, Exec, Demanded
<1>5. CanEvict(gpuPool, gpuPool.slotOf[n])
  BY <1>4, AgreeFacts DEF PipelineInv, CP!GpuAgrees, CanEvict
<1> QED BY <1>1, <1>2, <1>4, <1>5 DEF UnregisterCacheSlotForNode

LEMMA CancelCounts ==
  ASSUME PipelineInv, ~aborted, NEW n \in Nodes, CancelTask(n)
  PROVE  OpsCounted'
<1>1. /\ work' = [w \in Workers |->
                IF work[w].node = n THEN [work[w] EXCEPT !.live = FALSE] ELSE work[w]]
      /\ opQ' = {o \in opQ : o.node /= n} /\ task' = [task EXCEPT ![n] = NoTask]
      /\ sched' = sched \ {n} /\ newQ' = newQ /\ pc' = pc /\ cur' = cur
      /\ task \in [Nodes -> TaskRecords] /\ OpsCounted
      /\ work \in [Workers -> OpRecords \cup {NoOp}] /\ node \in [Nodes -> NodeRecords]
  BY CacheFacts DEF CancelTask, mainVars, PipelineInv, Tasks, Types
<1>2. \A w \in Workers :
        IF work[w].node = n THEN ~work'[w].live ELSE work'[w] = work[w]
  BY <1>1 DEF OpRecords, NoOp
<1>3. LiveOnce'
  BY <1>1, <1>2 DEF OpsCounted, LiveOnce
<1>4. ASSUME NEW m \in Nodes PROVE CountedAt(m)'
  <2>1. CASE m = n
    BY <1>1, <2>1, CancelFacts DEF CountedAt, Submitting
  <2>2. CASE m /= n
    <3>1. Ops(m)' = Ops(m)
      BY <1>1, <1>2, <2>2 DEF Ops
    <3>2. task'[m] = task[m] /\ node'[m] = node[m]
      BY <1>1, <2>2, CancelFacts
    <3>3. CountedAt(m)
      BY <1>1 DEF OpsCounted
    <3> QED BY <1>1, <2>2, <3>1, <3>2, <3>3
            DEF CountedAt, Submitting, NotSubmitted, NumOps, NeedsSm
  <2> QED BY <2>1, <2>2
<1> QED BY <1>3, <1>4 DEF OpsCounted

LEMMA CancelTaskStep ==
  ASSUME PipelineInv, ~aborted, NEW n \in Nodes, CancelTask(n)
  PROVE  Tasks' /\ CP!Next /\ Owed' = Owed
<1>1. /\ pc = "cancel" /\ n \in sched /\ sched' = sched \ {n}
      /\ task' = [task EXCEPT ![n] = NoTask]
      /\ opQ' = {o \in opQ : o.node /= n}
      /\ work' = [w \in Workers |->
                IF work[w].node = n THEN [work[w] EXCEPT !.live = FALSE] ELSE work[w]]
      /\ UNCHANGED <<smPool, gpuMeta, smMeta, now>>
      /\ UNCHANGED <<pc, layer, request, todo, cur, decision, newQ, readyQ, execQ, running>>
      /\ pending' = pending /\ UnregisterCacheSlotForNode(n)
  BY DEF CancelTask, mainVars, waitVars
<1>2. task'[n] = NoTask /\ \A m \in Nodes \ {n} : task'[m] = task[m]
  BY <1>1 DEF PipelineInv, Tasks, Types
<1>3. \A m \in Nodes \ {n} : Resident(m)' = Resident(m)
  BY CancelFacts, CacheFacts DEF PipelineInv, Resident
<1>4. Ready' = Ready /\ Exec' = Exec /\ Submitting' = {} /\ Submitting = {}
  BY <1>1 DEF Ready, Exec, Submitting
<1>5. Demanded' = Demanded
  BY <1>2, CancelFacts, CacheFacts DEF Demanded, PipelineInv
<1>6. Types'
  <2>1. task' \in [Nodes -> TaskRecords]
    BY <1>1 DEF PipelineInv, Tasks, Types, TaskRecords, NoTask
  <2>2. opQ' \subseteq OpRecords
    BY <1>1 DEF PipelineInv, Tasks, Types
  <2>3. work' \in [Workers -> OpRecords \cup {NoOp}]
    <3> SUFFICES ASSUME NEW w \in Workers PROVE work'[w] \in OpRecords \cup {NoOp}
      BY <1>1
    <3>1. work[w] \in OpRecords \cup {NoOp}
      BY DEF PipelineInv, Tasks, Types
    <3>2. work[w].node = n => work[w] \in OpRecords
      BY <3>1, NoNodeAssumption DEF NoOp
    <3>3. work[w] \in OpRecords => [work[w] EXCEPT !.live = FALSE] \in OpRecords
      BY DEF OpRecords
    <3> QED BY <1>1, <3>1, <3>2, <3>3
  <2> QED BY <1>1, <2>1, <2>2, <2>3 DEF PipelineInv, Tasks, Types
<1>7. Placed'
  <2>1. Tasked' = Tasked \ {n}
    BY <1>2 DEF Tasked, HasTask, NoTask
  <2> QED BY <1>1, <1>4, <2>1, CancelFacts DEF PipelineInv, Tasks, Placed
<1>8. Staged'
  <2> SUFFICES ASSUME NEW m \in Nodes PROVE StagedAt(m)'
    BY DEF Staged
  <2>1. StagedAt(m)
    BY DEF PipelineInv, Tasks, Staged
  <2>2. CASE m /= n
    BY <1>1, <1>2, <1>3, <1>4, <2>1, <2>2, CancelFacts
       DEF StagedAt, Stopped, HasTask, Unwound
  <2>3. CASE m = n
    BY <1>1, <1>2, <1>4, <2>3, CancelFacts
       DEF StagedAt, NoTask, HasTask, Unwound
  <2> QED BY <2>2, <2>3
<1>9. OpsServe'
  <2>1. \A o \in OpRecords \cup {NoOp} : Serves(o) /\ o.node /= n => Serves(o)'
    <3> SUFFICES ASSUME NEW o \in OpRecords \cup {NoOp}, Serves(o), o.node /= n, o.live
                 PROVE  Serves(o)'
      BY DEF Serves
    <3>1. o.node \in sched' /\ o.node \in Nodes \ {n}
      BY <1>1 DEF Serves, NoOp, OpRecords
    <3> QED BY <1>2, <3>1, CancelFacts DEF Serves
  <2>2. ASSUME NEW w \in Workers PROVE Serves(work[w])'
    <3>1. work[w] \in OpRecords \cup {NoOp} /\ Serves(work[w])
      BY DEF PipelineInv, Tasks, Types, OpsServe
    <3>2. CASE work[w].node = n
      <4>1. ~work'[w].live
        BY <1>1, <3>1, <3>2 DEF OpRecords, NoOp
      <4> QED BY <4>1 DEF Serves
    <3>3. CASE work[w].node /= n
      BY <1>1, <2>1, <3>1, <3>3
    <3> QED BY <3>2, <3>3
  <2>3. \A o \in opQ' : o.live /\ Serves(o)'
    BY <1>1, <2>1 DEF PipelineInv, Tasks, Types, OpsServe
  <2> QED BY <2>2, <2>3 DEF OpsServe
<1>10. Owed' = Owed
  BY <1>1, <1>5 DEF Owed
<1>11. MainAgrees' /\ PendingCounts'
  BY <1>1, <1>5, <1>10 DEF MainAgrees, PendingCounts, Scanning, Enqueuing, Quiet,
     PipelineInv, Tasks
<1>12. CP!Next
  <2>1. UseOf(n)' = "idle"
    BY CancelFacts DEF UseOf
  <2>2. \A m \in Nodes \ {n} : UseOf(m)' = UseOf(m)
    BY <1>1, <1>2, <1>4, SameUse, CancelFacts
  <2>3. [m \in Nodes |-> UseOf(m)]' = [[m \in Nodes |-> UseOf(m)] EXCEPT ![n] = "idle"]
    BY <2>1, <2>2
  <2>4. [m \in Nodes |-> UseOf(m)][n] = "gpu"
    BY CancelFacts
  <2>5. CP!UnregisterCacheSlotForNode(n)
    BY <1>1, SameUnregister
  <2>6. CP!Cancel(n)
    BY <1>1, <1>5, <2>3, <2>4, <2>5, CancelFacts
       DEF CP!Cancel, CP!Unlock, CP!Becomes, Demanded
  <2> QED BY <2>6 DEF CP!Next, CP!TaskStep
<1> QED BY <1>6, <1>7, <1>8, <1>9, <1>10, <1>11, <1>12 DEF Tasks
-----------------------------------------------------------------------------
(***************************************************************************)
(* ToWorkers: the task of n is published and staged.                       *)
(***************************************************************************)
\* A task that is new, or that the main thread is submitting.
Unscheduled(n) == n \in newQ \cup Submitting /\ ~Resident(n)

LEMMA UnscheduledFacts ==
  ASSUME PipelineInv, NEW n \in Nodes, Unscheduled(n)
  PROVE  /\ n \in locked /\ n \notin sched \cup Ready \cup Exec \cup {running}
         /\ task[n].ptrs = "none" /\ task[n].state \in States /\ UseOf(n) = "held"
         /\ n \notin Demanded => task[n].state = "PREFETCH"
         /\ Ops(n) = {}
<1>1. n \in locked /\ n \notin sched \cup Ready \cup Exec \cup {running}
  BY DEF Unscheduled, PipelineInv, Tasks, Placed
<1>2. task[n].ptrs = "none"
  BY DEF Unscheduled, PipelineInv, Tasks, Staged, StagedAt
<1>3. task[n].state \in States
  BY <1>1 DEF Unscheduled, PipelineInv, Tasks, Types, TaskRecords, Placed, Tasked, HasTask
<1>4. Ops(n) = {}
  BY <1>1 DEF Ops, PipelineInv, Tasks, OpsServe, Serves
<1> QED BY <1>1, <1>2, <1>3, <1>4, InSeqSet DEF UseOf, Exec, Demanded

\* Staging is a step of the cache; it writes no node whose mutex is held.
LEMMA StageStep ==
  ASSUME PipelineInv, ~aborted, NEW n \in Nodes, Unscheduled(n), ToWorkers(n),
         UNCHANGED <<execQ, running>>
  PROVE  /\ CP!Next
         /\ locked' = locked /\ Demanded' = Demanded
         /\ \A m \in locked : node'[m] = node[m]
         /\ \A m \in Nodes \ {n} : task'[m] = task[m]
         /\ task'[n].state = task[n].state /\ task'[n].hit = task[n].hit
         /\ task'[n].pend = task[n].pend /\ task' \in [Nodes -> TaskRecords]
         /\ task'[n].ptrs = IF aborted' THEN "none" ELSE Staging(task[n].state)
<1> DEFINE how == Staging(task[n].state)
<1>1. /\ how \in {"gpu", "sm", "dock"} /\ task[n].state /= "none"
      /\ how = "gpu" <=> task[n].state \in {"NORMAL", "PREFETCH"}
  BY UnscheduledFacts DEF Staging, States
<1>2. /\ task' = IF aborted' THEN task ELSE [task EXCEPT ![n].ptrs = how]
      /\ CASE how = "dock" -> UNCHANGED cacheVars
           [] how = "sm"   -> RegisterSMCacheForNode(n)
           [] how = "gpu"  -> RegisterCacheSlotForNode(n)
  BY DEF ToWorkers
<1> HIDE DEF how
<1>3. locked' = locked /\ \A m \in locked : node'[m] = node[m]
  <2>1. CASE how = "gpu"
    BY <1>2, <2>1, RegisterGpuKeeps DEF PipelineInv
  <2>2. CASE how = "sm"
    BY <1>2, <2>2, RegisterSmKeeps DEF PipelineInv
  <2>3. CASE how = "dock"
    BY <1>2, <2>3 DEF cacheVars
  <2> QED BY <1>1, <2>1, <2>2, <2>3
<1>4. /\ \A m \in Nodes \ {n} : task'[m] = task[m]
      /\ task'[n].state = task[n].state /\ task'[n].hit = task[n].hit
      /\ task'[n].pend = task[n].pend /\ task' \in [Nodes -> TaskRecords]
      /\ task'[n].ptrs = IF aborted' THEN "none" ELSE how
  BY <1>1, <1>2, UnscheduledFacts DEF PipelineInv, Tasks, Types, TaskRecords
<1>5. Demanded' = Demanded
  BY <1>3, <1>4, CacheFacts DEF Demanded, PipelineInv
<1>6. [m \in Nodes |-> UseOf(m)]' = IF aborted' THEN [m \in Nodes |-> UseOf(m)]
                                    ELSE [[m \in Nodes |-> UseOf(m)] EXCEPT ![n] = how]
  <2>1. \A m \in Nodes \ {n} : UseOf(m)' = UseOf(m)
    BY <1>3, <1>4, SameUse DEF Exec
  <2>2. UseOf(n)' = IF aborted' THEN "held" ELSE how
    <3>1. n \in locked' /\ n /= running' /\ ~InSeq(n, execQ)'
      BY <1>3, UnscheduledFacts, InSeqSet DEF Exec, InSeq
    <3> QED BY <1>1, <1>4, <3>1 DEF UseOf
  <2> QED BY <2>1, <2>2, UnscheduledFacts
<1>7. CP!Next
  <2>1. [m \in Nodes |-> UseOf(m)][n] = "held" /\ ~CP!Resident(n)
    BY UnscheduledFacts DEF Unscheduled, Resident, CP!Resident
  <2>2. CASE how = "gpu"
    <3>1. CP!StageGpu(n)
      BY <1>2, <1>5, <1>6, <2>1, <2>2, SameRegisterGpu
         DEF CP!StageGpu, CP!Becomes, Demanded
    <3> QED BY <3>1 DEF CP!Next, CP!TaskStep
  <2>3. CASE how = "sm"
    <3>1. CP!StageSm(n)
      BY <1>1, <1>2, <1>5, <1>6, <2>1, <2>3, SameRegisterSm, UnscheduledFacts
         DEF CP!StageSm, CP!Becomes, Demanded
    <3> QED BY <3>1 DEF CP!Next, CP!TaskStep
  <2>4. CASE how = "dock"
    <3>1. UNCHANGED CP!cacheVars
      BY <1>2, <2>4 DEF cacheVars, CP!cacheVars
    <3>2. CP!StageDock(n)
      BY <1>1, <1>5, <1>6, <2>1, <2>4, <3>1, UnscheduledFacts
         DEF CP!StageDock, CP!Becomes, Demanded
    <3> QED BY <3>2 DEF CP!Next, CP!TaskStep
  <2> QED BY <1>1, <2>2, <2>3, <2>4
<1> QED BY <1>3, <1>4, <1>5, <1>7 DEF how
\* The operations ToWorkers submits, one for each part.
SubmittedOps(n, d) ==
  {[node |-> n, part |-> p, dock |-> d, live |-> TRUE] : p \in Submitted(n)}

LEMMA SubmittedCount ==
  ASSUME NEW n, NEW d
  PROVE  /\ IsFiniteSet(SubmittedOps(n, d))
         /\ NumOps(n) = Cardinality(SubmittedOps(n, d)) + NotSubmitted(n)
         /\ NumOps(n) /= 0
<1> DEFINE Rec(p) == [node |-> n, part |-> p, dock |-> d, live |-> TRUE]
           f == [p \in Submitted(n) |-> Rec(p)]
<1>1. ASSUME NEW p \in Submitted(n), NEW q \in Submitted(n), Rec(p) = Rec(q) PROVE p = q
  <2>1. Rec(p).part = p /\ Rec(q).part = q
    OBVIOUS
  <2> QED BY <1>1, <2>1
<1>2. f \in Bijection(Submitted(n), SubmittedOps(n, d))
  <2>1. f \in [Submitted(n) -> SubmittedOps(n, d)]
    BY DEF SubmittedOps
  <2>2. f \in Injection(Submitted(n), SubmittedOps(n, d))
    BY <1>1, <2>1 DEF Injection, IsInjective
  <2>3. \A o \in SubmittedOps(n, d) : \E p \in Submitted(n) : f[p] = o
    BY DEF SubmittedOps
  <2> QED BY <2>1, <2>2, <2>3 DEF Surjection, Bijection
<1>3. /\ IsFiniteSet(Submitted(n))
      /\ NumOps(n) = Cardinality(Submitted(n)) + NotSubmitted(n) /\ NumOps(n) /= 0
  <2>1. /\ Cardinality(ExpOps) \in Nat \ {0} /\ Cardinality(SmOps) \in Nat
        /\ IsFiniteSet(ExpOps) /\ IsFiniteSet(SmOps)
    BY PipelineAssumptions, FS_CardinalityType, FS_EmptySet
  <2>2. /\ IsFiniteSet(ExpOps \cup SmOps)
        /\ Cardinality(ExpOps \cup SmOps) = Cardinality(ExpOps) + Cardinality(SmOps)
    <3>1. ExpOps \cap SmOps = {}
      BY PipelineAssumptions
    <3> QED BY <2>1, <3>1, FS_Union, FS_EmptySet
  <2>3. CASE NeedsSm(n) /\ ~IsLut
    BY <2>1, <2>2, <2>3 DEF Submitted, NumOps, NotSubmitted
  <2>4. CASE ~(NeedsSm(n) /\ ~IsLut)
    <3>1. Submitted(n) = ExpOps
      BY <2>4 DEF Submitted
    <3> QED BY <2>1, <2>4, <3>1 DEF NumOps, NotSubmitted
  <2> QED BY <2>3, <2>4
<1>4. /\ IsFiniteSet(SubmittedOps(n, d))
      /\ Cardinality(SubmittedOps(n, d)) = Cardinality(Submitted(n))
  BY <1>2, <1>3, FS_Bijection DEF ExistsBijection
<1> QED BY <1>3, <1>4

\* The last element, which a LIFO list gives out, and what is left.
LEMMA LastFacts ==
  ASSUME NEW S, NEW q \in Seq(S), q /= <<>>
  PROVE  LET r == SubSeq(q, 1, Len(q) - 1) IN
         /\ Len(q) \in Nat \ {0} /\ q[Len(q)] \in S
         /\ r \in Seq(S) /\ Len(r) = Len(q) - 1
         /\ \A i \in 1 .. Len(r) : r[i] = q[i]
<1>1. Len(q) \in Nat /\ Len(q) > 0
  OBVIOUS
<1>2. q[Len(q)] \in S
  BY <1>1
<1> DEFINE k == Len(q) - 1
<1>3. k \in Nat /\ k < Len(q)
  BY <1>1
<1> HIDE DEF k
<1>4. SubSeq(q, 1, k) \in Seq(S)
  BY <1>3
<1>5. Len(SubSeq(q, 1, k)) = k
  BY <1>3
<1>6. \A i \in 1 .. k : SubSeq(q, 1, k)[i] = q[i]
  BY <1>3
<1> QED BY <1>1, <1>2, <1>4, <1>5, <1>6 DEF k

\* A dock is taken from those that are free.
LEMMA RegisterDockFacts ==
  ASSUME PipelineInv, NEW n \in Nodes, freeDocks /= <<>>, RegisterDock(n)
  PROVE  DocksTyped' /\ dockOf'[n] \in 0 .. NumDocks - 1
<1>1. DocksTyped
  BY DEF PipelineInv
<1>2. CASE dockOf[n] /= NoSlot
  BY <1>1, <1>2 DEF RegisterDock, DocksTyped
<1>3. CASE dockOf[n] = NoSlot
  <2>1. /\ dockOf' = [dockOf EXCEPT ![n] = freeDocks[Len(freeDocks)]]
        /\ freeDocks' = SubSeq(freeDocks, 1, Len(freeDocks) - 1)
    BY <1>3 DEF RegisterDock
  <2>2. /\ freeDocks[Len(freeDocks)] \in 0 .. NumDocks - 1
        /\ SubSeq(freeDocks, 1, Len(freeDocks) - 1) \in Seq(0 .. NumDocks - 1)
    BY <1>1, LastFacts DEF DocksTyped
  <2> QED BY <1>1, <2>1, <2>2 DEF DocksTyped
<1> QED BY <1>2, <1>3

\* What ToWorkers means to the queues and the operations, on both paths that call it.
LEMMA ToWorkersStep ==
  ASSUME PipelineInv, ~aborted, NEW n \in Nodes, Unscheduled(n), ToWorkers(n),
         newQ' = newQ \ {n}, pc \in {"typeI", "toWorkers", "submit"},
         pc' = IF pc = "submit" THEN "prefetch" ELSE "toWorkers",
         UNCHANGED <<layer, request, todo, cur, decision, readyQ, execQ, running, pending>>
  PROVE  Tasks' /\ OpsCounted' /\ DocksTyped' /\ CP!Next /\ Owed' = Owed
<1> DEFINE new == SubmittedOps(n, dockOf'[n])
<1>1. /\ sched' = sched \cup {n} /\ opQ' = opQ \cup new /\ work' = work
      /\ freeDocks /= <<>> /\ RegisterDock(n)
  BY DEF ToWorkers, SubmittedOps
<1>2. /\ locked' = locked /\ Demanded' = Demanded
      /\ \A m \in locked : node'[m] = node[m]
      /\ \A m \in Nodes \ {n} : task'[m] = task[m]
      /\ task'[n].state = task[n].state /\ task'[n].hit = task[n].hit
      /\ task'[n].pend = task[n].pend /\ task' \in [Nodes -> TaskRecords]
      /\ task'[n].ptrs = IF aborted' THEN "none" ELSE Staging(task[n].state)
  BY StageStep
<1>3. /\ n \in locked /\ n \notin sched \cup Ready \cup Exec \cup {running}
      /\ task[n].state \in States /\ task[n].ptrs = "none"
  BY UnscheduledFacts
<1>4. Ready' = Ready /\ Exec' = Exec /\ Submitting' = {} /\ Submitting \subseteq {n}
  BY DEF Ready, Exec, Submitting, Unscheduled, PipelineInv, Tasks, MainAgrees, Quiet
<1>5. new \subseteq OpRecords /\ \A o \in new : o.node = n /\ o.live
  <2>1. dockOf'[n] \in 0 .. NumDocks - 1 /\ Submitted(n) \subseteq ExpOps \cup SmOps
    BY <1>1, RegisterDockFacts DEF Submitted
  <2>2. \A p \in Submitted(n) :
          [node |-> n, part |-> p, dock |-> dockOf'[n], live |-> TRUE] \in OpRecords
    BY <2>1 DEF OpRecords
  <2> QED BY <2>2 DEF SubmittedOps
<1> HIDE DEF new
<1>6. Types'
  BY <1>1, <1>2, <1>5 DEF PipelineInv, Tasks, Types, PCs
<1>7. Placed'
  <2>1. Tasked' = Tasked
    BY <1>2 DEF Tasked, HasTask
  <2>2. n \in newQ \cup Submitting
    BY DEF Unscheduled
  <2>3. pc /= "raised" /\ pc' /= "raised"
    OBVIOUS
  <2> QED BY <1>1, <1>2, <1>3, <1>4, <2>1, <2>2, <2>3 DEF PipelineInv, Tasks, Placed
<1>8. Staged'
  <2> SUFFICES ASSUME NEW m \in Nodes PROVE StagedAt(m)'
    BY DEF Staged
  <2>1. StagedAt(m) /\ newQ \cup sched \cup Ready \subseteq locked
    BY DEF PipelineInv, Tasks, Staged, Placed
  <2>2. CASE m /= n
    <3>1. m \in locked => Resident(m)' = Resident(m)
      BY <1>2 DEF Resident
    <3> QED BY <1>1, <1>2, <1>4, <2>1, <2>2, <3>1
            DEF StagedAt, Stopped, HasTask, Unwound
  <2>3. CASE m = n
    <3>1. ~Resident(n)'
      BY <1>2, <1>3 DEF Resident, Unscheduled
    <3>2. m \notin newQ' /\ m \notin Ready' /\ m \notin Exec' /\ m /= running' /\ m \notin Submitting'
      BY <1>3, <1>4, <2>3
    <3>3. task'[m].ptrs = "none" => Stopped'
      BY <1>2, <1>3, <2>3 DEF Stopped, Staging, States
    <3> QED BY <1>2, <1>3, <2>1, <2>3, <3>1, <3>2, <3>3
            DEF StagedAt, HasTask, Unwound
  <2> QED BY <2>2, <2>3
<1>9. OpsServe'
  <2>1. task'[n].ptrs /= "none" \/ aborted'
    BY <1>2, <1>3 DEF Staging, States
  <2>2. \A o \in OpRecords \cup {NoOp} : Serves(o) => Serves(o)'
    <3> SUFFICES ASSUME NEW o \in OpRecords \cup {NoOp}, Serves(o), o.live PROVE Serves(o)'
      BY DEF Serves
    <3>1. o.node \in sched /\ o.node \in Nodes \ {n} /\ task[o.node].ptrs /= "none"
      BY <1>3 DEF Serves, NoOp, OpRecords
    <3> QED BY <1>1, <1>2, <3>1 DEF Serves
  <2>3. \A o \in new : o.live /\ Serves(o)'
    BY <1>1, <1>5, <2>1 DEF Serves
  <2> QED BY <1>1, <2>2, <2>3 DEF PipelineInv, Tasks, OpsServe, Types
<1>10. Owed' = Owed
  BY <1>2 DEF Owed, Enqueuing, Scanning
<1>11. MainAgrees' /\ PendingCounts'
  BY <1>2, <1>10 DEF MainAgrees, PendingCounts, Scanning, Enqueuing, Quiet,
     PipelineInv, Tasks
<1>12. OpsCounted'
  <2>1. LiveOnce'
    <3>1. \A w \in Workers : work[w].live => work[w].node /= n
      BY <1>3 DEF PipelineInv, Tasks, OpsServe, Serves
    <3> QED BY <1>1, <1>5, <3>1 DEF PipelineInv, OpsCounted, LiveOnce
  <2>2. ASSUME NEW m \in Nodes PROVE CountedAt(m)'
    <3>1. CASE m /= n
      <4>1. Ops(m)' = Ops(m)
        BY <1>1, <1>5, <3>1 DEF Ops
      <4>2. task'[m] = task[m] /\ (m \in newQ \cup sched => node'[m] = node[m])
        BY <1>2, <3>1 DEF PipelineInv, Tasks, Placed
      <4>3. CountedAt(m)
        BY DEF PipelineInv, OpsCounted
      <4> QED BY <1>1, <1>4, <3>1, <4>1, <4>2, <4>3 DEF CountedAt, NotSubmitted, NumOps, NeedsSm
    <3>2. CASE m = n
      <4>1. Ops(n)' = new
        <5>1. Ops(n) = {}
          BY UnscheduledFacts
        <5> QED BY <1>1, <1>5, <5>1 DEF Ops
      <4>2. /\ IsFiniteSet(new) /\ NumOps(n) /= 0
            /\ NumOps(n) = Cardinality(new) + NotSubmitted(n)
        BY SubmittedCount DEF new
      <4>3. task'[n].pend = NumOps(n)
        BY <1>2 DEF PipelineInv, OpsCounted, CountedAt, Unscheduled
      <4>4. NotSubmitted(n)' = NotSubmitted(n)
        BY <1>2, <1>3 DEF NotSubmitted, NeedsSm
      <4>5. n \notin newQ' /\ n \notin Submitting'
        BY <1>4
      <4> QED BY <3>2, <4>1, <4>2, <4>3, <4>4, <4>5 DEF CountedAt
    <3> QED BY <3>1, <3>2
  <2> QED BY <2>1, <2>2 DEF OpsCounted
<1>13. CP!Next /\ DocksTyped'
  BY <1>1, StageStep, RegisterDockFacts
<1> QED BY <1>6, <1>7, <1>8, <1>9, <1>10, <1>11, <1>12, <1>13 DEF Tasks

\* The tasks the unwinding destroys are new ones: nothing that is scheduled or ready
\* is touched, and what was demanded still is.
LEMMA UnwindKeeps ==
  ASSUME PipelineInv, NEW n \in Nodes, Unscheduled(n), NoDockLeft(n), Unwind(newQ \ {n})
  PROVE  /\ locked' = locked /\ Demanded' = Demanded
         /\ \A m \in sched \cup Ready \cup {n} : task'[m] = task[m]
<1>1. /\ locked' = locked /\ locked \subseteq Nodes
      /\ task' = [m \in Nodes |-> IF m \in newQ \ {n} THEN NoTask ELSE task[m]]
  BY CacheFacts DEF NoDockLeft, Unwind, cacheVars, PipelineInv
<1>2. /\ sched \cup Ready \subseteq Nodes \ newQ
      /\ \A m \in newQ : task[m].state /= "PREFETCH"
  BY QueueFacts DEF PipelineInv, Tasks, Types, Placed, Staged, StagedAt
<1>3. Demanded' = Demanded
  BY <1>1, <1>2 DEF Demanded, NoTask
<1> QED BY <1>1, <1>2, <1>3

\* Without a free dock an exception unwinds the main thread; the task stays behind.
LEMMA NoDockStep ==
  ASSUME PipelineInv, ~aborted, NEW n \in Nodes, Unscheduled(n), NoDockLeft(n),
         Unwind(newQ \ {n}), pc \in {"typeI", "toWorkers", "submit"},
         UNCHANGED <<layer, request, todo, cur, decision, readyQ, execQ, running, pending>>
  PROVE  Tasks' /\ OpsCounted' /\ UNCHANGED CP!vars /\ Owed' = Owed
<1> DEFINE lost == newQ \ {n}
<1>1. /\ sched' = sched \cup {n} /\ pc' = "raised" /\ UNCHANGED <<cacheVars, opVars>>
      /\ newQ' = {} /\ task' = [m \in Nodes |-> IF m \in lost THEN NoTask ELSE task[m]]
  BY DEF NoDockLeft, Unwind
<1>2. /\ n \in locked /\ n \notin sched \cup Ready \cup Exec \cup {running}
      /\ task[n].ptrs = "none"
  BY UnscheduledFacts
<1>3. Ready' = Ready /\ Exec' = Exec /\ Submitting' = {} /\ Submitting \subseteq {n}
  BY <1>1 DEF Ready, Exec, Submitting, Unscheduled, PipelineInv, Tasks, MainAgrees, Quiet
<1>a. /\ task' \in [Nodes -> TaskRecords]
      /\ \A m \in Nodes \ lost : task'[m] = task[m]
      /\ \A m \in lost : task'[m] = NoTask
      /\ lost \subseteq Nodes /\ lost \subseteq locked /\ n \notin lost
      /\ lost \cap (sched \cup Ready \cup Exec \cup {running} \cup Submitting) = {}
  <2>1. task \in [Nodes -> TaskRecords] /\ NoTask \in TaskRecords /\ newQ \subseteq Nodes
    BY DEF PipelineInv, Tasks, Types, NoTask, TaskRecords
  <2>2. /\ newQ \subseteq locked
        /\ newQ \cap (sched \cup Ready \cup Exec \cup {running} \cup Submitting) = {}
    BY DEF PipelineInv, Tasks, Placed
  <2> QED BY <1>1, <2>1, <2>2
<1>b. \A m \in lost : m \in request /\ ~Resident(m) /\ task[m].state /= "PREFETCH"
  BY <1>a DEF PipelineInv, Tasks, MainAgrees, Staged, StagedAt
<1> HIDE DEF lost
<1>c. newQ \subseteq lost \cup {n} /\ n \in newQ \cup Submitting
  BY DEF Unscheduled, lost
<1>4. locked' = locked /\ Demanded' = Demanded /\ aborted' = aborted
  <2>1. locked' = locked /\ aborted' = aborted /\ locked \subseteq Nodes
    BY <1>1, CacheFacts DEF cacheVars, PipelineInv
  <2> QED BY <1>a, <1>b, <2>1 DEF Demanded, NoTask
<1>5. Types'
  BY <1>1, <1>a DEF PipelineInv, Tasks, Types, PCs, opVars
<1>6. Placed'
  <2>1. Tasked' = Tasked \ lost
    BY <1>a DEF Tasked, HasTask, NoTask
  <2>2. newQ \ lost \subseteq {n}
    BY <1>c
  <2> QED BY <1>1, <1>2, <1>3, <1>4, <1>a, <1>c, <2>1, <2>2 DEF PipelineInv, Tasks, Placed
<1>7. Staged'
  <2> SUFFICES ASSUME NEW m \in Nodes PROVE StagedAt(m)'
    BY DEF Staged
  <2>1. StagedAt(m) /\ Resident(m)' = Resident(m)
    BY <1>1 DEF PipelineInv, Tasks, Staged, Resident, cacheVars
  <2>2. CASE m \in lost
    BY <1>1, <1>3, <1>a, <1>b, <2>1, <2>2
       DEF StagedAt, Stopped, NoTask, HasTask, Unwound
  <2>3. CASE m \notin lost
    BY <1>1, <1>2, <1>3, <1>4, <1>a, <2>1, <2>3 DEF StagedAt, Stopped, HasTask, Unwound
  <2> QED BY <2>2, <2>3
<1>8. OpsServe'
  <2>1. \A o \in OpRecords \cup {NoOp} : Serves(o) => Serves(o)'
    <3> SUFFICES ASSUME NEW o \in OpRecords \cup {NoOp}, Serves(o), o.live PROVE Serves(o)'
      BY DEF Serves
    <3>1. o.node \in sched /\ o.node \in Nodes \ lost
      BY <1>a DEF Serves, NoOp, OpRecords
    <3> QED BY <1>1, <1>4, <1>a, <3>1 DEF Serves
  <2> QED BY <1>1, <2>1 DEF PipelineInv, Tasks, OpsServe, Types, opVars
<1>9. Owed' = Owed
  BY <1>1, <1>4 DEF Owed, Enqueuing, Scanning
<1>10. MainAgrees' /\ PendingCounts'
  BY <1>1, <1>4, <1>9 DEF MainAgrees, PendingCounts, Scanning, Enqueuing, Quiet,
     PipelineInv, Tasks
<1>11. OpsCounted'
  <2>1. \A m \in sched' : task'[m].ptrs /= "none" =>
          m \in sched /\ task'[m] = task[m] /\ NeedsSm(m)' = NeedsSm(m)
    <3>1. sched \subseteq Nodes \ lost
      BY <1>a DEF PipelineInv, Tasks, Types
    <3> QED BY <1>1, <1>2, <1>a, <3>1 DEF NeedsSm, cacheVars
  <2>2. (newQ \cup Submitting)' = {}
    BY <1>1, <1>3
  <2> QED BY <1>1, <2>1, <2>2, CountsKept DEF PipelineInv
<1>12. UNCHANGED CP!vars
  <2>1. ASSUME NEW m \in Nodes PROVE UseOf(m)' = UseOf(m)
    <3>1. CASE m \in lost
      <4>1. task[m].ptrs = "none" /\ task'[m].ptrs = "none"
        BY <1>a, <3>1 DEF PipelineInv, Tasks, Staged, StagedAt, NoTask, lost
      <4> QED BY <1>1, <1>3, <1>4, <1>a, <3>1, <4>1, InSeqSet DEF UseOf, Exec
    <3>2. CASE m \notin lost
      BY <1>3, <1>4, <1>a, <3>2, SameUse
    <3> QED BY <3>1, <3>2
  <2> QED BY <1>1, <1>4, <2>1, Stutter
<1> QED BY <1>5, <1>6, <1>7, <1>8, <1>9, <1>10, <1>11, <1>12 DEF Tasks

\* The two paths to the workers.
LEMMA ScheduleStep ==
  ASSUME PipelineInv, ~aborted, (\E n \in Nodes : ScheduleOne(n)) \/ SubmitToWorkers
  PROVE  Tasks' /\ OpsCounted' /\ DocksTyped' /\ [CP!Next]_CP!vars /\ Owed' = Owed
<1>1. ASSUME NEW n \in Nodes, ScheduleOne(n)
      PROVE  Tasks' /\ OpsCounted' /\ DocksTyped' /\ [CP!Next]_CP!vars /\ Owed' = Owed
  <2>1. Unscheduled(n)
    BY <1>1 DEF ScheduleOne, Unscheduled, PipelineInv, Tasks, Staged, StagedAt
  <2>2. CASE ToWorkers(n) /\ newQ' = newQ \ {n} /\ pc' = "toWorkers"
    BY <1>1, <2>1, <2>2, ToWorkersStep DEF ScheduleOne, waitVars
  <2>3. CASE NoDockLeft(n) /\ Unwind(newQ \ {n})
    <3>1. DocksTyped'
      BY <2>3 DEF NoDockLeft, dockVars, DocksTyped, PipelineInv
    <3> QED BY <1>1, <2>1, <2>3, <3>1, NoDockStep DEF ScheduleOne, waitVars
  <2> QED BY <1>1, <2>2, <2>3 DEF ScheduleOne
<1>2. CASE SubmitToWorkers
  <2>1. /\ pc = "submit" /\ cur \in Nodes /\ cur \in Submitting /\ Unscheduled(cur)
        /\ newQ = {} /\ newQ \ {cur} = {}
    BY <1>2 DEF SubmitToWorkers, Unscheduled, Submitting, PipelineInv, Tasks, MainAgrees, Quiet
  <2>2. CASE ToWorkers(cur) /\ UNCHANGED newQ /\ pc' = "prefetch"
    BY <1>2, <2>1, <2>2, ToWorkersStep DEF SubmitToWorkers, waitVars
  <2>3. CASE NoDockLeft(cur) /\ Unwind(newQ \ {cur})
    <3>1. DocksTyped'
      BY <2>3 DEF NoDockLeft, dockVars, DocksTyped, PipelineInv
    <3> QED BY <1>2, <2>1, <2>3, <3>1, NoDockStep DEF SubmitToWorkers, waitVars
  <2> QED BY <1>2, <2>1, <2>2, <2>3 DEF SubmitToWorkers
<1> QED BY <1>1, <1>2
-----------------------------------------------------------------------------
(***************************************************************************)
(* The workers, whose steps the cache does not see.                        *)
(***************************************************************************)
LEMMA WorkerStartStep ==
  ASSUME PipelineInv, ~aborted, NEW w \in Workers, WorkerStart(w)
  PROVE  Tasks' /\ OpsCounted' /\ UNCHANGED CP!vars
<1>1. PICK o \in opQ : opQ' = opQ \ {o} /\ work' = [work EXCEPT ![w] = o]
  BY DEF WorkerStart
<1>2. UNCHANGED <<cacheVars, mainVars, taskVars, waitVars>> /\ work[w] = NoOp
  BY DEF WorkerStart
<1>3. o \in OpRecords /\ o.live /\ Serves(o) /\ work'[w] = o
      /\ \A v \in Workers \ {w} : work'[v] = work[v]
  BY <1>1 DEF PipelineInv, Tasks, Types, OpsServe
<1>4. Types'
  BY <1>1, <1>2, <1>3 DEF PipelineInv, Tasks, Types, mainVars, taskVars
<1>5. Ready' = Ready /\ Exec' = Exec /\ Submitting' = Submitting
  BY <1>2 DEF Ready, Exec, Submitting, mainVars, taskVars
<1>6. Placed' /\ Staged'
  BY <1>2, <1>5 DEF PipelineInv, Tasks, Placed, Tasked, HasTask, Unwound, Staged, StagedAt,
     Stopped, Resident,
     mainVars, taskVars, cacheVars
<1>7. OpsServe'
  BY <1>1, <1>2, <1>3 DEF PipelineInv, Tasks, OpsServe, Serves, taskVars, cacheVars
<1>8. MainAgrees' /\ PendingCounts'
  BY <1>2 DEF PipelineInv, Tasks, MainAgrees, PendingCounts, Owed, Demanded, mainVars,
     taskVars, cacheVars, waitVars
<1>9. OpsCounted'
  <2>1. LiveOnce'
    BY <1>1, <1>3 DEF PipelineInv, OpsCounted, LiveOnce
  <2>2. \A m : Ops(m)' = Ops(m)
    BY <1>1, <1>2, <1>3 DEF Ops, NoOp
  <2>3. ASSUME NEW m \in Nodes PROVE CountedAt(m)'
    BY <1>2, <1>5, <2>2 DEF PipelineInv, OpsCounted, CountedAt, NotSubmitted, NumOps,
       NeedsSm, cacheVars, taskVars
  <2> QED BY <2>1, <2>3 DEF OpsCounted
<1>10. UNCHANGED CP!vars
  BY <1>2, <1>5, SameUse, Stutter DEF Demanded, taskVars, cacheVars
<1> QED BY <1>4, <1>6, <1>7, <1>8, <1>9, <1>10 DEF Tasks

\* A worker that is done leaves its node's operations, if its task was alive.
LEMMA OpsWithout ==
  ASSUME PipelineInv, NEW w \in Workers, work' = [work EXCEPT ![w] = NoOp], opQ' = opQ
  PROVE  /\ LiveOnce'
         /\ \A n : Ops(n)' = IF work[w].live THEN Ops(n) \ {work[w]} ELSE Ops(n)
<1>1. ~work'[w].live /\ \A v \in Workers \ {w} : work'[v] = work[v]
  BY DEF NoOp, PipelineInv, Tasks, Types
<1>2. LiveOnce
  BY DEF PipelineInv, OpsCounted
<1>3. LiveOnce'
  BY <1>1, <1>2 DEF LiveOnce
<1>4. ASSUME NEW n, work[w].live PROVE Ops(n)' = Ops(n) \ {work[w]}
  BY <1>1, <1>2, <1>4 DEF Ops, LiveOnce
<1>5. ASSUME NEW n, ~work[w].live PROVE Ops(n)' = Ops(n)
  BY <1>1, <1>5 DEF Ops
<1> QED BY <1>3, <1>4, <1>5

LEMMA WorkerLateStep ==
  ASSUME PipelineInv, ~aborted, NEW w \in Workers, WorkerFinishLate(w)
  PROVE  Tasks' /\ OpsCounted' /\ UNCHANGED CP!vars
<1>1. /\ work' = [work EXCEPT ![w] = NoOp] /\ opQ' = opQ /\ ~work[w].live
      /\ UNCHANGED <<cacheVars, mainVars, taskVars, waitVars>>
  BY DEF WorkerFinishLate
<1>2. work'[w] = NoOp /\ \A v \in Workers \ {w} : work'[v] = work[v]
  BY <1>1 DEF PipelineInv, Tasks, Types
<1>3. Types'
  BY <1>1 DEF PipelineInv, Tasks, Types, mainVars, taskVars
<1>4. Ready' = Ready /\ Exec' = Exec /\ Submitting' = Submitting
  BY <1>1 DEF Ready, Exec, Submitting, mainVars, taskVars
<1>5. Placed' /\ Staged'
  BY <1>1, <1>4 DEF PipelineInv, Tasks, Placed, Tasked, HasTask, Unwound, Staged, StagedAt,
     Stopped, Resident,
     mainVars, taskVars, cacheVars
<1>6. OpsServe'
  <2>1. ~NoOp.live
    BY DEF NoOp
  <2> QED BY <1>1, <1>2, <2>1 DEF PipelineInv, Tasks, OpsServe, Serves, taskVars, cacheVars
<1>7. MainAgrees' /\ PendingCounts'
  BY <1>1 DEF PipelineInv, Tasks, MainAgrees, PendingCounts, Owed, Demanded, mainVars,
     taskVars, cacheVars, waitVars
<1>8. OpsCounted'
  <2>1. LiveOnce' /\ \A m : Ops(m)' = Ops(m)
    BY <1>1, OpsWithout
  <2>2. ASSUME NEW m \in Nodes PROVE CountedAt(m)'
    BY <1>1, <1>4, <2>1 DEF PipelineInv, OpsCounted, CountedAt, NotSubmitted, NumOps,
       NeedsSm, cacheVars, taskVars
  <2> QED BY <2>1, <2>2 DEF OpsCounted
<1>9. UNCHANGED CP!vars
  BY <1>1, <1>4, SameUse, Stutter DEF Demanded, taskVars, cacheVars
<1> QED BY <1>3, <1>5, <1>6, <1>7, <1>8, <1>9 DEF Tasks

\* What the operation of a live task tells of the task.
LEMMA LiveOpFacts ==
  ASSUME PipelineInv, ~aborted, NEW w \in Workers, work[w] /= NoOp, work[w].live
  PROVE  LET n == work[w].node IN
         /\ n \in Nodes /\ n \in sched /\ task[n].ptrs /= "none" /\ work[w] \in Ops(n)
         /\ n \notin newQ \cup Ready \cup Exec \cup {running} \cup Submitting
         /\ IsFiniteSet(Ops(n)) /\ Cardinality(Ops(n)) \in Nat \ {0}
         /\ task[n].pend = Cardinality(Ops(n)) + NotSubmitted(n) /\ NotSubmitted(n) \in Nat
<1> DEFINE n == work[w].node
<1>1. n \in Nodes /\ n \in sched /\ task[n].ptrs /= "none" /\ work[w] \in Ops(n)
  BY DEF PipelineInv, Tasks, Types, OpRecords, OpsServe, Serves, Ops
<1> HIDE DEF n
<1>2. n \notin newQ \cup Ready \cup Exec \cup {running} \cup Submitting
  BY <1>1 DEF PipelineInv, Tasks, Placed
<1>3. /\ IsFiniteSet(Ops(n)) /\ task[n].pend = Cardinality(Ops(n)) + NotSubmitted(n)
  BY <1>1 DEF PipelineInv, OpsCounted, CountedAt
<1>4. Cardinality(Ops(n)) \in Nat \ {0}
  BY <1>1, <1>3, FS_CardinalityType, FS_EmptySet
<1>5. NotSubmitted(n) \in Nat
  BY PipelineAssumptions, FS_CardinalityType DEF NotSubmitted
<1> QED BY <1>1, <1>2, <1>3, <1>4, <1>5 DEF n

\* An operation that is not the last leaves its task where it is; the last makes it
\* ready.
LEMMA WorkerFinishStep ==
  ASSUME PipelineInv, ~aborted, NEW w \in Workers, WorkerFinish(w)
  PROVE  Tasks' /\ OpsCounted' /\ UNCHANGED CP!vars /\ Owed' = Owed
<1> DEFINE o == work[w]
           n == o.node
           left == task[n].pend - 1
<1>1. /\ o /= NoOp /\ o.live /\ pc /= "cancel"
      /\ task' = [task EXCEPT ![n].pend = left]
      /\ sched' = IF left = 0 THEN sched \ {n} ELSE sched
      /\ readyQ' = IF left = 0 THEN Append(readyQ, n) ELSE readyQ
      /\ work' = [work EXCEPT ![w] = NoOp]
      /\ UNCHANGED <<newQ, execQ, running, opQ, cacheVars, mainVars, waitVars>>
  BY DEF WorkerFinish
<1>2. /\ n \in Nodes /\ n \in sched /\ task[n].ptrs /= "none" /\ o \in Ops(n)
      /\ n \notin newQ \cup Ready \cup Exec \cup {running} \cup Submitting
      /\ IsFiniteSet(Ops(n)) /\ Cardinality(Ops(n)) \in Nat \ {0}
      /\ task[n].pend = Cardinality(Ops(n)) + NotSubmitted(n) /\ NotSubmitted(n) \in Nat
  BY <1>1, LiveOpFacts
<1>3. LiveOnce' /\ \A m : Ops(m)' = Ops(m) \ {o}
  BY <1>1, OpsWithout
<1>4. work'[w] = NoOp /\ \A v \in Workers \ {w} : work'[v] = work[v]
  BY <1>1 DEF PipelineInv, Tasks, Types
<1> HIDE DEF o, n, left
<1>5. left \in Int /\ left = task[n].pend - 1
  BY <1>2 DEF left
<1>6. /\ task' \in [Nodes -> TaskRecords] /\ \A m \in Nodes \ {n} : task'[m] = task[m]
      /\ task'[n].state = task[n].state /\ task'[n].hit = task[n].hit
      /\ task'[n].ptrs = task[n].ptrs /\ task'[n].pend = left
  BY <1>1, <1>2, <1>5 DEF PipelineInv, Tasks, Types, TaskRecords
<1>7. /\ readyQ' \in Seq(Nodes) /\ Distinct(readyQ')
      /\ Ready' = IF left = 0 THEN Ready \cup {n} ELSE Ready
      /\ Exec' = Exec /\ Submitting' = Submitting
  BY <1>1, <1>2, AppendFacts DEF Ready, Exec, Submitting, PipelineInv, Tasks, Types,
     Placed, mainVars
<1>8. Types'
  BY <1>1, <1>6, <1>7 DEF PipelineInv, Tasks, Types, mainVars
<1>9. Placed'
  <2>1. Tasked' = Tasked
    BY <1>6 DEF Tasked, HasTask
  <2> QED BY <1>1, <1>2, <1>7, <2>1 DEF PipelineInv, Tasks, Placed, cacheVars, mainVars
<1>10. Staged'
  <2> SUFFICES ASSUME NEW m \in Nodes PROVE StagedAt(m)'
    BY DEF Staged
  <2>1. StagedAt(m) /\ locked' = locked /\ aborted' = aborted /\ pc' = pc
        /\ Resident(m)' = Resident(m) /\ request' = request
    BY <1>1 DEF PipelineInv, Tasks, Staged, cacheVars, Resident, mainVars
  <2>2. CASE m /= n
    BY <1>1, <1>6, <1>7, <2>1, <2>2 DEF StagedAt, Stopped, HasTask, Unwound
  <2>3. CASE m = n
    BY <1>1, <1>2, <1>6, <1>7, <2>1, <2>3 DEF StagedAt, HasTask, Unwound
  <2> QED BY <2>2, <2>3
<1>11. left = 0 => Ops(n) = {o}
  <2>1. left = 0 => Cardinality(Ops(n)) = 1
    BY <1>2, <1>5
  <2> QED BY <1>2, <2>1, FS_Singleton
<1>12. OpsServe'
  <2>1. ASSUME NEW v \in Workers PROVE Serves(work[v])'
    <3>1. CASE v = w
      BY <1>4, <3>1 DEF Serves, NoOp
    <3>2. CASE v /= w
      <4> SUFFICES ASSUME work[v].live PROVE Serves(work[v])'
        BY <1>4, <3>2 DEF Serves
      <4>1. /\ work[v] /= o /\ work[v].node \in sched /\ work[v].node \in Nodes
            /\ task[work[v].node].ptrs /= "none"
        BY <1>1, <3>2 DEF PipelineInv, Tasks, Types, OpRecords, NoOp, OpsServe, Serves,
           OpsCounted, LiveOnce, o
      <4>2. work[v].node = n => left /= 0
        BY <1>11, <4>1 DEF Ops
      <4> QED BY <1>1, <1>4, <1>6, <3>2, <4>1, <4>2 DEF Serves
    <3> QED BY <3>1, <3>2
  <2>2. ASSUME NEW p \in opQ PROVE p.live /\ Serves(p)'
    <3>1. /\ p /= o /\ p.live /\ p.node \in sched /\ p.node \in Nodes
          /\ task[p.node].ptrs /= "none"
      BY <1>1 DEF PipelineInv, Tasks, Types, OpRecords, OpsServe, Serves, OpsCounted,
         LiveOnce, o
    <3>2. p.node = n => left /= 0
      BY <1>11, <3>1 DEF Ops
    <3> QED BY <1>1, <1>6, <3>1, <3>2 DEF Serves
  <2> QED BY <1>1, <2>1, <2>2 DEF OpsServe
<1>13. Demanded' = Demanded
  <2>1. locked' = locked /\ locked \subseteq Nodes
    BY <1>1, CacheFacts DEF cacheVars, PipelineInv
  <2> QED BY <1>6, <2>1 DEF Demanded
<1>14. MainAgrees' /\ PendingCounts' /\ Owed' = Owed
  BY <1>1, <1>13 DEF PipelineInv, Tasks, MainAgrees, PendingCounts, Owed, mainVars,
     cacheVars, waitVars
<1>15. OpsCounted'
  <2>1. ASSUME NEW m \in Nodes PROVE CountedAt(m)'
    <3>1. CountedAt(m) /\ NotSubmitted(m)' = NotSubmitted(m) /\ NumOps(m)' = NumOps(m)
      BY <1>1 DEF PipelineInv, OpsCounted, NotSubmitted, NumOps, NeedsSm, cacheVars
    <3>2. CASE m /= n
      <4>1. Ops(m)' = Ops(m)
        BY <1>3, <3>2 DEF Ops, n
      <4> QED BY <1>1, <1>6, <1>7, <3>1, <3>2, <4>1 DEF CountedAt
    <3>3. CASE m = n
      <4>1. /\ IsFiniteSet(Ops(n) \ {o})
            /\ Cardinality(Ops(n) \ {o}) = Cardinality(Ops(n)) - 1
        BY <1>2, FS_RemoveElement
      <4>2. left = Cardinality(Ops(n) \ {o}) + NotSubmitted(n)
        BY <1>2, <1>5, <4>1
      <4>3. n \in sched' => left /= 0
        BY <1>1
      <4>4. n \notin newQ' \cup Submitting'
        BY <1>1, <1>2, <1>7
      <4> QED BY <1>3, <1>6, <3>1, <3>3, <4>1, <4>2, <4>3, <4>4 DEF CountedAt
    <3> QED BY <3>2, <3>3
  <2> QED BY <1>3, <2>1 DEF OpsCounted
<1>16. UNCHANGED CP!vars
  <2>1. ASSUME NEW m \in Nodes PROVE UseOf(m)' = UseOf(m)
    BY <1>1, <1>6, <1>7, SameUse DEF cacheVars
  <2> QED BY <1>1, <1>13, <2>1, Stutter
<1> QED BY <1>8, <1>9, <1>10, <1>12, <1>14, <1>15, <1>16 DEF Tasks
-----------------------------------------------------------------------------
(***************************************************************************)
(* The fetch thread.                                                       *)
(***************************************************************************)
\* FetchDevice never aborts on the head of the ready queue, and touches no other node.
LEMMA FetchKeeps ==
  ASSUME PipelineInv, ~aborted, Fetch
  PROVE  LET n == Head(readyQ) IN
         /\ n \in Nodes /\ n \in Ready /\ n \in locked /\ n \notin Exec
         /\ n \notin newQ \cup sched \cup Exec \cup {running} \cup Submitting
         /\ Ready' = Ready \ {n} /\ readyQ' \in Seq(Nodes) /\ Distinct(readyQ')
         /\ aborted' = aborted /\ \A m \in Nodes \ {n} : node'[m] = node[m]
         /\ UseOf(n) = IF task[n].ptrs = "none" THEN "held" ELSE task[n].ptrs
         /\ FetchPtr(n) = IF UseOf(n) = "held" THEN NoMem
                          ELSE IF UseOf(n) = "gpu" THEN gpuPool.slotOf[n] ELSE DockMem
         /\ task[n].state \in States
         /\ UseOf(n) = "held" => Resident(n) /\ task[n].state \in {"NORMAL", "PREFETCH"}
         /\ UseOf(n) /= "held" => UseOf(n) = Staging(task[n].state)
<1> DEFINE n == Head(readyQ)
<1>1. /\ readyQ /= <<>> /\ readyQ' = Tail(readyQ)
      /\ FetchDevice(n, task[n].state, FetchPtr(n))
  BY DEF Fetch
<1>2. /\ n \in Nodes /\ n \in Ready /\ Ready' = Ready \ {n}
      /\ readyQ' \in Seq(Nodes) /\ Distinct(readyQ')
  BY <1>1, TailFacts DEF PipelineInv, Tasks, Types, Placed, Ready
<1> HIDE DEF n
<1>3. n \in locked /\ n \notin newQ \cup sched \cup Exec \cup {running} \cup Submitting
  BY <1>2 DEF PipelineInv, Tasks, Placed
<1>4. task[n] \in TaskRecords /\ task[n].state \in States
  BY <1>2, <1>3 DEF PipelineInv, Tasks, Types, TaskRecords, Placed, Tasked, HasTask
<1>5. /\ task[n].ptrs = "none" => task[n].state \in {"NORMAL", "PREFETCH"} /\ Resident(n)
      /\ task[n].ptrs /= "none" => task[n].ptrs = Staging(task[n].state)
  BY <1>2 DEF PipelineInv, Tasks, Staged, StagedAt
<1>6. UseOf(n) = IF task[n].ptrs = "none" THEN "held" ELSE task[n].ptrs
  BY <1>3, InSeqSet DEF UseOf, Exec
<1>7. FetchPtr(n) = IF UseOf(n) = "held" THEN NoMem
                    ELSE IF UseOf(n) = "gpu" THEN gpuPool.slotOf[n] ELSE DockMem
  BY <1>4, <1>6 DEF FetchPtr, TaskRecords
<1>8. /\ CP!FetchDevice(n, task[n].state, FetchPtr(n))
      /\ task[n].state \in {"NORMAL", "PREFETCH", "SMCACHE", "EVICT"}
  BY <1>1, <1>4, SameFetch DEF States
<1>9. /\ FetchPtr(n) \in GpuSlots \cup {NoMem, DockMem}
      /\ task[n].state \in {"NORMAL", "PREFETCH"} => node[n].sm = smPool.slotOf[n]
  BY <1>2, <1>4, <1>5, <1>6, <1>7, AgreeFacts
     DEF PipelineInv, CP!GpuAgrees, CP!SmAgrees, Staging
<1>10. \E r \in CP!NodeRecords : aborted' = aborted /\ node' = [node EXCEPT ![n] = r]
  <2>1. GpuSlots = CP!GpuSlots
    BY DEF GpuSlots, CP!GpuSlots, Slots, CP!Slots
  <2> QED BY <1>2, <1>8, <1>9, <2>1, CP!FetchFacts, NoNodeAssumption, NoSlotAssumption,
             SlotCounts, PolicyAssumption, TierBounds, MemAssumption
          DEF PipelineInv, Policies, CP!Policies, Tiers, CP!Tiers
<1>11. aborted' = aborted /\ \A m \in Nodes \ {n} : node'[m] = node[m]
  BY <1>10, CacheFacts DEF PipelineInv
<1> QED BY <1>2, <1>3, <1>4, <1>5, <1>6, <1>7, <1>11 DEF n, TaskRecords

LEMMA FetchDocks ==
  ASSUME PipelineInv, ~aborted, NEW n \in Nodes, FreeDock(n)
  PROVE  DocksTyped'
<1>1. DocksTyped
  BY DEF PipelineInv
<1>2. dockOf' \in [Nodes -> 0 .. NumDocks - 1 \cup {NoSlot}]
  BY <1>1 DEF DocksTyped, FreeDock
<1>3. freeDocks' \in Seq(0 .. NumDocks - 1)
  <2> DEFINE Docks == 0 .. NumDocks - 1
  <2>1. (dockOf[n] = NoSlot \/ dockOf[n] \in Docks) /\ freeDocks \in Seq(Docks)
    BY <1>1 DEF DocksTyped
  <2> HIDE DEF Docks
  <2>2. freeDocks' \in Seq(Docks)
    BY <2>1 DEF FreeDock
  <2> QED BY <2>2 DEF Docks
<1> QED BY <1>2, <1>3 DEF DocksTyped

LEMMA FetchStep ==
  ASSUME PipelineInv, ~aborted, Fetch
  PROVE  Tasks' /\ DocksTyped' /\ CP!Next /\ Owed' = Owed
<1>0. PICK n \in Nodes : n = Head(readyQ)
  BY FetchKeeps
<1> DEFINE quick == task[n].state = "PREFETCH"
<1>1. /\ FetchDevice(n, task[n].state, FetchPtr(n))
      /\ quick => /\ FreeDock(n) /\ locked' = locked \ {n} /\ execQ' = execQ
                  /\ task' = [task EXCEPT ![n] = NoTask]
      /\ ~quick => /\ execQ' = Append(execQ, n) /\ dockOf' = dockOf
                   /\ freeDocks' = freeDocks /\ locked' = locked /\ task' = task
      /\ UNCHANGED <<gpuPool, gpuMeta, smMeta, now, mainVars, waitVars, opVars>>
      /\ UNCHANGED <<newQ, sched, running>>
  BY <1>0 DEF Fetch
<1>2. /\ n \in Nodes /\ n \in Ready /\ n \in locked /\ n \notin Exec
      /\ n \notin newQ \cup sched \cup Exec \cup {running} \cup Submitting
      /\ Ready' = Ready \ {n} /\ readyQ' \in Seq(Nodes) /\ Distinct(readyQ')
      /\ aborted' = aborted /\ \A m \in Nodes \ {n} : node'[m] = node[m]
      /\ UseOf(n) = IF task[n].ptrs = "none" THEN "held" ELSE task[n].ptrs
      /\ FetchPtr(n) = IF UseOf(n) = "held" THEN NoMem
                       ELSE IF UseOf(n) = "gpu" THEN gpuPool.slotOf[n] ELSE DockMem
      /\ task[n].state \in States
      /\ UseOf(n) = "held" => Resident(n) /\ task[n].state \in {"NORMAL", "PREFETCH"}
      /\ UseOf(n) /= "held" => UseOf(n) = Staging(task[n].state)
  BY <1>0, FetchKeeps
<1>3. /\ execQ' \in Seq(Nodes) /\ Distinct(execQ')
      /\ Exec' = IF quick THEN Exec ELSE Exec \cup {n}
      /\ Submitting' = Submitting
  <2>1. execQ \in Seq(Nodes) /\ Distinct(execQ) /\ n \notin SeqSet(execQ) /\ n \in Nodes
    BY <1>2 DEF Exec, PipelineInv, Tasks, Types, Placed
  <2>2. CASE quick
    BY <1>1, <2>1, <2>2 DEF Exec, Submitting, mainVars
  <2>3. CASE ~quick
    BY <1>1, <2>1, <2>3, AppendFacts DEF Exec, Submitting, mainVars
  <2> QED BY <2>2, <2>3
<1>4. /\ task'[n] = IF quick THEN NoTask ELSE task[n]
      /\ \A m \in Nodes \ {n} : task'[m] = task[m]
      /\ task' \in [Nodes -> TaskRecords]
  <2>1. task \in [Nodes -> TaskRecords] /\ NoTask \in TaskRecords
    BY DEF PipelineInv, Tasks, Types, NoTask, TaskRecords
  <2> QED BY <1>1, <1>2, <2>1
<1> HIDE DEF quick
<1>5. /\ locked' = IF quick THEN locked \ {n} ELSE locked
      /\ \A m \in Nodes \ {n} : Resident(m)' = Resident(m)
  BY <1>1, <1>2 DEF Resident
<1>6. Types'
  BY <1>1, <1>2, <1>3, <1>4 DEF PipelineInv, Tasks, Types, mainVars, opVars
<1>7. Placed'
  <2>1. Tasked' = IF quick THEN Tasked \ {n} ELSE Tasked
    BY <1>4 DEF Tasked, HasTask, NoTask
  <2> QED BY <1>1, <1>2, <1>3, <1>5, <2>1 DEF PipelineInv, Tasks, Placed, mainVars
<1>8. Staged'
  <2> SUFFICES ASSUME NEW m \in Nodes PROVE StagedAt(m)'
    BY DEF Staged
  <2>1. StagedAt(m)
    BY DEF PipelineInv, Tasks, Staged
  <2>2. CASE m /= n
    BY <1>1, <1>2, <1>3, <1>4, <1>5, <2>1, <2>2
       DEF StagedAt, Stopped, mainVars, HasTask, Unwound
  <2>3. CASE m = n
    BY <1>1, <1>2, <1>3, <1>4, <1>5, <2>1, <2>3
       DEF StagedAt, quick, NoTask, HasTask, Unwound, States
  <2> QED BY <2>2, <2>3
<1>9. OpsServe'
  <2>1. \A o \in OpRecords \cup {NoOp} : Serves(o) => Serves(o)'
    <3> SUFFICES ASSUME NEW o \in OpRecords \cup {NoOp}, Serves(o), o.live PROVE Serves(o)'
      BY DEF Serves
    <3>1. o.node \in sched /\ o.node \in Nodes \ {n} /\ task[o.node].ptrs /= "none"
      BY <1>2 DEF Serves, NoOp, OpRecords
    <3> QED BY <1>1, <1>4, <3>1 DEF Serves
  <2> QED BY <1>1, <2>1 DEF PipelineInv, Tasks, OpsServe, Types, opVars
<1>10. Demanded' = Demanded
  <2>1. locked \subseteq Nodes
    BY CacheFacts DEF PipelineInv
  <2> QED BY <1>2, <1>4, <1>5, <2>1 DEF Demanded, quick, NoTask
<1>11. Owed' = Owed
  BY <1>1, <1>10 DEF Owed, mainVars
<1>12. MainAgrees' /\ PendingCounts'
  BY <1>1, <1>5, <1>10, <1>11 DEF PipelineInv, Tasks, MainAgrees, PendingCounts, mainVars,
     waitVars
<1>13. DocksTyped'
  <2>1. CASE quick
    BY <1>1, <1>2, <2>1, FetchDocks
  <2>2. CASE ~quick
    BY <1>1, <2>2 DEF PipelineInv, DocksTyped
  <2> QED BY <2>1, <2>2
<1>14. CP!Next
  <2> DEFINE then == IF quick THEN "idle"
                     ELSE CASE task[n].state = "SMCACHE" -> "runSm"
                            [] task[n].state = "EVICT"   -> "runDock"
                            [] OTHER                     -> "run"
  <2>1. UseOf(n)' = then
    <3>1. CASE quick
      BY <1>2, <1>5, <3>1 DEF UseOf
    <3>2. CASE ~quick
      <4>1. n \in locked' /\ InSeq(n, execQ)' /\ task'[n] = task[n]
        BY <1>2, <1>3, <1>4, <1>5, <3>2, InSeqSet DEF Exec, InSeq
      <4> QED BY <3>2, <4>1 DEF UseOf
    <3> QED BY <3>1, <3>2
  <2>2. \A m \in Nodes \ {n} : UseOf(m)' = UseOf(m)
    BY <1>1, <1>3, <1>4, <1>5, SameUse
  <2>3. [m \in Nodes |-> UseOf(m)]' = [[m \in Nodes |-> UseOf(m)] EXCEPT ![n] = then]
    BY <1>2, <2>1, <2>2
  <2>4. CP!FetchDevice(n, task[n].state, FetchPtr(n))
    BY <1>1, SameFetch
  <2>5. [m \in Nodes |-> UseOf(m)][n] = UseOf(n)
    BY <1>2
  <2>6. CP!TaskPtr(n) = IF UseOf(n) = "held" THEN NoMem ELSE gpuPool.slotOf[n]
    BY <2>5 DEF CP!TaskPtr
  <2>7. CP!Resident(n) = Resident(n)
    BY DEF CP!Resident, Resident
  <2>8. CASE task[n].state = "PREFETCH"
    <3>1. CP!Fetchable(n) /\ FetchPtr(n) = CP!TaskPtr(n) /\ n \notin Demanded
      BY <1>2, <2>5, <2>6, <2>7, <2>8 DEF CP!Fetchable, Staging, Demanded
    <3>2. CP!FetchPrefetched(n)
      BY <1>1, <1>2, <1>5, <1>10, <2>3, <2>4, <2>8, <3>1
         DEF CP!FetchPrefetched, CP!Unlock, CP!Becomes, Demanded, quick
    <3> QED BY <1>2, <3>2 DEF CP!Next, CP!TaskStep
  <2>9. CASE task[n].state = "NORMAL"
    <3>1. CP!Fetchable(n) /\ FetchPtr(n) = CP!TaskPtr(n) /\ n \in Demanded
      BY <1>2, <2>5, <2>6, <2>7, <2>9 DEF CP!Fetchable, Staging, Demanded
    <3>2. CP!FetchToRun(n)
      BY <1>1, <1>2, <1>5, <1>10, <2>3, <2>4, <2>9, <3>1
         DEF CP!FetchToRun, CP!Becomes, Demanded, quick
    <3> QED BY <1>2, <3>2 DEF CP!Next, CP!TaskStep
  <2>10. CASE task[n].state = "SMCACHE"
    <3>1. UseOf(n) = "sm" /\ FetchPtr(n) = DockMem
      BY <1>2, <2>10 DEF Staging
    <3>2. CP!FetchSm(n)
      BY <1>1, <1>2, <1>5, <1>10, <2>3, <2>4, <2>5, <2>10, <3>1
         DEF CP!FetchSm, CP!Becomes, Demanded, quick
    <3> QED BY <1>2, <3>2 DEF CP!Next, CP!TaskStep
  <2>11. CASE task[n].state = "EVICT"
    <3>1. UseOf(n) = "dock" /\ FetchPtr(n) = DockMem
      BY <1>2, <2>11 DEF Staging
    <3>2. CP!FetchDock(n)
      BY <1>1, <1>2, <1>5, <1>10, <2>3, <2>4, <2>5, <2>11, <3>1
         DEF CP!FetchDock, CP!Becomes, Demanded, quick
    <3> QED BY <1>2, <3>2 DEF CP!Next, CP!TaskStep
  <2> QED BY <1>2, <2>8, <2>9, <2>10, <2>11 DEF States
<1> QED BY <1>6, <1>7, <1>8, <1>9, <1>11, <1>12, <1>13, <1>14 DEF Tasks
-----------------------------------------------------------------------------
(***************************************************************************)
(* The exec thread.                                                        *)
(***************************************************************************)
LEMMA ExecStartStep ==
  ASSUME PipelineInv, ~aborted, ExecStart
  PROVE  Tasks' /\ UNCHANGED CP!vars
<1>1. /\ running = NoNode /\ execQ /= <<>> /\ running' = Head(execQ) /\ execQ' = Tail(execQ)
      /\ UNCHANGED <<task, newQ, sched, readyQ, cacheVars, mainVars, opVars, waitVars>>
  BY DEF ExecStart
<1>2. /\ execQ' \in Seq(Nodes) /\ Distinct(execQ') /\ running' \in Exec /\ running' \in Nodes
      /\ Exec' = Exec \ {running'}
  BY <1>1, TailFacts DEF PipelineInv, Tasks, Types, Placed, Exec
<1>3. Ready' = Ready /\ Submitting' = Submitting /\ running \notin Nodes
  BY <1>1, NoNodeAssumption DEF Ready, Submitting, mainVars
<1>4. Types'
  BY <1>1, <1>2 DEF PipelineInv, Tasks, Types, mainVars, opVars
<1>5. Placed'
  BY <1>1, <1>2, <1>3, NoNodeAssumption 
     DEF PipelineInv, Tasks, Placed, Tasked, HasTask, cacheVars, mainVars
<1>6. Staged'
  BY <1>1, <1>2, <1>3 DEF PipelineInv, Tasks, Staged, StagedAt, Stopped, Resident,
     mainVars, cacheVars, HasTask, Unwound
<1>7. OpsServe'
  BY <1>1 DEF PipelineInv, Tasks, OpsServe, Serves, opVars, cacheVars
<1>8. MainAgrees' /\ PendingCounts'
  BY <1>1 DEF PipelineInv, Tasks, MainAgrees, PendingCounts, Owed, Demanded, mainVars,
     cacheVars, waitVars
<1>9. UNCHANGED CP!vars
  <2>1. ASSUME NEW m \in Nodes
        PROVE  (m \in Exec' \/ running' = m) <=> (m \in Exec \/ running = m)
    BY <1>2, <1>3
  <2> QED BY <1>1, <2>1, SameUse, Stutter DEF Demanded, cacheVars
<1> QED BY <1>4, <1>5, <1>6, <1>7, <1>8, <1>9 DEF Tasks

\* The task that is being executed is done: its node is unlocked and one result less
\* is pending.  Or abort() stops the process in the middle.
LEMMA ExecFinishStep ==
  ASSUME PipelineInv, ~aborted, ExecFinish
  PROVE  /\ Tasks' /\ CP!Next
         /\ running \in Owed /\ Owed' = IF aborted' THEN Owed ELSE Owed \ {running}
<1>0. PICK n \in Nodes : n = running
  BY DEF ExecFinish, PipelineInv, Tasks, Types
<1>1. /\ FinishDevice(n, task[n].state)
      /\ UNCHANGED <<gpuMeta, smMeta, now, layer, request, todo, cur, decision>>
      /\ UNCHANGED <<newQ, sched, readyQ, execQ, opVars>>
  BY <1>0 DEF ExecFinish
<1>2. /\ aborted' => UNCHANGED <<locked, task, pending, pc, running>>
      /\ ~aborted' => /\ locked' = locked \ {n} /\ task' = [task EXCEPT ![n] = NoTask]
                      /\ pending' = pending - 1 /\ running' = NoNode
                      /\ pc' = pc \/ (pc = "asleep" /\ pc' = "wait")
  BY <1>0 DEF ExecFinish
<1>3. /\ n \in locked /\ n \notin newQ \cup sched \cup Ready \cup Exec \cup Submitting
      /\ task[n].state \in {"NORMAL", "SMCACHE", "EVICT"} /\ n \in Demanded
  <2>1. n \in locked /\ n \notin newQ \cup sched \cup Ready \cup Exec \cup Submitting
    BY <1>0, NoNodeAssumption DEF PipelineInv, Tasks, Placed
  <2>2. task[n].state /= "PREFETCH" /\ task[n].state /= "none" /\ task[n] \in TaskRecords
    BY <1>0, <2>1, NoNodeAssumption
       DEF PipelineInv, Tasks, Staged, StagedAt, Placed, Tasked, HasTask, Types
  <2> QED BY <2>1, <2>2 DEF TaskRecords, States, Demanded
<1>4. \A m \in Nodes \ {n} : node'[m] = node[m]
  BY <1>1, CacheFacts DEF FinishDevice, PipelineInv
<1>5. /\ task' \in [Nodes -> TaskRecords] /\ \A m \in Nodes \ {n} : task'[m] = task[m]
      /\ task'[n] = IF aborted' THEN task[n] ELSE NoTask
  <2>1. task \in [Nodes -> TaskRecords] /\ NoTask \in TaskRecords
    BY DEF PipelineInv, Tasks, Types, NoTask, TaskRecords
  <2> QED BY <1>2, <2>1
<1>6. Ready' = Ready /\ Exec' = Exec /\ Submitting' = Submitting
  BY <1>1, <1>2 DEF Ready, Exec, Submitting
<1>7. Types'
  BY <1>1, <1>2, <1>5 DEF PipelineInv, Tasks, Types, PCs, opVars
<1>8. Placed'
  <2>1. Tasked' = IF aborted' THEN Tasked ELSE Tasked \ {n}
    BY <1>5 DEF Tasked, HasTask, NoTask
  <2>2. CASE aborted'
    BY <1>1, <1>2, <1>6, <2>1, <2>2 DEF PipelineInv, Tasks, Placed
  <2>3. CASE ~aborted'
    <3>1. NoNode \notin newQ \cup sched \cup Ready \cup Exec \cup Submitting
      BY NoNodeAssumption, QueueFacts DEF PipelineInv, Tasks, Types, Submitting
    <3> QED BY <1>0, <1>1, <1>2, <1>3, <1>6, <2>1, <2>3, <3>1 DEF PipelineInv, Tasks, Placed
  <2> QED BY <2>2, <2>3
<1>9. Staged'
  <2> SUFFICES ASSUME NEW m \in Nodes PROVE StagedAt(m)'
    BY DEF Staged
  <2>1. StagedAt(m)
    BY DEF PipelineInv, Tasks, Staged
  <2>2. CASE m /= n
    BY <1>0, <1>1, <1>2, <1>4, <1>5, <1>6, <2>1, <2>2, NoNodeAssumption
       DEF StagedAt, Stopped, Resident, HasTask, Unwound
  <2>3. CASE m = n
    BY <1>0, <1>1, <1>2, <1>3, <1>5, <1>6, <2>1, <2>3, NoNodeAssumption
       DEF StagedAt, NoTask, HasTask, Unwound
  <2> QED BY <2>2, <2>3
<1>10. OpsServe'
  <2>1. \A o \in OpRecords \cup {NoOp} : Serves(o) => Serves(o)'
    <3> SUFFICES ASSUME NEW o \in OpRecords \cup {NoOp}, Serves(o), o.live PROVE Serves(o)'
      BY DEF Serves
    <3>1. o.node \in sched /\ o.node \in Nodes \ {n} /\ task[o.node].ptrs /= "none"
      BY <1>3 DEF Serves, NoOp, OpRecords
    <3> QED BY <1>1, <1>5, <3>1 DEF Serves
  <2> QED BY <1>1, <2>1 DEF PipelineInv, Tasks, OpsServe, Types, opVars
<1>11. Demanded' = IF aborted' THEN Demanded ELSE Demanded \ {n}
  <2>1. locked \subseteq Nodes
    BY CacheFacts DEF PipelineInv
  <2> QED BY <1>2, <1>5, <2>1 DEF Demanded
<1>12. MainAgrees'
  BY <1>1, <1>2, <1>11 DEF PipelineInv, Tasks, MainAgrees, Enqueuing, Scanning, Quiet,
     LayerNodes
<1>13. n \in Owed /\ Owed' = IF aborted' THEN Owed ELSE Owed \ {n}
  <2>1. n \in Owed
    BY <1>3 DEF Owed
  <2>2. CASE aborted'
    BY <1>1, <1>2, <1>11, <2>1, <2>2 DEF Owed
  <2>3. CASE ~aborted'
    <3>1. /\ pc \in Enqueuing => n \notin todo
          /\ pc \in Scanning => n /= cur
      BY <1>3 DEF PipelineInv, Tasks, MainAgrees
    <3>2. /\ pc' \in Enqueuing <=> pc \in Enqueuing
          /\ pc' \in Scanning <=> pc \in Scanning
      BY <1>2, <2>3 DEF Enqueuing, Scanning
    <3>3. Owed' = Owed \ {n}
      BY <1>1, <1>11, <2>3, <3>1, <3>2 DEF Owed
    <3> QED BY <2>1, <2>3, <3>3
  <2> QED BY <2>1, <2>2, <2>3
<1>14. PendingCounts'
  BY <1>2, <1>13, OwedFinite, FS_RemoveElement DEF PipelineInv, Tasks, PendingCounts
<1>15. CP!Next
  <2>1. UseOf(n) = CASE task[n].state = "SMCACHE" -> "runSm"
                     [] task[n].state = "EVICT"   -> "runDock"
                     [] OTHER                     -> "run"
    BY <1>0, <1>3 DEF UseOf
  <2>2. \A m \in Nodes \ {n} : UseOf(m)' = UseOf(m)
    <3> SUFFICES ASSUME NEW m \in Nodes \ {n} PROVE UseOf(m)' = UseOf(m)
      OBVIOUS
    <3>1. (m \in locked' <=> m \in locked) /\ (running' = m <=> running = m)
      BY <1>0, <1>2, NoNodeAssumption
    <3> QED BY <1>5, <1>6, <3>1, SameUse
  <2>3. UseOf(n)' = IF aborted' THEN UseOf(n) ELSE "idle"
    <3>1. CASE aborted'
      BY <1>2, <1>6, <3>1, SameUse
    <3>2. CASE ~aborted'
      BY <1>2, <3>2 DEF UseOf
    <3> QED BY <3>1, <3>2
  <2>4. [m \in Nodes |-> UseOf(m)]' =
          IF aborted' THEN [m \in Nodes |-> UseOf(m)]
          ELSE [[m \in Nodes |-> UseOf(m)] EXCEPT ![n] = "idle"]
    BY <2>2, <2>3
  <2>5. [m \in Nodes |-> UseOf(m)][n] = UseOf(n)
    OBVIOUS
  <2>6. CP!FinishDevice(n, task[n].state)
    BY <1>1, SameFinish
  <2>7. locked' = IF aborted' THEN locked ELSE locked \ {n}
    BY <1>2
  <2>8. ASSUME NEW u, NEW state, u = UseOf(n), state = task[n].state
        PROVE  CP!Finish(n, u, state)
    BY <1>1, <1>11, <2>4, <2>5, <2>6, <2>7, <2>8
       DEF CP!Finish, CP!Unlock, CP!Becomes, Demanded
  <2>9. CP!FinishRun(n) \/ CP!FinishSm(n) \/ CP!FinishDock(n)
    BY <1>3, <2>1, <2>8 DEF CP!FinishRun, CP!FinishSm, CP!FinishDock
  <2> QED BY <2>9 DEF CP!Next, CP!TaskStep
<1> QED BY <1>0, <1>7, <1>8, <1>9, <1>10, <1>12, <1>13, <1>14, <1>15 DEF Tasks

-----------------------------------------------------------------------------
(***************************************************************************)
(* The theorems.                                                           *)
(***************************************************************************)
\* Docks keep their types: only a task's start and its end move one.
LEMMA DockTypes ==
  ASSUME PipelineInv, Next
  PROVE  DocksTyped'
<1>1. CASE UNCHANGED <<dockOf, freeDocks>>
  BY <1>1 DEF PipelineInv, DocksTyped
<1>2. ASSUME NEW n \in Nodes, CancelTask(n) PROVE DocksTyped'
  BY <1>2, FetchDocks DEF CancelTask, Next
<1>3. CASE (\E n \in Nodes : ScheduleOne(n)) \/ SubmitToWorkers
  BY <1>3, ScheduleStep DEF Next
<1>4. CASE Fetch
  BY <1>4, FetchStep DEF Next
<1> QED BY <1>1, <1>2, <1>3, <1>4
        DEF Next, MainStep, WorkerStep, ExecStep, Dispatch, EnqueueDecide,
            EnqueueScanScheduled, EnqueueScanReady, EnqueueLock, OpsSchedule, CancelDone,
            ScheduleDone, WaitReturns, WaitDoze, WaitSleep, SpuriousWake, WaitMove,
            SubmitResident, SubmitDone, SubmitLock, WorkerStart, WorkerFinish,
            WorkerFinishLate, ExecStart, ExecFinish, dockVars

\* Every step of the pipeline keeps the queues right and is one of the cache.
LEMMA PipelineNext ==
  ASSUME PipelineInv, Next
  PROVE  Tasks' /\ OpsCounted' /\ [CP!Next]_CP!vars
<1>1. ~aborted
  BY DEF Next
<1>2. CASE Dispatch
  BY <1>1, <1>2, DispatchStep, MainCounts
<1>3. CASE MainStep
  <2>1. CASE EnqueueDecide
    BY <1>1, <2>1, EnqueueDecideStep, MainCounts
  <2>2. CASE EnqueueScanScheduled
    BY <1>1, <2>2, EnqueueScanScheduledStep, MainCounts
  <2>3. CASE EnqueueScanReady
    BY <1>1, <2>3, EnqueueScanReadyStep, MainCounts
  <2>4. CASE EnqueueLock
    BY <1>1, <2>4, EnqueueLockStep, MainCounts
  <2>5. CASE \/ OpsSchedule \/ CancelDone \/ ScheduleDone
             \/ WaitDoze \/ WaitSleep \/ SubmitDone
    BY <1>1, <2>5, PhaseStep, MainCounts
  <2>6. CASE WaitReturns
    BY <1>1, <2>6, WaitReturnsStep, MainCounts
  <2>7. CASE SubmitResident
    BY <1>1, <2>7, SubmitResidentStep, MainCounts
  <2>8. CASE SubmitToWorkers \/ \E n \in Nodes : ScheduleOne(n)
    BY <1>1, <2>8, ScheduleStep
  <2>9. CASE \E n \in Nodes : CancelTask(n)
    BY <1>1, <2>9, CancelTaskStep, CancelCounts
  <2>10. CASE \E n \in Nodes : SubmitLock(n)
    BY <1>1, <2>10, SubmitLockStep, MainCounts
  <2> QED BY <1>3, <2>1, <2>2, <2>3, <2>4, <2>5, <2>6, <2>7, <2>8, <2>9, <2>10 DEF MainStep
<1>4. CASE SpuriousWake
  BY <1>1, <1>4, PhaseStep, MainCounts
<1>5. ASSUME NEW w \in Workers, WorkerStep(w)
      PROVE  Tasks' /\ OpsCounted' /\ [CP!Next]_CP!vars
  BY <1>1, <1>5, WorkerStartStep, WorkerFinishStep, WorkerLateStep DEF WorkerStep
<1>6. CASE Fetch
  BY <1>1, <1>6, FetchStep, ServeCounts
<1>7. CASE ExecStep
  BY <1>1, <1>7, ExecStartStep, ExecFinishStep, ServeCounts DEF ExecStep
<1> QED BY <1>2, <1>3, <1>4, <1>5, <1>6, <1>7 DEF Next

LEMMA PipelineStutter ==
  ASSUME PipelineInv, UNCHANGED vars
  PROVE  Tasks' /\ OpsCounted' /\ DocksTyped' /\ UNCHANGED CP!vars
<1>1. UNCHANGED <<cacheVars, mainVars, taskVars, opVars, dockVars, waitVars>>
  BY DEF vars
<1>2. Ready' = Ready /\ Exec' = Exec /\ Submitting' = Submitting /\ Demanded' = Demanded
  BY <1>1 DEF Ready, Exec, Submitting, Demanded, cacheVars, mainVars, taskVars
<1>3. Types'
  BY <1>1 DEF PipelineInv, Tasks, Types, mainVars, taskVars, opVars
<1>4. Placed' /\ Staged'
  BY <1>1, <1>2 DEF PipelineInv, Tasks, Placed, Tasked, HasTask, Unwound, Staged, StagedAt,
     Stopped, Resident,
     mainVars, taskVars, cacheVars
<1>5. OpsServe'
  BY <1>1 DEF PipelineInv, Tasks, OpsServe, Serves, opVars, taskVars, cacheVars
<1>6. MainAgrees' /\ PendingCounts'
  BY <1>1, <1>2 DEF PipelineInv, Tasks, MainAgrees, PendingCounts, Owed, mainVars,
     taskVars, cacheVars, waitVars
<1>7. OpsCounted' /\ DocksTyped'
  <2>1. OpsCounted'
    BY <1>1, <1>2, CountsKept DEF PipelineInv, NeedsSm, cacheVars, taskVars
  <2> QED BY <1>1, <2>1 DEF PipelineInv, DocksTyped, dockVars
<1>8. UNCHANGED CP!vars
  BY <1>1, <1>2, SameUse, Stutter DEF taskVars, cacheVars
<1> QED BY <1>3, <1>4, <1>5, <1>6, <1>7, <1>8 DEF Tasks

\* A pipeline that has not started is a cache that has not.
LEMMA InitMaps == Init => CP!Init
<1> SUFFICES ASSUME Init PROVE CP!Init
  OBVIOUS
<1>1. locked = {} /\ CacheInit
  BY DEF Init, CacheInit
<1>2. [m \in Nodes |-> UseOf(m)] = [m \in Nodes |-> "idle"]
  BY <1>1 DEF UseOf
<1>3. CP!CacheInit
  BY <1>1 DEF CacheInit, CP!CacheInit, EmptyPool, CP!EmptyPool, GpuSlots, CP!GpuSlots,
     SmSlots, CP!SmSlots, Slots, CP!Slots, ColdNode, CP!ColdNode
<1> QED BY <1>1, <1>2, <1>3 DEF CP!Init

LEMMA InitPipeline == Init => PipelineInv
<1> SUFFICES ASSUME Init PROVE PipelineInv
  OBVIOUS
<1>1. CP!Inv
  BY InitMaps, CP!InitInv, NoNodeAssumption, NoSlotAssumption, SlotCounts,
     PolicyAssumption, TierBounds, MemAssumption DEF Policies, CP!Policies, Tiers, CP!Tiers
<1>2. /\ locked = {} /\ newQ = {} /\ sched = {} /\ readyQ = <<>> /\ execQ = <<>>
      /\ running = NoNode /\ opQ = {} /\ work = [w \in Workers |-> NoOp]
      /\ task = [n \in Nodes |-> NoTask] /\ pc = "idle" /\ pending = 0
  BY DEF Init, CacheInit
<1>3. Ready = {} /\ Exec = {} /\ Submitting = {} /\ Demanded = {} /\ Owed = {}
  BY <1>2 DEF Ready, Exec, SeqSet, Submitting, Demanded, Owed, Enqueuing, Scanning
<1>4. Types
  <2>1. 0 \in 0 .. NumLayers - 1
    BY PipelineAssumptions
  <2>2. NoTask \in TaskRecords
    BY DEF NoTask, TaskRecords
  <2> QED BY <1>2, <2>1, <2>2 DEF Init, Types, PCs
<1>5. Placed /\ Staged
  BY <1>2, <1>3 DEF Placed, Tasked, HasTask, Unwound, Staged, StagedAt, NoTask, Distinct
<1>6. OpsServe
  BY <1>2 DEF OpsServe, Serves, NoOp
<1>7. MainAgrees /\ PendingCounts
  BY <1>2, <1>3, FS_EmptySet DEF MainAgrees, PendingCounts, Enqueuing, Scanning, Quiet
<1>8. OpsCounted
  BY <1>2, <1>3 DEF OpsCounted, LiveOnce, CountedAt, NoOp
<1>9. DocksTyped
  BY PipelineAssumptions DEF Init, DocksTyped
<1> QED BY <1>1, <1>4, <1>5, <1>6, <1>7, <1>8, <1>9 DEF PipelineInv, Tasks

\* The invariant of the queues and the cache holds in every reachable state.
THEOREM PipelineInvariance == Spec => []PipelineInv
<1>1. PipelineInv /\ [Next]_vars => PipelineInv'
  <2>1. ASSUME PipelineInv, Next PROVE PipelineInv'
    BY <2>1, PipelineNext, DockTypes, CacheStep DEF PipelineInv
  <2>2. ASSUME PipelineInv, UNCHANGED vars PROVE PipelineInv'
    BY <2>2, PipelineStutter, CacheStep DEF PipelineInv
  <2> QED BY <2>1, <2>2
<1> QED BY InitPipeline, <1>1, PTL DEF Spec
-----------------------------------------------------------------------------
(***************************************************************************)
(* The pipeline implements the cache.  CP is the cache of                  *)
(* ExpertPipeline!Cache, so its actions are the same, one by one.          *)
(***************************************************************************)
LEMMA SameCacheHelpers ==
  /\ Cache!Tiers = CP!Tiers /\ Cache!GpuSlots = CP!GpuSlots /\ Cache!vars = CP!vars
  /\ \A n : Cache!Resident(n) <=> CP!Resident(n)
  /\ \A n, u : Cache!Becomes(n, u) <=> CP!Becomes(n, u)
  /\ \A n : Cache!Unlock(n) <=> CP!Unlock(n)
  /\ \A n : Cache!TaskPtr(n) = CP!TaskPtr(n)
  /\ \A n : Cache!Fetchable(n) <=> CP!Fetchable(n)
BY DEF Cache!Tiers, CP!Tiers, Cache!GpuSlots, CP!GpuSlots, Cache!Slots, CP!Slots,
       Cache!vars, CP!vars, Cache!cacheVars, CP!cacheVars, Cache!Resident, CP!Resident,
       Cache!Becomes, CP!Becomes, Cache!Unlock, CP!Unlock, Cache!TaskPtr, CP!TaskPtr,
       Cache!Fetchable, CP!Fetchable

LEMMA SameCacheOperations ==
  /\ \A n, k : Cache!UpdateOnHit(n, k) <=> CP!UpdateOnHit(n, k)
  /\ \A n : Cache!RegisterCacheSlotForNode(n) <=> CP!RegisterCacheSlotForNode(n)
  /\ \A n : Cache!RegisterSMCacheForNode(n) <=> CP!RegisterSMCacheForNode(n)
  /\ \A n : Cache!UnregisterCacheSlotForNode(n) <=> CP!UnregisterCacheSlotForNode(n)
  /\ \A n, state, ptr : Cache!FetchDevice(n, state, ptr) <=> CP!FetchDevice(n, state, ptr)
  /\ \A n, state : Cache!FinishDevice(n, state) <=> CP!FinishDevice(n, state)
<1>1. \A n, k : Cache!UpdateOnHit(n, k) <=> CP!UpdateOnHit(n, k)
  BY DEF Cache!UpdateOnHit, CP!UpdateOnHit, Cache!Promoted, CP!Promoted, Cache!MinTier,
     CP!MinTier, Cache!MaxTier, CP!MaxTier, Cache!OnHit, CP!OnHit, Cache!Owned, CP!Owned
<1>2. \A n : Cache!RegisterCacheSlotForNode(n) <=> CP!RegisterCacheSlotForNode(n)
  BY DEF Cache!RegisterCacheSlotForNode, CP!RegisterCacheSlotForNode, Cache!GpuSlotFree,
     CP!GpuSlotFree, Cache!GpuSlotTaken, CP!GpuSlotTaken, Cache!GpuNoVictim,
     CP!GpuNoVictim, Cache!HasFree, CP!HasFree, Cache!TopFree, CP!TopFree, Cache!PopFree,
     CP!PopFree, Cache!Owned, CP!Owned, Cache!Evict, CP!Evict, Cache!Place, CP!Place,
     Cache!Erase, CP!Erase, Cache!Evictable, CP!Evictable, Cache!OnMiss, CP!OnMiss,
     Cache!AfterSelect, CP!AfterSelect, Cache!NewPhase, CP!NewPhase, Cache!Victims,
     CP!Victims, Cache!OnDisk, CP!OnDisk, Cache!Demoted, CP!Demoted, Cache!MinTier,
     CP!MinTier
<1>3. \A n : Cache!RegisterSMCacheForNode(n) <=> CP!RegisterSMCacheForNode(n)
  BY DEF Cache!RegisterSMCacheForNode, CP!RegisterSMCacheForNode, Cache!SmSlotFree,
     CP!SmSlotFree, Cache!SmSlotTaken, CP!SmSlotTaken, Cache!SmNoVictim, CP!SmNoVictim,
     Cache!HasFree, CP!HasFree, Cache!TopFree, CP!TopFree, Cache!PopFree, CP!PopFree,
     Cache!Owned, CP!Owned, Cache!Evict, CP!Evict, Cache!Place, CP!Place, Cache!Erase,
     CP!Erase, Cache!Evictable, CP!Evictable, Cache!OnMiss, CP!OnMiss,
     Cache!AfterSelect, CP!AfterSelect, Cache!NewPhase, CP!NewPhase, Cache!Victims,
     CP!Victims
<1>4. \A n : Cache!UnregisterCacheSlotForNode(n) <=> CP!UnregisterCacheSlotForNode(n)
  BY DEF Cache!UnregisterCacheSlotForNode, CP!UnregisterCacheSlotForNode, Cache!OnDisk,
     CP!OnDisk, Cache!CanEvict, CP!CanEvict, Cache!Unregistered, CP!Unregistered,
     Cache!Evict, CP!Evict
<1>5. \A n, state, ptr :
        Cache!FetchDevice(n, state, ptr) <=> CP!FetchDevice(n, state, ptr)
  BY DEF Cache!FetchDevice, CP!FetchDevice, Cache!OnCuda, CP!OnCuda, Cache!DropsSm,
     CP!DropsSm, Cache!CanEvict, CP!CanEvict, Cache!Unregistered, CP!Unregistered,
     Cache!Evict, CP!Evict
<1>6. \A n, state : Cache!FinishDevice(n, state) <=> CP!FinishDevice(n, state)
  BY DEF Cache!FinishDevice, CP!FinishDevice, Cache!OnDisk, CP!OnDisk, Cache!CanEvict,
     CP!CanEvict, Cache!Unregistered, CP!Unregistered, Cache!Evict, CP!Evict
<1> QED BY <1>1, <1>2, <1>3, <1>4, <1>5, <1>6

LEMMA SameCacheNext == CP!Next => Cache!Next
<1> SUFFICES ASSUME CP!Next PROVE Cache!Next
  OBVIOUS
<1> USE SameCacheHelpers, SameCacheOperations
<1>1. CP!Tick => Cache!Tick
  BY DEF CP!Tick, Cache!Tick
<1>2. ASSUME NEW n \in Nodes, NEW k \in 1 .. 1, CP!HitStep(n, k)
      PROVE  Cache!HitStep(n, k)
  BY <1>2 DEF CP!HitStep, Cache!HitStep, CP!HitTask, Cache!HitTask, CP!HitResident,
     Cache!HitResident, CP!WithinBound, Cache!WithinBound
<1>3. ASSUME NEW n \in Nodes, CP!TaskStep(n) PROVE Cache!TaskStep(n)
  <2>1. CP!Acquire(n) => Cache!Acquire(n)
    BY DEF CP!Acquire, Cache!Acquire
  <2>2. /\ CP!StageGpu(n) => Cache!StageGpu(n)
        /\ CP!StageSm(n) => Cache!StageSm(n)
        /\ CP!StageDock(n) => Cache!StageDock(n)
    BY DEF CP!StageGpu, Cache!StageGpu, CP!StageSm, Cache!StageSm, CP!StageDock,
       Cache!StageDock, CP!cacheVars, Cache!cacheVars
  <2>3. /\ CP!FetchToRun(n) => Cache!FetchToRun(n)
        /\ CP!FetchPrefetched(n) => Cache!FetchPrefetched(n)
        /\ CP!FetchSm(n) => Cache!FetchSm(n)
        /\ CP!FetchDock(n) => Cache!FetchDock(n)
    BY DEF CP!FetchToRun, Cache!FetchToRun, CP!FetchPrefetched, Cache!FetchPrefetched,
       CP!FetchSm, Cache!FetchSm, CP!FetchDock, Cache!FetchDock
  <2>4. /\ CP!FinishRun(n) => Cache!FinishRun(n)
        /\ CP!FinishSm(n) => Cache!FinishSm(n)
        /\ CP!FinishDock(n) => Cache!FinishDock(n)
    BY DEF CP!FinishRun, Cache!FinishRun, CP!FinishSm, Cache!FinishSm, CP!FinishDock,
       Cache!FinishDock, CP!Finish, Cache!Finish
  <2>5. CP!Cancel(n) => Cache!Cancel(n)
    BY DEF CP!Cancel, Cache!Cancel
  <2>6. \A t : CP!SetNodeLutTier(n, t) => Cache!SetNodeLutTier(n, t)
    BY DEF CP!SetNodeLutTier, Cache!SetNodeLutTier
  <2> QED BY <1>3, <2>1, <2>2, <2>3, <2>4, <2>5, <2>6 DEF CP!TaskStep, Cache!TaskStep
<1> QED BY <1>1, <1>2, <1>3 DEF CP!Next, Cache!Next

LEMMA SameCacheInit == CP!Init => Cache!Init
BY DEF CP!Init, Cache!Init, CP!CacheInit, Cache!CacheInit, CP!EmptyPool,
   Cache!EmptyPool, CP!GpuSlots, Cache!GpuSlots, CP!SmSlots, Cache!SmSlots, CP!Slots,
   Cache!Slots, CP!ColdNode, Cache!ColdNode

\* Whatever the threads, the workers and the cancellations do, the cache sees only the
\* steps ExpertCache allows: each step of the dispatcher, the engine, a worker, the
\* fetch or the exec thread is one of its actions or leaves it as it is.
THEOREM PipelineImplementsCache == Spec => ImplementsCache
<1>1. Init => Cache!Init
  BY InitMaps, SameCacheInit
<1>2. PipelineInv /\ [Next]_vars => [Cache!Next]_Cache!vars
  <2>1. ASSUME PipelineInv, Next PROVE [Cache!Next]_Cache!vars
    BY <2>1, PipelineNext, SameCacheNext, SameCacheHelpers
       DEF CP!vars, Cache!vars, CP!cacheVars, Cache!cacheVars
  <2>2. ASSUME PipelineInv, UNCHANGED vars PROVE UNCHANGED Cache!vars
    BY <2>2, PipelineStutter DEF CP!vars, Cache!vars, CP!cacheVars, Cache!cacheVars
  <2> QED BY <2>1, <2>2
<1> QED BY <1>1, <1>2, PipelineInvariance, PTL DEF Spec, ImplementsCache, Cache!Spec

\* A task holds its node's mutex and is in exactly one of the four queues, the hands of
\* the main thread and those of the exec thread.  A mutex without a task is one the dock
\* exception left: of an expert the failed dispatch asked for, which is not on the GPU.
THEOREM OnePlace == Spec => []TaskInOnePlace
<1>1. PipelineInv => TaskInOnePlace
  <2> SUFFICES ASSUME PipelineInv PROVE TaskInOnePlace
    OBVIOUS
  <2>1. Types /\ Placed
    BY DEF PipelineInv, Tasks
  <2> SUFFICES ASSUME NEW n \in Nodes
               PROVE  /\ HasTask(n) => n \in locked
                      /\ Unwound(n) => pc = "raised" /\ n \in request /\ ~Resident(n)
                      /\ HasTask(n) <=> (\E q \in DOMAIN Places(n) : Places(n)[q])
                      /\ \A q, r \in DOMAIN Places(n) :
                           Places(n)[q] /\ Places(n)[r] => q = r
                      /\ \A q \in {readyQ, execQ} : \A i, j \in 1 .. Len(q) :
                           q[i] = n /\ q[j] = n => i = j
    BY DEF TaskInOnePlace
  <2>2. /\ InSeq(n, readyQ) <=> n \in Ready
        /\ InSeq(n, execQ) <=> n \in Exec
        /\ pc = "submit" /\ cur = n <=> n \in Submitting
    BY <2>1, QueueFacts DEF Submitting
  <2>3. n /= NoNode
    BY NoNodeAssumption
  <2>4. \A q \in {readyQ, execQ} : \A i, j \in 1 .. Len(q) : q[i] = n /\ q[j] = n => i = j
    BY <2>1 DEF Placed, Distinct
  <2> DEFINE P == Places(n)
  <2>5. DOMAIN P = {"new", "sched", "ready", "exec", "running", "submit"}
    BY DEF Places
  <2>9. /\ P["new"] <=> n \in newQ
        /\ P["sched"] <=> n \in sched
        /\ P["ready"] <=> InSeq(n, readyQ)
        /\ P["exec"] <=> InSeq(n, execQ)
        /\ P["running"] <=> running = n
        /\ P["submit"] <=> pc = "submit" /\ cur = n
    BY Zenon DEF Places
  <2> HIDE DEF P
  <2>6. HasTask(n) <=> (\E q \in DOMAIN P : P[q])
    <3>1. HasTask(n) <=> n \in Tasked
      BY DEF Tasked
    <3> QED BY <2>1, <2>2, <2>3, <2>5, <2>9, <3>1 DEF Placed
  <2>7. \A q, r \in DOMAIN P : P[q] /\ P[r] => q = r
    BY <2>1, <2>2, <2>3, <2>5, <2>9 DEF Placed
  <2>8. /\ HasTask(n) => n \in locked
        /\ Unwound(n) => pc = "raised" /\ n \in request /\ ~Resident(n)
    BY <2>1 DEF Placed, Tasked, Unwound, PipelineInv, Tasks, Staged, StagedAt
  <2> QED BY <2>4, <2>6, <2>7, <2>8 DEF P
<1> QED BY <1>1, PipelineInvariance, PTL

-----------------------------------------------------------------------------
(***************************************************************************)
(* What the pipeline promises.                                             *)
(***************************************************************************)
\* The dispatch, from its first expert to the moment its results are collected.
Serving  == {"decide", "scanScheduled", "scanReady", "lock", "cancel", "typeI",
             "toWorkers", "wait", "dozing", "asleep"}
Between  == {"idle", "prefetch", "submit"}

-----------------------------------------------------------------------------
(***************************************************************************)
(* Operations.                                                             *)
(***************************************************************************)
\* A task that waits for operations waits for those that were submitted for it: exactly
\* num_pending_operations_ of them are left, so the last one makes it ready.  The tables'
\* builds count reads they never submit, which a run refutes.
THEOREM PendingExact ==
  ASSUME ~IsLut
  PROVE  Spec => []PendingOpsExact
<1>1. PipelineInv => PendingOpsExact
  <2> SUFFICES ASSUME PipelineInv, NEW n \in Nodes, n \in sched, task[n].ptrs /= "none"
               PROVE  task[n].pend = Cardinality(Ops(n)) /\ Ops(n) /= {}
    BY DEF PendingOpsExact
  <2>1. /\ IsFiniteSet(Ops(n)) /\ task[n].pend /= 0
        /\ task[n].pend = Cardinality(Ops(n)) + NotSubmitted(n)
    BY DEF PipelineInv, OpsCounted, CountedAt
  <2>2. NotSubmitted(n) = 0 /\ Cardinality(Ops(n)) \in Nat
    BY <2>1, FS_CardinalityType DEF NotSubmitted
  <2> QED BY <2>1, <2>2, FS_EmptySet
<1> QED BY <1>1, PipelineInvariance, PTL

\* The path both callers of ToWorkers take.
LEMMA ToWorkersCases ==
  ASSUME PipelineInv, (\E n \in Nodes : ScheduleOne(n)) \/ SubmitToWorkers
  PROVE  \E n \in Nodes :
           /\ Unscheduled(n)
           /\ \/ ToWorkers(n)
              \/ NoDockLeft(n) /\ Unwind(newQ \ {n}) /\ UNCHANGED dockVars
           /\ UNCHANGED <<layer, request, rounds, todo, cur, readyQ, execQ, running, pending,
                          outputs>>
           /\ \/ pc \in {"typeI", "toWorkers"} /\ pc' \in {"toWorkers", "raised"} /\ n \in newQ
              \/ pc = "submit" /\ pc' \in {"prefetch", "raised"} /\ n = cur
<1>1. ASSUME NEW n \in Nodes, ScheduleOne(n) PROVE Unscheduled(n)
  BY <1>1 DEF ScheduleOne, Unscheduled, PipelineInv, Tasks, Staged, StagedAt
<1>2. ASSUME SubmitToWorkers PROVE cur \in Nodes /\ Unscheduled(cur) /\ pc = "submit" /\ newQ \ {cur} = {}
  BY <1>2 DEF SubmitToWorkers, Unscheduled, Submitting, PipelineInv, Tasks, MainAgrees, Quiet
<1>3. ASSUME NEW n \in Nodes, NoDockLeft(n) PROVE UNCHANGED dockVars /\ pc' = "raised"
  BY <1>3 DEF NoDockLeft, dockVars
<1>4. CASE \E n \in Nodes : ScheduleOne(n)
  BY <1>1, <1>3, <1>4 DEF ScheduleOne, waitVars
<1>5. CASE SubmitToWorkers
  BY <1>2, <1>3, <1>5 DEF SubmitToWorkers, waitVars
<1> QED BY <1>4, <1>5

-----------------------------------------------------------------------------
(***************************************************************************)
(* Docks.                                                                  *)
(***************************************************************************)
DockTables ==
  /\ \A m, n \in Nodes : dockOf[m] = dockOf[n] /\ dockOf[m] /= NoSlot => m = n
  /\ \A n \in Nodes : dockOf[n] \notin SeqSet(freeDocks)
  /\ Distinct(freeDocks)
OpsDocked == \A n \in Nodes : \A o \in Ops(n) : o.dock = dockOf[n]

LEMMA DocksAre == DocksConsistent <=> DockTables /\ OpsDocked
BY DEF DocksConsistent, DockTables, OpsDocked, Distinct

\* A dock that is given back was nobody else's.
LEMMA FreeDockKeeps ==
  ASSUME DocksTyped, DockTables, NEW n \in Nodes, FreeDock(n)
  PROVE  /\ DockTables' /\ \A m \in Nodes \ {n} : dockOf'[m] = dockOf[m]
<1>1. /\ dockOf' \in [Nodes -> 0 .. NumDocks - 1 \cup {NoSlot}] /\ dockOf'[n] = NoSlot
      /\ \A m \in Nodes \ {n} : dockOf'[m] = dockOf[m]
  BY DEF DocksTyped, FreeDock
<1>2. CASE dockOf[n] = NoSlot
  BY <1>1, <1>2 DEF DockTables, FreeDock
<1>3. CASE dockOf[n] /= NoSlot
  <2> DEFINE d == dockOf[n]  q == freeDocks
  <2>1. freeDocks' = Append(q, d) /\ d \notin SeqSet(q) /\ d /= NoSlot /\ d \in 0 .. NumDocks - 1
    BY <1>3 DEF FreeDock, DockTables, DocksTyped
  <2>2. PICK S : q \in Seq(S) /\ d \in S /\ S = 0 .. NumDocks - 1
    BY <2>1 DEF DocksTyped
  <2>3. \A m \in Nodes \ {n} : dockOf[m] /= d
    BY <2>1 DEF DockTables
  <2>4. Distinct(q)
    BY DEF DockTables
  <2> HIDE DEF d, q
  <2>5. /\ Len(Append(q, d)) = Len(q) + 1 /\ Len(q) \in Nat
        /\ Append(q, d)[Len(q) + 1] = d
        /\ \A i \in 1 .. Len(q) : Append(q, d)[i] = q[i]
    BY <2>2
  <2>6. SeqSet(Append(q, d)) = SeqSet(q) \cup {d}
    BY <2>5 DEF SeqSet
  <2>7. Distinct(Append(q, d))
    BY <2>1, <2>4, <2>5 DEF Distinct, SeqSet
  <2>8. NoSlot \notin SeqSet(q) \cup {d}
    <3>1. q \in Seq(S)
      BY <2>2
    <3>2. \A i \in 1 .. Len(q) : q[i] \in S
      BY <3>1
    <3> QED BY <2>2, <3>2, NoSlotAssumption DEF SeqSet
  <2>9. \A m \in Nodes : dockOf'[m] \notin SeqSet(freeDocks)'
    BY <1>1, <2>1, <2>3, <2>6, <2>8 DEF DockTables, q
  <2> QED BY <1>1, <2>1, <2>7, <2>9 DEF DockTables
<1> QED BY <1>1, <1>2, <1>3

\* A dock that is taken was free, so it is nobody else's either.
LEMMA RegisterDockKeeps ==
  ASSUME DocksTyped, DockTables, NEW n \in Nodes, freeDocks /= <<>>, RegisterDock(n)
  PROVE  /\ DockTables' /\ \A m \in Nodes \ {n} : dockOf'[m] = dockOf[m]
<1>1. CASE dockOf[n] /= NoSlot
  BY <1>1 DEF RegisterDock, DockTables
<1>2. CASE dockOf[n] = NoSlot
  <2> DEFINE q == freeDocks  d == q[Len(q)]  r == SubSeq(q, 1, Len(q) - 1)
  <2>1. dockOf' = [dockOf EXCEPT ![n] = d] /\ freeDocks' = r
    BY <1>2 DEF RegisterDock
  <2>2. /\ Len(q) \in Nat \ {0} /\ d \in 0 .. NumDocks - 1
        /\ Len(r) = Len(q) - 1 /\ \A i \in 1 .. Len(r) : r[i] = q[i]
    BY LastFacts DEF DocksTyped
  <2>3. Distinct(q) /\ \A m \in Nodes : dockOf[m] \notin SeqSet(q)
    BY DEF DockTables
  <2> HIDE DEF q, d, r
  <2>4. d \in SeqSet(q) /\ d \notin SeqSet(r) /\ SeqSet(r) \subseteq SeqSet(q) /\ Distinct(r)
    BY <2>2, <2>3 DEF SeqSet, Distinct, d
  <2>5. dockOf'[n] = d /\ \A m \in Nodes \ {n} : dockOf'[m] = dockOf[m]
    BY <2>1 DEF DocksTyped
  <2>6. \A m \in Nodes : dockOf'[m] \notin SeqSet(freeDocks)'
    BY <2>1, <2>3, <2>4, <2>5
  <2> QED BY <2>1, <2>3, <2>4, <2>5, <2>6 DEF DockTables
<1> QED BY <1>1, <1>2
LEMMA DocksStep ==
  ASSUME PipelineInv, DocksConsistent, Next
  PROVE  DocksConsistent'
<1>1. ~aborted /\ DockTables /\ OpsDocked /\ DocksTyped /\ OpsServe
  BY DocksAre DEF Next, PipelineInv, Tasks
<1>0. DockTables' /\ OpsDocked' => DocksConsistent'
  BY DEF DocksConsistent, DockTables, OpsDocked, Distinct
<1>2. CASE UNCHANGED <<opVars, dockOf, freeDocks>>
  BY <1>2 DEF DocksConsistent, Ops, opVars
\* A step that only loses operations, or makes them nobody's.
<1>3. ASSUME UNCHANGED <<dockOf, freeDocks>>, \A n \in Nodes : Ops(n)' \subseteq Ops(n)
      PROVE  DocksConsistent'
  BY <1>3 DEF DocksConsistent
<1>4. ASSUME NEW w \in Workers, WorkerStep(w) PROVE DocksConsistent'
  <2>1. CASE WorkerStart(w)
    <3>1. PICK o \in opQ : opQ' = opQ \ {o} /\ work' = [work EXCEPT ![w] = o]
      BY <2>1 DEF WorkerStart
    <3>2. \A v \in Workers : work'[v] = IF v = w THEN o ELSE work[v]
      BY <3>1 DEF PipelineInv, Tasks, Types
    <3>3. \A n \in Nodes : Ops(n)' \subseteq Ops(n)
      BY <3>1, <3>2 DEF Ops
    <3> QED BY <1>3, <2>1, <3>3 DEF WorkerStart, dockVars
  <2>2. CASE WorkerFinish(w) \/ WorkerFinishLate(w)
    BY <1>3, <2>2, OpsWithout DEF WorkerFinish, WorkerFinishLate
  <2> QED BY <1>4, <2>1, <2>2 DEF WorkerStep
<1>5. ASSUME NEW n \in Nodes, CancelTask(n) PROVE DocksConsistent'
  <2>1. /\ FreeDock(n) /\ opQ' = {o \in opQ : o.node /= n}
        /\ work' = [w \in Workers |->
                IF work[w].node = n THEN [work[w] EXCEPT !.live = FALSE] ELSE work[w]]
    BY <1>5 DEF CancelTask
  <2>2. ASSUME NEW w \in Workers
        PROVE  IF work[w].node = n THEN ~work'[w].live ELSE work'[w] = work[w]
    BY <2>1 DEF PipelineInv, Tasks, Types, OpRecords, NoOp
  <2>3. DockTables' /\ \A m \in Nodes \ {n} : dockOf'[m] = dockOf[m]
    BY <1>1, <2>1, FreeDockKeeps
  <2>4. Ops(n)' = {} /\ \A m \in Nodes \ {n} : Ops(m)' \subseteq Ops(m)
    BY <2>1, <2>2 DEF Ops
  <2> QED BY <1>0, <1>1, <2>3, <2>4 DEF OpsDocked
<1>6. CASE (\E n \in Nodes : ScheduleOne(n)) \/ SubmitToWorkers
  <2>1. PICK n \in Nodes : /\ Unscheduled(n)
                          /\ \/ ToWorkers(n)
                             \/ NoDockLeft(n) /\ Unwind(newQ \ {n}) /\ UNCHANGED dockVars
    BY <1>6, ToWorkersCases
  <2>2. CASE ToWorkers(n)
    <3>1. /\ freeDocks /= <<>> /\ RegisterDock(n) /\ work' = work
          /\ opQ' = opQ \cup SubmittedOps(n, dockOf'[n])
      BY <2>2 DEF ToWorkers, SubmittedOps
    <3>2. DockTables' /\ \A m \in Nodes \ {n} : dockOf'[m] = dockOf[m]
      BY <1>1, <3>1, RegisterDockKeeps
    <3>3. \A o \in SubmittedOps(n, dockOf'[n]) : o.node = n /\ o.dock = dockOf'[n]
      BY DEF SubmittedOps
    <3>4. Ops(n) = {}
      BY <2>1, UnscheduledFacts
    <3>5. OpsDocked'
      BY <1>1, <3>1, <3>2, <3>3, <3>4 DEF OpsDocked, Ops
    <3> QED BY <1>0, <3>2, <3>5
  <2>3. CASE NoDockLeft(n) /\ Unwind(newQ \ {n}) /\ UNCHANGED dockVars
    BY <1>2, <2>3 DEF NoDockLeft, dockVars
  <2> QED BY <2>1, <2>2, <2>3
<1>7. CASE Fetch
  <2>1. PICK n \in Nodes : n = Head(readyQ) /\ n \notin sched
    BY <1>1, <1>7, FetchKeeps
  <2>2. UNCHANGED opVars /\ (FreeDock(n) \/ UNCHANGED <<dockOf, freeDocks>>)
    BY <1>7, <2>1 DEF Fetch
  <2>3. CASE FreeDock(n)
    <3>1. DockTables' /\ \A m \in Nodes \ {n} : dockOf'[m] = dockOf[m]
      BY <1>1, <2>3, FreeDockKeeps
    <3>2. Ops(n) = {}
      BY <1>1, <2>1 DEF OpsServe, Serves, Ops
    <3>3. \A m : Ops(m)' = Ops(m)
      BY <2>2 DEF Ops, opVars
    <3> QED BY <1>0, <1>1, <3>1, <3>2, <3>3 DEF OpsDocked
  <2> QED BY <1>2, <2>2, <2>3
<1> QED BY <1>2, <1>4, <1>5, <1>6, <1>7
        DEF Next, MainStep, ExecStep, Dispatch, EnqueueDecide, EnqueueScanScheduled,
            EnqueueScanReady, EnqueueLock, OpsSchedule, CancelDone, ScheduleDone,
            WaitReturns, WaitDoze, WaitSleep, SpuriousWake, WaitMove, SubmitResident,
            SubmitDone, SubmitLock, ExecStart, ExecFinish, dockVars

\* No dock is shared, none is both free and assigned, and every operation of a live task
\* writes the dock its node has.
THEOREM DocksNeverShared == Spec => []DocksConsistent
<1>1. Init => DocksConsistent
  <2> SUFFICES ASSUME Init PROVE DocksConsistent
    OBVIOUS
  <2>1. /\ dockOf = [n \in Nodes |-> NoSlot] /\ opQ = {} /\ \A w \in Workers : ~work[w].live
        /\ freeDocks = [i \in 1 .. NumDocks |-> i - 1]
    BY DEF Init, NoOp
  <2>2. Len(freeDocks) = NumDocks /\ \A i \in 1 .. NumDocks : freeDocks[i] = i - 1
    BY <2>1, PipelineAssumptions
  <2>3. NoSlot \notin SeqSet(freeDocks)
    BY <2>2, NoSlotAssumption, PipelineAssumptions DEF SeqSet
  <2>4. Distinct(freeDocks)
    BY <2>2, PipelineAssumptions DEF Distinct
  <2> QED BY <2>1, <2>3, <2>4 DEF DocksConsistent, Distinct, Ops
<1>2. PipelineInv /\ DocksConsistent /\ [Next]_vars => DocksConsistent'
  <2>1. PipelineInv /\ DocksConsistent /\ Next => DocksConsistent'
    BY DocksStep
  <2>2. DocksConsistent /\ UNCHANGED vars => DocksConsistent'
    BY DEF vars, DocksConsistent, Ops, dockVars, opVars
  <2> QED BY <2>1, <2>2
<1> QED BY <1>1, <1>2, PipelineInvariance, PTL DEF Spec
-----------------------------------------------------------------------------
(***************************************************************************)
(* Results.                                                                *)
(***************************************************************************)
\* A result is in the output queue exactly if its expert is no longer owed.
Results ==
  /\ outputs \in [Nodes -> Nat]
  /\ pc \in Serving =>
       /\ request /= {} /\ Owed \subseteq request
       /\ \A n \in Nodes : outputs[n] = IF n \in request \ Owed THEN 1 ELSE 0
  /\ pc \in Between => \A n \in Nodes : outputs[n] = 0

\* The steps that neither start nor end a dispatch, a fetch or an execution.
Minor ==
  \/ EnqueueDecide \/ OpsSchedule \/ CancelDone \/ ScheduleDone
  \/ WaitDoze \/ WaitSleep \/ SpuriousWake \/ SubmitDone
  \/ EnqueueScanScheduled \/ EnqueueScanReady \/ EnqueueLock \/ SubmitResident
  \/ \E n \in Nodes : CancelTask(n) \/ SubmitLock(n)
  \/ (\E n \in Nodes : ScheduleOne(n)) \/ SubmitToWorkers
  \/ \E w \in Workers : WorkerStep(w)

LEMMA NextIs ==
  ASSUME Next
  PROVE  /\ ~aborted
         /\ Dispatch \/ WaitReturns \/ Minor \/ Fetch \/ ExecStart \/ ExecFinish
BY DEF Next, MainStep, ExecStep, Minor

\* They leave what is owed, and so does a fetch and the start of an execution.
LEMMA OwedKept ==
  ASSUME PipelineInv, ~aborted, Minor \/ Fetch \/ ExecStart
  PROVE  /\ Owed' = Owed /\ UNCHANGED <<outputs, request, layer>>
         /\ pc' \in Serving => pc \in Serving
         /\ pc' \in Between => pc \in Between
<1>1. CASE \/ EnqueueDecide \/ OpsSchedule \/ CancelDone \/ ScheduleDone
           \/ WaitDoze \/ WaitSleep \/ SpuriousWake \/ SubmitDone
  <2>1. Owed' = Owed
    BY <1>1, EnqueueDecideStep, PhaseStep
  <2> QED BY <1>1, <2>1 DEF EnqueueDecide, OpsSchedule, CancelDone, ScheduleDone, WaitDoze,
             WaitSleep, SpuriousWake, SubmitDone, WaitMove, waitVars, Serving, Between
<1>2. CASE \/ EnqueueScanScheduled \/ EnqueueScanReady \/ EnqueueLock
           \/ SubmitResident \/ \E n \in Nodes : CancelTask(n) \/ SubmitLock(n)
  <2>1. Owed' = Owed
    BY <1>2, EnqueueScanScheduledStep, EnqueueScanReadyStep, EnqueueLockStep,
       SubmitResidentStep, CancelTaskStep, SubmitLockStep
  <2> QED BY <1>2, <2>1 DEF EnqueueScanScheduled, EnqueueScanReady, EnqueueLock, Promote,
             SubmitResident, CancelTask, SubmitLock, waitVars, mainVars, Serving, Between
<1>3. CASE (\E n \in Nodes : ScheduleOne(n)) \/ SubmitToWorkers
  <2>1. Owed' = Owed
    BY <1>3, ScheduleStep
  <2> QED BY <1>3, <2>1, ToWorkersCases DEF Serving, Between
<1>4. CASE (\E w \in Workers : WorkerStep(w)) \/ Fetch \/ ExecStart
  <2>1. ASSUME NEW w \in Workers, WorkerStart(w) \/ WorkerFinishLate(w)
        PROVE  Owed' = Owed
    BY <2>1 DEF WorkerStart, WorkerFinishLate, Owed, Demanded, cacheVars, mainVars, taskVars
  <2>2. ASSUME ExecStart PROVE Owed' = Owed
    BY <2>2 DEF ExecStart, Owed, Demanded, cacheVars, mainVars
  <2>3. Owed' = Owed
    BY <1>4, <2>1, <2>2, WorkerFinishStep, FetchStep DEF WorkerStep
  <2> QED BY <1>4, <2>3 DEF WorkerStep, WorkerStart, WorkerFinish, WorkerFinishLate, Fetch,
             ExecStart, mainVars, waitVars
<1> QED BY <1>1, <1>2, <1>3, <1>4 DEF Minor

LEMMA ResultsStep ==
  ASSUME PipelineInv, Results, Next
  PROVE  Results'
<1>1. CASE Dispatch
  <2>1. PICK R \in (SUBSET LayerNodes(layer)) \ {{}} : request' = R /\ todo' = R
    BY <1>1 DEF Dispatch
  <2>2. pc = "idle" /\ pc' = "decide" /\ UNCHANGED <<outputs, cacheVars, taskVars>>
    BY <1>1 DEF Dispatch
  <2>3. Owed' = R
    BY <2>1, <2>2 DEF PipelineInv, Tasks, MainAgrees, Owed, Demanded, Enqueuing, Scanning,
       cacheVars, taskVars
  <2>4. R /= {}
    OBVIOUS
  <2>5. \A n \in Nodes : outputs'[n] = 0
    BY <2>2 DEF Results, Between
  <2>6. outputs' \in [Nodes -> Nat] /\ pc' \notin Between
    BY <2>2 DEF Results, Between
  <2> QED BY <2>1, <2>3, <2>4, <2>5, <2>6 DEF Results
<1>2. CASE WaitReturns
  BY <1>2 DEF WaitReturns, Results, Serving, Between
<1>3. CASE ExecFinish
  <2>0. running \in Owed /\ Owed' = IF aborted' THEN Owed ELSE Owed \ {running}
    BY <1>3, NextIs, ExecFinishStep
  <2>1. /\ request' = request
        /\ IF aborted' THEN UNCHANGED <<outputs, pc>>
           ELSE /\ outputs' = [outputs EXCEPT ![running] = @ + 1]
                /\ pc' = pc \/ (pc = "asleep" /\ pc' = "wait")
    BY <1>3 DEF ExecFinish
  <2>2. running \in Nodes /\ pc' \notin Between
    <3>1. running \in Demanded
      BY <1>3, <2>1, NoNodeAssumption DEF ExecFinish, PipelineInv, Tasks, Placed, Staged,
         StagedAt, Demanded, Types
    <3>2. pc \notin Between
      BY <3>1 DEF PipelineInv, Tasks, MainAgrees, Between
    <3> QED BY <2>1, <3>1, <3>2, CacheFacts DEF Demanded, PipelineInv, Between
  <2>3. pc' \in Serving <=> pc \in Serving
    BY <2>1 DEF Serving
  <2>4. CASE aborted'
    BY <2>0, <2>1, <2>2, <2>4 DEF Results
  <2>5. CASE ~aborted'
    BY <2>0, <2>1, <2>2, <2>3, <2>5 DEF Results
  <2> QED BY <2>4, <2>5
<1>4. CASE Minor \/ Fetch \/ ExecStart
  BY <1>4, NextIs, OwedKept DEF Results
<1> QED BY <1>1, <1>2, <1>3, <1>4, NextIs

LEMMA InitResults == Init => Results
BY DEF Init, Results, Serving, Between

LEMMA StutterOwed ==
  ASSUME UNCHANGED vars
  PROVE  Owed' = Owed
BY DEF vars, Owed, Demanded, cacheVars, mainVars, taskVars

THEOREM ResultsInvariance == Spec => [](PipelineInv /\ Results)
<1>1. PipelineInv /\ Results /\ [Next]_vars => Results'
  <2>1. PipelineInv /\ Results /\ Next => Results'
    BY ResultsStep
  <2>2. Results /\ UNCHANGED vars => Results'
    BY StutterOwed DEF vars, Results, mainVars, waitVars
  <2> QED BY <2>1, <2>2
<1> QED BY InitResults, <1>1, PipelineInvariance, PTL DEF Spec

\* When Wait sees that nothing is pending, the output queue holds exactly one result for
\* each expert of the dispatch and none for any other, however the experts of the
\* dispatch, the prefetches they hit and the cancellations were interleaved.
THEOREM EachResultOnce == Spec => []ResultsMatch
<1>1. PipelineInv /\ Results => ResultsMatch
  <2> SUFFICES ASSUME PipelineInv, Results, pc = "wait", pending = 0
               PROVE  \A n \in Nodes : outputs[n] = IF n \in request THEN 1 ELSE 0
    BY DEF ResultsMatch
  <2>1. Owed = {}
    BY OwedFinite, FS_EmptySet DEF PipelineInv, Tasks, PendingCounts
  <2> QED BY <2>1 DEF Results, Serving
<1> QED BY <1>1, ResultsInvariance, PTL
-----------------------------------------------------------------------------
(***************************************************************************)
(* The order of the prefetches.                                            *)
(***************************************************************************)
\* The prefetches of a layer that is not the one being served.
Old == {n \in locked \ Demanded : LayerOf[n] /= layer}

\* They come first in the ready queue, so nothing a dispatch demands is executed before
\* they are fetched.
OldFirst ==
  /\ Old \subseteq Ready
  /\ \A i, j \in 1 .. Len(readyQ) : i < j /\ readyQ[j] \in Old => readyQ[i] \in Old
  /\ Old /= {} => Exec = {} /\ running = NoNode /\ (pc \in Serving => Owed = request)

\* What is scheduled once the prefetches nobody hit are cancelled is a demand; what is
\* still to be prefetched is not in flight.
Collecting == {"typeI", "toWorkers", "wait", "dozing", "asleep"}
Orderly ==
  /\ pc \in Collecting => sched \subseteq Demanded
  /\ pc \in {"prefetch", "submit"} =>
       /\ todo \subseteq LayerNodes(layer)
       /\ NumLayers > 1 => todo \cap locked = {}

\* The steps that take, release and promote no task.
LEMMA SameFlight ==
  ASSUME PipelineInv, ~aborted,
         \/ Dispatch \/ EnqueueDecide \/ OpsSchedule \/ CancelDone \/ ScheduleDone
         \/ WaitReturns \/ WaitDoze \/ WaitSleep \/ SpuriousWake \/ SubmitDone
         \/ SubmitResident \/ (\E n \in Nodes : ScheduleOne(n)) \/ SubmitToWorkers
         \/ (\E w \in Workers : WorkerStep(w)) \/ ExecStart
  PROVE  locked' = locked /\ Demanded' = Demanded
<1>1. CASE \/ Dispatch \/ EnqueueDecide \/ OpsSchedule \/ CancelDone \/ ScheduleDone
           \/ WaitReturns \/ WaitDoze \/ WaitSleep \/ SpuriousWake \/ SubmitDone
           \/ SubmitResident \/ ExecStart
  <2>1. UNCHANGED <<locked, task>>
    BY <1>1 DEF Dispatch, EnqueueDecide, OpsSchedule, CancelDone, ScheduleDone,
       WaitReturns, WaitDoze, WaitSleep, SpuriousWake, SubmitDone, SubmitResident,
       ExecStart, WaitMove, cacheVars, taskVars
  <2> QED BY <2>1 DEF Demanded
<1>2. CASE (\E n \in Nodes : ScheduleOne(n)) \/ SubmitToWorkers
  <2>1. PICK n \in Nodes : /\ Unscheduled(n) /\ UNCHANGED <<execQ, running>>
                          /\ \/ ToWorkers(n)
                             \/ NoDockLeft(n) /\ Unwind(newQ \ {n}) /\ UNCHANGED dockVars
    BY <1>2, ToWorkersCases
  <2>2. CASE ToWorkers(n)
    BY <2>1, <2>2, StageStep
  <2>3. CASE NoDockLeft(n) /\ Unwind(newQ \ {n})
    BY <2>1, <2>3, UnwindKeeps
  <2> QED BY <2>1, <2>2, <2>3
<1>3. ASSUME NEW w \in Workers, WorkerStart(w) \/ WorkerFinishLate(w)
      PROVE  locked' = locked /\ Demanded' = Demanded
  BY <1>3 DEF WorkerStart, WorkerFinishLate, Demanded, cacheVars, taskVars
<1>4. ASSUME NEW w \in Workers, WorkerFinish(w)
      PROVE  locked' = locked /\ Demanded' = Demanded
  <2>1. locked' = locked /\ locked \subseteq Nodes
    BY <1>4, CacheFacts DEF WorkerFinish, cacheVars, PipelineInv
  <2>2. task \in [Nodes -> TaskRecords] /\ \E n, k : task' = [task EXCEPT ![n].pend = k]
    BY <1>4 DEF WorkerFinish, PipelineInv, Tasks, Types
  <2>3. \A m \in Nodes : task'[m].state = task[m].state
    BY <2>2 DEF TaskRecords
  <2> QED BY <2>1, <2>3 DEF Demanded
<1> QED BY <1>1, <1>2, <1>3, <1>4 DEF WorkerStep

\* Those that do: a scan that hits a prefetch, the two lock()s, a cancellation, and the
\* ends of a fetch and of an execution.
LEMMA ScanFlight ==
  ASSUME PipelineInv, EnqueueScanScheduled \/ EnqueueScanReady
  PROVE  /\ locked' = locked /\ cur \in LayerNodes(layer)
         /\ Demanded' = Demanded \/ Demanded' = Demanded \cup {cur}
<1>1. /\ pc \in Scanning
      /\ task' = task \/ task' = [task EXCEPT ![cur].state = "NORMAL", ![cur].hit = TRUE]
      /\ UNCHANGED cacheVars \/ UpdateOnHit(cur, 1)
  BY DEF EnqueueScanScheduled, EnqueueScanReady, Promote, Scanning
<1>2. cur \in LayerNodes(layer) /\ cur \in Nodes
  BY <1>1 DEF PipelineInv, Tasks, MainAgrees, LayerNodes
<1>3. locked' = locked /\ locked \subseteq Nodes
  BY <1>1, <1>2, HitKeeps, CacheFacts DEF PipelineInv, cacheVars
<1>4. CASE task' = task
  BY <1>2, <1>3, <1>4 DEF Demanded
<1>5. CASE task' = [task EXCEPT ![cur].state = "NORMAL", ![cur].hit = TRUE]
  <2>1. task'[cur].state = "NORMAL" /\ \A m \in Nodes \ {cur} : task'[m] = task[m]
    BY <1>2, <1>5 DEF PipelineInv, Tasks, Types, TaskRecords
  <2>2. \A m \in Nodes : m \in Demanded' <=> m \in locked /\ (m = cur \/ m \in Demanded)
    BY <1>3, <2>1 DEF Demanded
  <2>3. Demanded \subseteq Nodes /\ Demanded' \subseteq Nodes /\ Demanded \subseteq locked
    BY <1>3 DEF Demanded
  <2>4. CASE cur \in locked
    BY <1>2, <1>3, <2>2, <2>3, <2>4
  <2>5. CASE cur \notin locked
    BY <1>2, <1>3, <2>2, <2>3, <2>5
  <2> QED BY <1>2, <1>3, <2>4, <2>5
<1> QED BY <1>1, <1>4, <1>5

LEMMA LockFlight ==
  ASSUME PipelineInv, ~aborted, EnqueueLock
  PROVE  /\ cur \in LayerNodes(layer) /\ locked' = locked \cup {cur} /\ cur \in Nodes
         /\ Demanded' = Demanded \cup {cur}
<1> DEFINE state == IF Resident(cur) THEN "NORMAL" ELSE decision
           t == NewTask(cur, state)
<1>1. cur \in LayerNodes(layer) /\ cur \in Nodes /\ cur \notin locked
  BY DEF EnqueueLock, PipelineInv, Tasks, MainAgrees, Scanning, LayerNodes
<1>2. /\ locked' = locked \cup {cur} /\ task' = [task EXCEPT ![cur] = t]
      /\ execQ' = execQ /\ running' = running
      /\ UNCHANGED <<gpuPool, smPool, gpuMeta, smMeta, node, now, aborted>>
  BY DEF EnqueueLock
<1>3. /\ state \in {"NORMAL", "SMCACHE", "EVICT"} /\ t \in TaskRecords /\ t.state = state
      /\ t.ptrs = "none"
  BY <1>1, NewTaskType DEF PipelineInv, Tasks, Types, States
<1> HIDE DEF t, state
<1> QED BY <1>1, <1>2, <1>3, AcquireStep

LEMMA SubmitFlight ==
  ASSUME PipelineInv, ~aborted, NEW n \in Nodes, SubmitLock(n)
  PROVE  locked' = locked \cup {n} /\ Demanded' = Demanded
<1> DEFINE t == NewTask(n, "PREFETCH")
<1>1. /\ locked' = locked \cup {n} /\ n \notin locked /\ task' = [task EXCEPT ![n] = t]
      /\ execQ' = execQ /\ running' = running
      /\ UNCHANGED <<gpuPool, smPool, gpuMeta, smMeta, node, now, aborted>>
  BY DEF SubmitLock
<1>2. t \in TaskRecords /\ t.state = "PREFETCH" /\ t.ptrs = "none"
  BY NewTaskType DEF States
<1> HIDE DEF t
<1> QED BY <1>1, <1>2, AcquireStep

LEMMA CancelFlight ==
  ASSUME PipelineInv, ~aborted, NEW n \in Nodes, CancelTask(n)
  PROVE  locked' = locked \ {n} /\ n \notin Ready /\ Demanded' = Demanded
<1>1. task' = [task EXCEPT ![n] = NoTask]
  BY DEF CancelTask
<1>2. \A m \in Nodes \ {n} : task'[m] = task[m]
  BY <1>1 DEF PipelineInv, Tasks, Types
<1> QED BY <1>2, CancelFacts, CacheFacts DEF Demanded, PipelineInv

LEMMA FetchFlight ==
  ASSUME PipelineInv, ~aborted, Fetch
  PROVE  LET n == Head(readyQ) IN
         /\ n \in Ready /\ readyQ' = Tail(readyQ) /\ readyQ /= <<>>
         /\ Demanded' = Demanded
         /\ IF n \in Demanded THEN locked' = locked
            ELSE locked' = locked \ {n} /\ execQ' = execQ
<1>0. PICK n \in Nodes : n = Head(readyQ)
  BY FetchKeeps
<1>1. /\ n \in Ready /\ n \in locked /\ n \notin newQ \cup sched \cup Exec \cup {running}
  BY <1>0, FetchKeeps
<1>2. /\ readyQ' = Tail(readyQ) /\ readyQ /= <<>>
      /\ IF task[n].state = "PREFETCH"
         THEN locked' = locked \ {n} /\ task' = [task EXCEPT ![n] = NoTask] /\ execQ' = execQ
         ELSE locked' = locked /\ task' = task
  BY <1>0 DEF Fetch
<1>3. locked \subseteq Nodes /\ task \in [Nodes -> TaskRecords]
  BY CacheFacts DEF PipelineInv, Tasks, Types
<1>4. CASE task[n].state = "PREFETCH"
  <2>1. \A m \in Nodes \ {n} : task'[m] = task[m]
    BY <1>2, <1>3, <1>4
  <2>2. Demanded' = Demanded
    BY <1>2, <1>3, <1>4, <2>1 DEF Demanded
  <2>3. n \notin Demanded
    BY <1>4 DEF Demanded
  <2> QED BY <1>0, <1>1, <1>2, <1>4, <2>2, <2>3
<1>5. CASE task[n].state /= "PREFETCH"
  <2>1. n \in Demanded /\ Demanded' = Demanded
    BY <1>1, <1>2, <1>5 DEF Demanded
  <2> QED BY <1>0, <1>1, <1>2, <1>5, <2>1
<1> QED BY <1>4, <1>5

LEMMA FinishFlight ==
  ASSUME PipelineInv, ~aborted, ExecFinish
  PROVE  /\ running \in Demanded /\ running \notin sched
         /\ locked' \subseteq locked /\ Demanded' \in {Demanded, Demanded \ {running}}
         /\ locked' = locked \ {running} \/ Demanded' = Demanded
<1>1. PICK n \in Nodes : n = running
  BY DEF ExecFinish, PipelineInv, Tasks, Types
<1>2. n \in locked /\ n \notin sched /\ task[n].state /= "PREFETCH"
  BY <1>1, NoNodeAssumption DEF PipelineInv, Tasks, Placed, Staged, StagedAt
<1>3. IF aborted' THEN UNCHANGED <<locked, task>>
      ELSE locked' = locked \ {n} /\ task' = [task EXCEPT ![n] = NoTask]
  BY <1>1 DEF ExecFinish
<1>4. locked \subseteq Nodes /\ task \in [Nodes -> TaskRecords]
  BY CacheFacts DEF PipelineInv, Tasks, Types
<1>5. CASE aborted'
  BY <1>1, <1>2, <1>3, <1>5 DEF Demanded
<1>6. CASE ~aborted'
  <2>1. \A m \in Nodes \ {n} : task'[m] = task[m]
    BY <1>3, <1>4, <1>6
  <2>2. Demanded' = Demanded \ {n}
    BY <1>3, <1>4, <1>6, <2>1 DEF Demanded
  <2> QED BY <1>1, <1>2, <1>3, <1>6, <2>2 DEF Demanded
<1> QED BY <1>5, <1>6
-----------------------------------------------------------------------------
\* Appending to the ready queue, or leaving it, keeps the old prefetches in front.
LEMMA OldKept ==
  ASSUME PipelineInv, OldFirst, Old' = Old,
         \/ readyQ' = readyQ
         \/ \E n \in Nodes \ Old : readyQ' = Append(readyQ, n),
         Old /= {} => /\ Exec' = {} /\ running' = NoNode
                      /\ pc' \in Serving => Owed' = request'
  PROVE  OldFirst'
<1>1. CASE readyQ' = readyQ
  BY <1>1 DEF OldFirst, Ready
<1>2. ASSUME NEW n \in Nodes \ Old, readyQ' = Append(readyQ, n)
      PROVE  OldFirst'
  <2>1. readyQ \in Seq(Nodes)
    BY DEF PipelineInv, Tasks, Types
  <2>2. /\ Len(readyQ') = Len(readyQ) + 1 /\ Len(readyQ) \in Nat
        /\ readyQ'[Len(readyQ) + 1] = n
        /\ \A i \in 1 .. Len(readyQ) : readyQ'[i] = readyQ[i]
    BY <1>2, <2>1
  <2>3. Ready \subseteq Ready'
    BY <2>2 DEF Ready, SeqSet
  <2>4. ASSUME NEW i \in 1 .. Len(readyQ'), NEW j \in 1 .. Len(readyQ'), i < j,
               readyQ'[j] \in Old
        PROVE  readyQ'[i] \in Old
    <3>1. j /= Len(readyQ) + 1
      BY <1>2, <2>2, <2>4
    <3>2. i \in 1 .. Len(readyQ) /\ j \in 1 .. Len(readyQ)
      BY <2>2, <2>4, <3>1
    <3> QED BY <2>2, <2>4, <3>2 DEF OldFirst
  <2> QED BY <2>3, <2>4 DEF OldFirst
<1> QED BY <1>1, <1>2

\* The head of the queue is an old prefetch if there is one.
LEMMA OldFetched ==
  ASSUME PipelineInv, ~aborted, OldFirst, Fetch
  PROVE  OldFirst'
<1>1. PICK n : n = Head(readyQ)
  OBVIOUS
<1>2. /\ n \in Ready /\ readyQ' = Tail(readyQ) /\ readyQ /= <<>> /\ Demanded' = Demanded
      /\ IF n \in Demanded THEN locked' = locked
         ELSE locked' = locked \ {n} /\ execQ' = execQ
  BY <1>1, FetchFlight
<1>3. /\ UNCHANGED <<layer, pc, request, running>> /\ Owed' = Owed
  BY FetchStep DEF Fetch, mainVars
<1>4. Old' \subseteq Old /\ (n \notin Demanded => Old' = Old \ {n})
  BY <1>2, <1>3 DEF Old
<1>5. CASE Old = {}
  BY <1>4, <1>5 DEF OldFirst
<1>6. CASE Old /= {}
  <2>1. /\ readyQ \in Seq(Nodes) /\ Distinct(readyQ)
    BY DEF PipelineInv, Tasks, Types, Placed
  <2>2. /\ Len(readyQ') = Len(readyQ) - 1 /\ Len(readyQ) \in Nat \ {0} /\ n = readyQ[1]
        /\ \A i \in 1 .. Len(readyQ) - 1 : readyQ'[i] = readyQ[i + 1]
    BY <1>1, <1>2, <2>1
  <2>3. n \in Old
    <3>1. PICK j \in 1 .. Len(readyQ) : readyQ[j] \in Old
      BY <1>6 DEF OldFirst, Ready, SeqSet
    <3>2. CASE j = 1
      BY <2>2, <3>1, <3>2
    <3>3. CASE j /= 1
      <4>1. 1 \in 1 .. Len(readyQ) /\ 1 < j
        BY <2>2, <3>3
      <4> QED BY <2>2, <3>1, <4>1 DEF OldFirst
    <3> QED BY <3>2, <3>3
  <2>4. n \notin Demanded
    BY <2>3 DEF Old
  <2>5. Old' = Old \ {n} /\ execQ' = execQ
    BY <1>2, <1>4, <2>4
  <2>6. Ready' = Ready \ {n}
    BY <1>2, <2>1, <1>1, TailFacts DEF Ready
  <2>7. ASSUME NEW i \in 1 .. Len(readyQ'), NEW j \in 1 .. Len(readyQ'), i < j,
               readyQ'[j] \in Old'
        PROVE  readyQ'[i] \in Old'
    <3>1. /\ i + 1 \in 1 .. Len(readyQ) /\ j + 1 \in 1 .. Len(readyQ) /\ i + 1 < j + 1
          /\ readyQ'[i] = readyQ[i + 1] /\ readyQ'[j] = readyQ[j + 1]
          /\ i + 1 /= 1 /\ 1 \in 1 .. Len(readyQ)
      BY <2>2, <2>7
    <3>2. readyQ[i + 1] \in Old
      BY <2>5, <2>7, <3>1 DEF OldFirst
    <3>3. readyQ[i + 1] /= n
      BY <2>1, <2>2, <3>1 DEF Distinct
    <3> QED BY <2>5, <3>1, <3>2, <3>3
  <2>8. Exec' = {} /\ running' = NoNode /\ (pc' \in Serving => Owed' = request')
    BY <1>3, <1>6, <2>5 DEF OldFirst, Exec
  <2>9. Old' \subseteq Ready'
    BY <2>5, <2>6 DEF OldFirst
  <2> QED BY <2>7, <2>8, <2>9 DEF OldFirst
<1> QED BY <1>5, <1>6

\* When the results are collected no old prefetch is left: with none pending, the first
\* of them would be in front of everything the dispatch demanded.
LEMMA OldGone ==
  ASSUME PipelineInv, Results, OldFirst, pc = "wait", pending = 0
  PROVE  Old = {} /\ Owed = {} /\ Demanded = {}
<1>1. Owed = {}
  BY OwedFinite, FS_EmptySet DEF PipelineInv, Tasks, PendingCounts
<1>2. request /= {} /\ (Old /= {} => Owed = request)
  BY DEF Results, OldFirst, Serving
<1> QED BY <1>1, <1>2 DEF Owed

LEMMA NextLayerDiffers ==
  ASSUME NumLayers > 1, layer \in 0 .. NumLayers - 1
  PROVE  NextLayer /= layer
<1>1. NumLayers \in Nat /\ layer \in Nat /\ layer < NumLayers
  BY PipelineAssumptions
<1>2. CASE layer + 1 < NumLayers
  <2>1. (layer + 1) % NumLayers = layer + 1
    BY <1>1, <1>2
  <2> QED BY <1>1, <2>1 DEF NextLayer
<1>3. CASE layer + 1 = NumLayers
  <2>1. NumLayers % NumLayers = 0
    BY <1>1
  <2> QED BY <1>1, <1>3, <2>1 DEF NextLayer
<1> QED BY <1>1, <1>2, <1>3

LEMMA CollectedStep ==
  ASSUME PipelineInv, Results, OldFirst, Orderly, WaitReturns
  PROVE  OldFirst' /\ Orderly'
<1>1. /\ pc = "wait" /\ pending = 0 /\ pc' = "prefetch" /\ layer' = NextLayer
      /\ UNCHANGED <<cacheVars, taskVars>>
  BY DEF WaitReturns
<1>2. Old = {} /\ Demanded = {}
  BY <1>1, OldGone
<1>3. UNCHANGED <<locked, task, readyQ, execQ, running>>
  BY <1>1 DEF cacheVars, taskVars
<1>4. Demanded' = {} /\ Ready' = Ready /\ Exec' = Exec
  BY <1>2, <1>3 DEF Demanded, Ready, Exec
<1>5. sched = {} /\ newQ = {} /\ Submitting = {}
  BY <1>1, <1>2 DEF Orderly, Collecting, PipelineInv, Tasks, MainAgrees, Quiet, Submitting
<1>6. Exec = {} /\ running = NoNode
  <2>1. \A n \in Nodes : n \in Exec \/ n = running => n \in Demanded
    BY NoNodeAssumption DEF PipelineInv, Tasks, Placed, Staged, StagedAt, Demanded
  <2> QED BY <1>2, <2>1, QueueFacts DEF PipelineInv, Tasks, Types
<1>7. locked = Ready
  BY <1>1, <1>5, <1>6, QueueFacts, NoNodeAssumption DEF PipelineInv, Tasks, Placed
<1>8. \A n \in locked : LayerOf[n] = layer
  BY <1>2 DEF Old
<1>9. Old' \subseteq Ready' /\ (Old' = Ready' \/ Old' = {})
  BY <1>3, <1>4, <1>7, <1>8, <1>1 DEF Old
<1>10. OldFirst'
  <2>1. \A i \in 1 .. Len(readyQ)' : readyQ'[i] \in Ready'
    BY DEF Ready, SeqSet
  <2> QED BY <1>1, <1>3, <1>4, <1>6, <1>9, <2>1 DEF OldFirst, Serving
<1>11. Orderly'
  <2>1. PICK P \in SUBSET LayerNodes(NextLayer) : todo' = P
    BY DEF WaitReturns
  <2>2. NumLayers > 1 => NextLayer /= layer
    BY NextLayerDiffers DEF PipelineInv, Tasks, Types
  <2>3. todo' \subseteq LayerNodes(layer)'
    BY <1>1, <2>1 DEF LayerNodes
  <2>4. NumLayers > 1 => todo' \cap locked' = {}
    BY <1>3, <1>8, <2>1, <2>2 DEF LayerNodes
  <2> QED BY <1>1, <2>3, <2>4 DEF Orderly, Collecting
<1> QED BY <1>10, <1>11
\* No other step makes a prefetch old, and none puts one behind another task.
LEMMA MinorQueues ==
  ASSUME PipelineInv, ~aborted, OldFirst, Orderly, Minor
  PROVE  /\ UNCHANGED <<execQ, running, layer>> /\ Old' = Old
         /\ \/ readyQ' = readyQ
            \/ \E n \in Nodes \ Old : readyQ' = Append(readyQ, n)
<1>1. CASE \/ EnqueueDecide \/ OpsSchedule \/ CancelDone \/ ScheduleDone
           \/ WaitDoze \/ WaitSleep \/ SpuriousWake \/ SubmitDone
  <2>1. UNCHANGED <<execQ, running, layer, readyQ>>
    BY <1>1 DEF EnqueueDecide, OpsSchedule, CancelDone, ScheduleDone, WaitDoze,
       WaitSleep, SpuriousWake, SubmitDone, WaitMove, taskVars
  <2>2. locked' = locked /\ Demanded' = Demanded
    BY <1>1, SameFlight
  <2> QED BY <2>1, <2>2 DEF Old
<1>2. CASE EnqueueScanScheduled \/ EnqueueScanReady
  <2>1. UNCHANGED <<execQ, running, layer, readyQ>>
    BY <1>2 DEF EnqueueScanScheduled, EnqueueScanReady
  <2> QED BY <1>2, <2>1, ScanFlight DEF Old, LayerNodes
<1>3. CASE EnqueueLock
  <2>1. /\ UNCHANGED <<execQ, running, layer>>
        /\ readyQ' = readyQ \/ readyQ' = Append(readyQ, cur)
    BY <1>3 DEF EnqueueLock
  <2>2. /\ cur \in LayerNodes(layer) /\ locked' = locked \cup {cur} /\ cur \in Nodes
        /\ Demanded' = Demanded \cup {cur}
    BY <1>3, LockFlight
  <2> QED BY <2>1, <2>2 DEF Old, LayerNodes
<1>4. CASE SubmitResident
  <2>1. UNCHANGED <<execQ, running, layer>> /\ readyQ' = Append(readyQ, cur)
    BY <1>4 DEF SubmitResident
  <2>2. cur \in Nodes /\ cur \notin Ready
    BY <1>4 DEF SubmitResident, PipelineInv, Tasks, MainAgrees, Placed, Submitting
  <2>3. locked' = locked /\ Demanded' = Demanded
    BY <1>4, SameFlight
  <2> QED BY <2>1, <2>2, <2>3 DEF Old, OldFirst
<1>5. ASSUME NEW n \in Nodes, CancelTask(n)
      PROVE  UNCHANGED <<execQ, running, layer, readyQ>> /\ Old' = Old
  <2>1. UNCHANGED <<execQ, running, layer, readyQ>>
    BY <1>5 DEF CancelTask, mainVars
  <2>2. locked' = locked \ {n} /\ n \notin Ready /\ Demanded' = Demanded
    BY <1>5, CancelFlight
  <2> QED BY <2>1, <2>2 DEF Old, OldFirst
<1>6. ASSUME NEW n \in Nodes, SubmitLock(n)
      PROVE  UNCHANGED <<execQ, running, layer, readyQ>> /\ Old' = Old
  <2>1. UNCHANGED <<execQ, running, layer, readyQ>> /\ pc = "prefetch" /\ n \in todo
    BY <1>6 DEF SubmitLock
  <2>2. locked' = locked \cup {n} /\ Demanded' = Demanded
    BY <1>6, SubmitFlight
  <2> QED BY <2>1, <2>2 DEF Old, Orderly, LayerNodes
<1>7. CASE (\E n \in Nodes : ScheduleOne(n)) \/ SubmitToWorkers
  <2>1. UNCHANGED <<execQ, running, layer, readyQ>>
    BY <1>7, ToWorkersCases
  <2>2. locked' = locked /\ Demanded' = Demanded
    BY <1>7, SameFlight
  <2> QED BY <2>1, <2>2 DEF Old
<1>8. ASSUME NEW w \in Workers, WorkerStep(w)
      PROVE  /\ UNCHANGED <<execQ, running, layer>> /\ Old' = Old
             /\ \/ readyQ' = readyQ
                \/ \E n \in Nodes \ Old : readyQ' = Append(readyQ, n)
  <2>1. locked' = locked /\ Demanded' = Demanded
    BY <1>8, SameFlight
  <2>2. CASE WorkerStart(w) \/ WorkerFinishLate(w)
    BY <2>1, <2>2 DEF WorkerStart, WorkerFinishLate, Old, taskVars, mainVars
  <2>3. CASE WorkerFinish(w)
    <3>1. PICK n : n = work[w].node
      OBVIOUS
    <3>2. n \in Nodes /\ n \notin Ready
      BY <2>3, <3>1, LiveOpFacts DEF WorkerFinish
    <3>3. /\ UNCHANGED <<execQ, running, layer>>
          /\ readyQ' = readyQ \/ readyQ' = Append(readyQ, n)
      BY <2>3, <3>1 DEF WorkerFinish, mainVars
    <3> QED BY <2>1, <3>2, <3>3 DEF Old, OldFirst
  <2> QED BY <1>8, <2>2, <2>3 DEF WorkerStep
<1> QED BY <1>1, <1>2, <1>3, <1>4, <1>5, <1>6, <1>7, <1>8 DEF Minor

LEMMA OldFirstStep ==
  ASSUME PipelineInv, Results, OldFirst, Orderly, Next
  PROVE  OldFirst'
<1>1. ~aborted /\ (Dispatch \/ WaitReturns \/ Minor \/ Fetch \/ ExecStart \/ ExecFinish)
  BY NextIs
<1>2. CASE Minor
  <2>1. Exec' = Exec /\ running' = running
    BY <1>1, <1>2, MinorQueues DEF Exec
  <2>2. Old /= {} => /\ Exec' = {} /\ running' = NoNode
                     /\ pc' \in Serving => Owed' = request'
    BY <1>1, <1>2, <2>1, OwedKept DEF OldFirst
  <2> QED BY <1>1, <1>2, <2>2, MinorQueues, OldKept
<1>3. CASE Dispatch
  <2>1. locked' = locked /\ Demanded' = Demanded
    BY <1>1, <1>3, SameFlight
  <2>2. UNCHANGED <<readyQ, execQ, running, layer, task>> /\ pc = "idle" /\ pc' = "decide"
    BY <1>3 DEF Dispatch, taskVars
  <2>3. Owed' = request'
    <3>1. request' = todo'
      BY <1>3 DEF Dispatch
    <3> QED BY <2>1, <2>2, <3>1 DEF PipelineInv, Tasks, MainAgrees, Owed, Enqueuing, Scanning
  <2> QED BY <2>1, <2>2, <2>3 DEF Old, OldFirst, Ready, Exec
<1>4. CASE ExecStart
  <2>1. locked' = locked /\ Demanded' = Demanded /\ UNCHANGED <<layer, readyQ>>
    BY <1>1, <1>4, SameFlight DEF ExecStart, mainVars
  <2>2. Exec /= {}
    <3>1. execQ \in Seq(Nodes) /\ execQ /= <<>>
      BY <1>4 DEF ExecStart, PipelineInv, Tasks, Types
    <3>2. 1 \in 1 .. Len(execQ)
      BY <3>1
    <3> QED BY <3>2 DEF Exec, SeqSet
  <2>3. Old' = {}
    BY <2>1, <2>2 DEF Old, OldFirst
  <2> QED BY <2>3 DEF OldFirst
<1>5. CASE ExecFinish
  <2>1. /\ running /= NoNode /\ layer' = layer
    BY <1>5 DEF ExecFinish
  <2>2. Old = {}
    BY <2>1 DEF OldFirst
  <2>3. /\ locked' \subseteq locked /\ running \in Demanded
        /\ Demanded' \in {Demanded, Demanded \ {running}}
        /\ locked' = locked \ {running} \/ Demanded' = Demanded
    BY <1>1, <1>5, FinishFlight
  <2>4. Old' = {}
    BY <2>1, <2>2, <2>3 DEF Old
  <2> QED BY <2>4 DEF OldFirst
<1> QED BY <1>1, <1>2, <1>3, <1>4, <1>5, OldFetched, CollectedStep
LEMMA OrderlyKept ==
  ASSUME Orderly, UNCHANGED <<todo, layer>>, sched' \subseteq sched,
         sched' \cap Demanded \subseteq Demanded', locked' \subseteq locked,
         pc' \in Collecting => pc \in Collecting,
         pc' \in {"prefetch", "submit"} => pc \in {"prefetch", "submit"}
  PROVE  Orderly'
BY DEF Orderly, LayerNodes

LEMMA OrderlyStep ==
  ASSUME PipelineInv, Results, OldFirst, Orderly, Next
  PROVE  Orderly'
<1>1. ~aborted /\ (Dispatch \/ WaitReturns \/ Minor \/ Fetch \/ ExecStart \/ ExecFinish)
  BY NextIs
<1>2. CASE \/ Dispatch \/ EnqueueDecide \/ OpsSchedule
           \/ EnqueueScanScheduled \/ EnqueueScanReady \/ EnqueueLock
           \/ SubmitDone \/ \E n \in Nodes : CancelTask(n)
  <2>1. pc' \notin Collecting \cup {"prefetch", "submit"}
    BY <1>2 DEF Dispatch, EnqueueDecide, OpsSchedule, EnqueueScanScheduled,
       EnqueueScanReady, EnqueueLock, Promote, SubmitDone, CancelTask, mainVars, Collecting
  <2> QED BY <2>1 DEF Orderly
<1>3. CASE CancelDone
  <2>1. /\ pc' = "typeI" /\ UNCHANGED <<sched, locked, task>> /\ \A n \in sched : task[n].hit
    BY <1>3 DEF CancelDone, cacheVars, taskVars
  <2>2. \A n \in sched : n \in Demanded
    BY <2>1 DEF PipelineInv, Tasks, Types, Placed, Tasked, HasTask, Staged,
       StagedAt, Demanded
  <2>3. Demanded' = Demanded
    BY <1>1, <1>3, SameFlight
  <2> QED BY <2>1, <2>2, <2>3 DEF Orderly
<1>4. CASE \/ ScheduleDone \/ WaitDoze \/ WaitSleep \/ SpuriousWake \/ SubmitResident
           \/ (\E w \in Workers : WorkerStep(w)) \/ ExecStart
  <2>1. locked' = locked /\ Demanded' = Demanded
    BY <1>1, <1>4, SameFlight
  <2>2. UNCHANGED <<todo, layer>> /\ sched' \subseteq sched
    BY <1>4 DEF ScheduleDone, WaitDoze, WaitSleep, SpuriousWake, SubmitResident, WaitMove,
       WorkerStep, WorkerStart, WorkerFinish, WorkerFinishLate, ExecStart, taskVars, mainVars
  <2>3. /\ pc' \in Collecting => pc \in Collecting
        /\ pc' \in {"prefetch", "submit"} => pc \in {"prefetch", "submit"}
    BY <1>4 DEF ScheduleDone, WaitDoze, WaitSleep, SpuriousWake, SubmitResident, WaitMove,
       WorkerStep, WorkerStart, WorkerFinish, WorkerFinishLate, ExecStart, mainVars,
       Collecting
  <2> QED BY <2>1, <2>2, <2>3, OrderlyKept
<1>5. CASE (\E n \in Nodes : ScheduleOne(n)) \/ SubmitToWorkers
  <2>1. PICK n \in Nodes :
           /\ \/ ToWorkers(n)
              \/ NoDockLeft(n) /\ Unwind(newQ \ {n}) /\ UNCHANGED dockVars
           /\ UNCHANGED <<layer, todo>>
           /\ \/ pc \in {"typeI", "toWorkers"} /\ pc' \in {"toWorkers", "raised"} /\ n \in newQ
              \/ pc = "submit" /\ pc' \in {"prefetch", "raised"} /\ n = cur
    BY <1>5, ToWorkersCases
  <2>2. locked' = locked /\ Demanded' = Demanded /\ sched' = sched \cup {n}
    BY <1>1, <1>5, <2>1, SameFlight DEF ToWorkers, NoDockLeft
  <2>3. n \in newQ => n \in Demanded
    BY DEF PipelineInv, Tasks, Placed, Staged, StagedAt, Demanded
  <2> QED BY <2>1, <2>2, <2>3 DEF Orderly, Collecting, LayerNodes
<1>6. ASSUME NEW n \in Nodes, SubmitLock(n) PROVE Orderly'
  <2>1. locked' = locked \cup {n} /\ Demanded' = Demanded
    BY <1>1, <1>6, SubmitFlight
  <2>2. pc = "prefetch" /\ pc' = "submit" /\ todo' = todo \ {n} /\ layer' = layer
    BY <1>6 DEF SubmitLock
  <2> QED BY <2>1, <2>2 DEF Orderly, Collecting, LayerNodes
<1>7. CASE Fetch
  <2>1. Demanded' = Demanded /\ locked' \subseteq locked
    BY <1>1, <1>7, FetchFlight
  <2> QED BY <1>7, <2>1, OrderlyKept DEF Fetch, mainVars
<1>8. CASE ExecFinish
  <2>1. /\ running \notin sched /\ locked' \subseteq locked
        /\ Demanded' \in {Demanded, Demanded \ {running}}
    BY <1>1, <1>8, FinishFlight
  <2>2. /\ UNCHANGED <<todo, layer, sched>>
        /\ pc' = pc \/ (pc = "asleep" /\ pc' = "wait")
    BY <1>8 DEF ExecFinish
  <2>3. /\ pc' \in Collecting => pc \in Collecting
        /\ pc' \in {"prefetch", "submit"} => pc \in {"prefetch", "submit"}
    BY <2>2 DEF Collecting
  <2>4. sched' \cap Demanded \subseteq Demanded'
    BY <2>1, <2>2
  <2> QED BY <2>1, <2>2, <2>3, <2>4, OrderlyKept
<1> QED BY <1>1, <1>2, <1>3, <1>4, <1>5, <1>6, <1>7, <1>8, CollectedStep DEF Minor

\* The main thread finds every mutex it asks for free: that of an expert it demands,
\* whose prefetch it has promoted in a queue or seen fetched, and, with two sparse layers
\* at least, that of an expert it prefetches.
THEOREM LocksAreFree == Spec => []MainNeverBlocks
<1> DEFINE I == PipelineInv /\ Results
           J == OldFirst /\ Orderly
<1>1. Init => J
  <2> SUFFICES ASSUME Init PROVE J
    OBVIOUS
  <2>1. /\ pc = "idle" /\ locked = {} /\ readyQ = <<>> /\ execQ = <<>> /\ running = NoNode
    BY DEF Init, CacheInit
  <2>2. Old = {}
    BY <2>1 DEF Old
  <2> QED BY <2>1, <2>2 DEF OldFirst, Orderly, Collecting
<1>2. I /\ J /\ [Next]_vars => J'
  <2>1. I /\ J /\ Next => J'
    BY OldFirstStep, OrderlyStep
  <2>2. J /\ UNCHANGED vars => J'
    <3> SUFFICES ASSUME J, UNCHANGED vars PROVE J'
      OBVIOUS
    <3>1. UNCHANGED <<pc, layer, todo, request, locked, task, sched, readyQ, execQ, running>>
      BY DEF vars, cacheVars, mainVars, taskVars
    <3>2. Demanded' = Demanded /\ Owed' = Owed
      BY <3>1, StutterOwed DEF Demanded
    <3>3. Old' = Old /\ Ready' = Ready /\ Exec' = Exec
      BY <3>1, <3>2 DEF Old, Ready, Exec
    <3> QED BY <3>1, <3>2, <3>3 DEF OldFirst, Orderly, LayerNodes
  <2> QED BY <2>1, <2>2
<1>3. I /\ J => MainNeverBlocks
  BY DEF PipelineInv, Tasks, MainAgrees, Orderly, MainNeverBlocks
<1> QED BY <1>1, <1>2, <1>3, ResultsInvariance, PTL DEF Spec
-----------------------------------------------------------------------------
(***************************************************************************)
(* Bytes.                                                                  *)
(***************************************************************************)
\* Each part a waiting task asked for is in its dock or has an operation that will put it
\* there, unless an operation of a cancelled prefetch has written that dock.
Arriving(n) == \A p \in Submitted(n) : p \in good[n] \/ \E o \in Ops(n) : o.part = p
Bytes ==
  /\ good \in [Nodes -> SUBSET (ExpOps \cup SmOps)]
  /\ weights \in [Nodes -> {"none", "own", "wrong"}]
  /\ \A n \in (sched \cup Ready) \ clobbered : task[n].ptrs /= "none" => Arriving(n)
  /\ DecodesOwnBytes

LEMMA BytesKept ==
  ASSUME Bytes, UNCHANGED <<good, weights, clobbered>>,
         \A n \in Nodes : Resident(n)' => Resident(n),
         sched' \cup Ready' \subseteq Nodes,
         \A n \in sched' \cup Ready' : task'[n].ptrs /= "none" =>
           /\ n \in sched \cup Ready /\ task'[n].ptrs = task[n].ptrs
           /\ NeedsSm(n)' = NeedsSm(n) /\ Ops(n) \subseteq Ops(n)'
  PROVE  Bytes'
<1>1. DecodesOwnBytes'
  BY DEF Bytes, DecodesOwnBytes
<1>2. ASSUME NEW n \in (sched' \cup Ready') \ clobbered', task'[n].ptrs /= "none"
      PROVE  Arriving(n)'
  <2>1. Arriving(n) /\ Submitted(n)' = Submitted(n) /\ good'[n] = good[n]
    BY <1>2 DEF Bytes, Submitted
  <2>2. Ops(n) \subseteq Ops(n)'
    BY <1>2
  <2> QED BY <2>1, <2>2 DEF Arriving
<1> QED BY <1>1, <1>2 DEF Bytes

\* The steps of the main thread and of the exec thread that submit no operation.
LEMMA MainBytes ==
  ASSUME PipelineInv, ~aborted, Bytes,
         \/ Dispatch \/ EnqueueDecide \/ OpsSchedule \/ CancelDone \/ ScheduleDone
         \/ WaitReturns \/ WaitDoze \/ WaitSleep \/ SpuriousWake \/ SubmitDone
         \/ EnqueueScanScheduled \/ EnqueueScanReady \/ EnqueueLock
         \/ (\E n \in Nodes : SubmitLock(n)) \/ SubmitResident \/ ExecStart
  PROVE  Bytes'
<1>1. /\ sched \cup Ready \subseteq locked /\ locked \subseteq Nodes
      /\ task \in [Nodes -> TaskRecords]
  BY CacheFacts DEF PipelineInv, Tasks, Types, Placed
<1>2. CASE \/ Dispatch \/ EnqueueDecide \/ OpsSchedule \/ CancelDone \/ ScheduleDone
           \/ WaitReturns \/ WaitDoze \/ WaitSleep \/ SpuriousWake \/ SubmitDone \/ ExecStart
  <2>1. UNCHANGED <<node, task, sched, readyQ, opVars, good, weights, clobbered>>
    BY <1>2 DEF Dispatch, EnqueueDecide, OpsSchedule, CancelDone, ScheduleDone,
       WaitReturns, WaitDoze, WaitSleep, SpuriousWake, SubmitDone, ExecStart, WaitMove,
       cacheVars, taskVars, dockVars
  <2>2. Ready' = Ready /\ \A n : Ops(n)' = Ops(n)
    BY <2>1 DEF Ready, Ops, opVars
  <2> QED BY <1>1, <2>1, <2>2, BytesKept DEF NeedsSm, Resident
<1>3. CASE EnqueueScanScheduled \/ EnqueueScanReady
  <2>1. /\ pc \in Scanning
        /\ UNCHANGED <<sched, readyQ, opVars, good, weights, clobbered>>
        /\ task' = task \/ task' = [task EXCEPT ![cur].state = "NORMAL", ![cur].hit = TRUE]
        /\ UNCHANGED cacheVars \/ UpdateOnHit(cur, 1)
    BY <1>3 DEF EnqueueScanScheduled, EnqueueScanReady, Promote, Scanning, dockVars
  <2>2. cur \in Nodes
    BY <2>1 DEF PipelineInv, Tasks, MainAgrees, LayerNodes
  <2>3. \A n \in Nodes : NeedsSm(n)' = NeedsSm(n) /\ Resident(n)' = Resident(n)
    BY <2>1, <2>2, HitKeeps DEF PipelineInv, NeedsSm, Resident, cacheVars
  <2>4. \A n \in Nodes : task'[n].ptrs = task[n].ptrs
    BY <1>1, <2>1, <2>2 DEF TaskRecords
  <2>5. Ready' = Ready /\ \A n : Ops(n)' = Ops(n)
    BY <2>1 DEF Ready, Ops, opVars
  <2> QED BY <1>1, <2>1, <2>3, <2>4, <2>5, BytesKept
<1>4. CASE EnqueueLock
  <2>1. /\ UNCHANGED <<node, sched, opVars, good, weights, clobbered>>
        /\ \E state : task' = [task EXCEPT ![cur] = NewTask(cur, state)]
        /\ readyQ' = readyQ \/ readyQ' = Append(readyQ, cur)
    BY <1>4 DEF EnqueueLock, dockVars
  <2>2. cur \in Nodes
    BY <1>4 DEF EnqueueLock, PipelineInv, Tasks, MainAgrees, Scanning, LayerNodes
  <2>3. /\ \A n \in Nodes \ {cur} : task'[n] = task[n]
        /\ task'[cur].ptrs = "none"
    BY <1>1, <2>1, <2>2 DEF NewTask
  <2>4. Ready' \subseteq Ready \cup {cur}
    <3>1. SeqSet(Append(readyQ, cur)) = SeqSet(readyQ) \cup {cur}
      BY <2>2, AppendFacts DEF PipelineInv, Tasks, Types
    <3> QED BY <2>1, <3>1 DEF Ready
  <2>5. \A n : Ops(n)' = Ops(n)
    BY <2>1 DEF Ops, opVars
  <2> QED BY <1>1, <2>1, <2>2, <2>3, <2>4, <2>5, BytesKept DEF NeedsSm, Resident
<1>5. ASSUME NEW n \in Nodes, SubmitLock(n) PROVE Bytes'
  <2>1. /\ UNCHANGED <<node, sched, readyQ, opVars, good, weights, clobbered>>
        /\ task' = [task EXCEPT ![n] = NewTask(n, "PREFETCH")] /\ n \notin locked
    BY <1>5 DEF SubmitLock, dockVars
  <2>2. \A m \in Nodes \ {n} : task'[m] = task[m]
    BY <1>1, <2>1
  <2>3. Ready' = Ready /\ \A m : Ops(m)' = Ops(m)
    BY <2>1 DEF Ready, Ops, opVars
  <2> QED BY <1>1, <2>1, <2>2, <2>3, BytesKept DEF NeedsSm, Resident
<1>6. CASE SubmitResident
  <2>1. /\ UNCHANGED <<node, task, sched, opVars, good, weights, clobbered>>
        /\ readyQ' = Append(readyQ, cur)
    BY <1>6 DEF SubmitResident, cacheVars, dockVars
  <2>2. cur \in Nodes /\ task[cur].ptrs = "none"
    BY <1>6 DEF SubmitResident, PipelineInv, Tasks, MainAgrees, Staged, StagedAt, Submitting
  <2>3. Ready' = Ready \cup {cur} /\ \A n : Ops(n)' = Ops(n)
    BY <2>1, <2>2, AppendFacts DEF Ready, Ops, opVars, PipelineInv, Tasks, Types
  <2> QED BY <1>1, <2>1, <2>2, <2>3, BytesKept DEF NeedsSm, Resident
<1> QED BY <1>2, <1>3, <1>4, <1>5, <1>6

\* Steps that end a task: a cancellation and the end of an execution.
LEMMA EndBytes ==
  ASSUME PipelineInv, ~aborted, Bytes, ExecFinish \/ \E n \in Nodes : CancelTask(n)
  PROVE  Bytes'
<1>1. /\ sched \cup Ready \subseteq locked /\ locked \subseteq Nodes
      /\ task \in [Nodes -> TaskRecords] /\ node \in [Nodes -> NodeRecords]
  BY CacheFacts DEF PipelineInv, Tasks, Types, Placed
<1>2. CASE ExecFinish
  <2>1. PICK n \in Nodes : n = running /\ n \notin sched \cup Ready
    BY <1>2 DEF ExecFinish, PipelineInv, Tasks, Types, Placed
  <2>2. /\ UNCHANGED <<sched, readyQ, opVars, good, weights, clobbered>>
        /\ task' = task \/ task' = [task EXCEPT ![n] = NoTask]
        /\ \/ node' = node
           \/ node' = [node EXCEPT ![n] = OnDisk(node[n])]
           \/ node' = [node EXCEPT ![n] = [OnDisk(node[n]) EXCEPT !.sm = NoSlot]]
    BY <1>2, <2>1 DEF ExecFinish, FinishDevice, dockVars
  <2>3. \A m \in Nodes \ {n} : task'[m] = task[m] /\ node'[m] = node[m]
    BY <1>1, <2>1, <2>2
  <2>4. Resident(n)' => Resident(n)
    BY <1>1, <2>1, <2>2 DEF Resident, OnDisk, NodeRecords
  <2>5. Ready' = Ready /\ \A m : Ops(m)' = Ops(m)
    BY <2>2 DEF Ready, Ops, opVars
  <2> QED BY <1>1, <2>1, <2>2, <2>3, <2>4, <2>5, BytesKept DEF NeedsSm, Resident
<1>3. ASSUME NEW n \in Nodes, CancelTask(n) PROVE Bytes'
  <2>1. /\ UNCHANGED <<readyQ, good, weights, clobbered>> /\ sched' = sched \ {n}
        /\ task' = [task EXCEPT ![n] = NoTask]
        /\ opQ' = {o \in opQ : o.node /= n}
        /\ work' = [w \in Workers |->
                IF work[w].node = n THEN [work[w] EXCEPT !.live = FALSE] ELSE work[w]]
    BY <1>3 DEF CancelTask
  <2>2. n \notin Ready /\ node' = [node EXCEPT ![n] = OnDisk(node[n])]
    BY <1>3, CancelFacts
  <2>3. \A m \in Nodes \ {n} : task'[m] = task[m] /\ node'[m] = node[m]
    BY <1>1, <2>1, <2>2
  <2>4. Resident(n)' => Resident(n)
    BY <1>1, <2>2 DEF Resident, OnDisk, NodeRecords
  <2>5. \A m \in Nodes \ {n} : Ops(m) \subseteq Ops(m)'
    BY <2>1 DEF Ops
  <2>6. Ready' = Ready
    BY <2>1 DEF Ready
  <2> QED BY <1>1, <2>1, <2>2, <2>3, <2>4, <2>5, <2>6, BytesKept DEF NeedsSm, Resident
<1> QED BY <1>2, <1>3
\* The workers.  A live operation brings its part; a cancelled one spoils the docks it
\* writes, and marks them.
LEMMA WorkerBytes ==
  ASSUME PipelineInv, ~aborted, Bytes, NEW w \in Workers, WorkerStep(w)
  PROVE  Bytes'
<1>1. /\ sched \cup Ready \subseteq Nodes /\ task \in [Nodes -> TaskRecords]
      /\ work \in [Workers -> OpRecords \cup {NoOp}] /\ opQ \subseteq OpRecords
      /\ \A o \in opQ : o.live
  BY CacheFacts DEF PipelineInv, Tasks, Types, Placed, OpsServe
<1>2. CASE WorkerStart(w)
  <2>1. /\ UNCHANGED <<node, task, sched, readyQ, good, weights, clobbered>>
        /\ work[w] = NoOp
    BY <1>2 DEF WorkerStart, cacheVars, taskVars, dockVars
  <2>2. PICK o \in opQ : opQ' = opQ \ {o} /\ work' = [work EXCEPT ![w] = o]
    BY <1>2 DEF WorkerStart
  <2>3. o.live /\ work'[w] = o /\ \A v \in Workers \ {w} : work'[v] = work[v]
    BY <1>1, <2>2
  <2>4. Ready' = Ready /\ \A n : Ops(n) \subseteq Ops(n)'
    BY <2>1, <2>2, <2>3 DEF Ready, Ops, NoOp
  <2> QED BY <1>1, <2>1, <2>4, BytesKept DEF NeedsSm, Resident
<1>3. CASE WorkerFinish(w)
  <2>1. PICK n \in Nodes : /\ n = work[w].node /\ n \in sched /\ task[n].ptrs /= "none"
                           /\ work[w] \in Ops(n)
    BY <1>3, LiveOpFacts DEF WorkerFinish
  <2>2. PICK p : p = work[w].part /\ p \in ExpOps \cup SmOps
    BY <1>1, <1>3 DEF WorkerFinish, OpRecords
  <2>3. /\ UNCHANGED <<node, opQ, weights, clobbered>> /\ work[w].live
        /\ good' = [good EXCEPT ![n] = @ \cup {p}]
        /\ \E k : task' = [task EXCEPT ![n].pend = k]
        /\ work' = [work EXCEPT ![w] = NoOp]
        /\ \/ UNCHANGED <<sched, readyQ>>
           \/ sched' = sched \ {n} /\ readyQ' = Append(readyQ, n)
    BY <1>3, <2>1, <2>2 DEF WorkerFinish, cacheVars
  <2>4. good \in [Nodes -> SUBSET (ExpOps \cup SmOps)] /\ DecodesOwnBytes
    BY DEF Bytes
  <2>5. /\ good' \in [Nodes -> SUBSET (ExpOps \cup SmOps)]
        /\ good'[n] = good[n] \cup {p} /\ \A m \in Nodes \ {n} : good'[m] = good[m]
    BY <2>2, <2>3, <2>4
  <2>6. \A m \in Nodes : task'[m].ptrs = task[m].ptrs
    BY <1>1, <2>3 DEF TaskRecords
  <2>7. sched' \cup Ready' = sched \cup Ready
    <3>1. SeqSet(Append(readyQ, n)) = SeqSet(readyQ) \cup {n}
      BY AppendFacts DEF PipelineInv, Tasks, Types
    <3>2. CASE UNCHANGED <<sched, readyQ>>
      BY <3>2 DEF Ready
    <3>3. CASE sched' = sched \ {n} /\ readyQ' = Append(readyQ, n)
      BY <2>1, <3>1, <3>3 DEF Ready
    <3> QED BY <2>3, <3>2, <3>3
  <2>8. \A m : Ops(m)' = Ops(m) \ {work[w]}
    BY <2>3, OpsWithout
  <2>9. DecodesOwnBytes'
    BY <2>3, <2>4 DEF DecodesOwnBytes, Resident
  <2>10. ASSUME NEW m \in (sched' \cup Ready') \ clobbered', task'[m].ptrs /= "none"
         PROVE  Arriving(m)'
    <3>1. Arriving(m) /\ m \in Nodes
      BY <1>1, <2>3, <2>6, <2>7, <2>10 DEF Bytes
    <3>2. Submitted(m)' = Submitted(m)
      BY <2>3 DEF Submitted, NeedsSm
    <3>3. CASE m = n
      BY <2>2, <2>5, <2>8, <3>1, <3>2, <3>3 DEF Arriving
    <3>4. CASE m /= n
      <4>1. work[w] \notin Ops(m)
        BY <2>1, <3>4 DEF Ops
      <4> QED BY <2>5, <2>8, <3>1, <3>2, <3>4, <4>1 DEF Arriving
    <3> QED BY <3>3, <3>4
  <2> QED BY <2>3, <2>5, <2>9, <2>10 DEF Bytes
<1>4. CASE WorkerFinishLate(w)
  <2>1. PICK hit \in SUBSET Nodes :
          /\ good' = [m \in Nodes |->
                        IF m \in hit THEN good[m] \ {work[w].part} ELSE good[m]]
          /\ clobbered' = clobbered \cup hit
    <3> DEFINE H == {m \in Nodes : /\ dockOf[m] = work[w].dock /\ m /= work[w].node
                                   /\ UsesDockPart(m, work[w].part)}
    <3>1. /\ good' = [m \in Nodes |-> IF m \in H THEN good[m] \ {work[w].part} ELSE good[m]]
          /\ clobbered' = clobbered \cup H
      BY <1>4 DEF WorkerFinishLate
    <3>2. H \in SUBSET Nodes
      OBVIOUS
    <3> HIDE DEF H
    <3> QED BY <3>1, <3>2
  <2>2. /\ UNCHANGED <<node, task, sched, readyQ, opQ, weights>> /\ ~work[w].live
        /\ work' = [work EXCEPT ![w] = NoOp]
    BY <1>4 DEF WorkerFinishLate, cacheVars, taskVars
  <2>3. good \in [Nodes -> SUBSET (ExpOps \cup SmOps)] /\ DecodesOwnBytes
    BY DEF Bytes
  <2>4. /\ good' \in [Nodes -> SUBSET (ExpOps \cup SmOps)]
        /\ \A m \in Nodes \ clobbered' : good'[m] = good[m]
    BY <2>1, <2>3
  <2>5. DecodesOwnBytes'
    BY <2>1, <2>2, <2>3 DEF DecodesOwnBytes, Resident
  <2>6. \A m : Ops(m)' = Ops(m)
    BY <2>2, OpsWithout
  <2>7. ASSUME NEW m \in (sched' \cup Ready') \ clobbered', task'[m].ptrs /= "none"
        PROVE  Arriving(m)'
    <3>1. Arriving(m) /\ m \in Nodes \ clobbered'
      BY <1>1, <2>1, <2>2, <2>7 DEF Bytes, Ready
    <3>2. Submitted(m)' = Submitted(m)
      BY <2>2 DEF Submitted, NeedsSm
    <3> QED BY <2>4, <2>6, <3>1, <3>2 DEF Arriving
  <2> QED BY <2>2, <2>4, <2>5, <2>7 DEF Bytes
<1> QED BY <1>2, <1>3, <1>4 DEF WorkerStep

\* A task that goes to the workers has an operation for every part it needs.
LEMMA StagedBytes ==
  ASSUME PipelineInv, ~aborted, Bytes, (\E n \in Nodes : ScheduleOne(n)) \/ SubmitToWorkers
  PROVE  Bytes'
<1>1. PICK n \in Nodes : /\ Unscheduled(n)
                         /\ \/ ToWorkers(n)
                            \/ NoDockLeft(n) /\ Unwind(newQ \ {n}) /\ UNCHANGED dockVars
                         /\ UNCHANGED <<readyQ, execQ, running>>
  BY ToWorkersCases
<1>2. /\ sched \cup Ready \subseteq locked /\ locked \subseteq Nodes
      /\ task \in [Nodes -> TaskRecords] /\ node \in [Nodes -> NodeRecords]
      /\ Ready' = Ready
  BY <1>1, CacheFacts DEF PipelineInv, Tasks, Types, Placed, Ready
<1>3. n \notin sched \cup Ready /\ task[n].ptrs = "none" /\ n \in locked /\ ~Resident(n)
  BY <1>1, UnscheduledFacts DEF Unscheduled
<1>4. CASE NoDockLeft(n) /\ Unwind(newQ \ {n}) /\ UNCHANGED dockVars
  <2>1. /\ sched' = sched \cup {n}
        /\ UNCHANGED <<node, opVars, good, weights, clobbered>>
        /\ \A m \in sched \cup Ready \cup {n} : task'[m] = task[m]
    BY <1>1, <1>4, UnwindKeeps DEF NoDockLeft, dockVars, cacheVars
  <2>2. \A m : Ops(m)' = Ops(m)
    BY <2>1 DEF Ops, opVars
  <2> QED BY <1>2, <1>3, <2>1, <2>2, BytesKept DEF NeedsSm, Resident
<1>5. CASE ToWorkers(n)
  <2>1. /\ sched' = sched \cup {n} /\ UNCHANGED <<work, weights>>
        /\ opQ' = opQ \cup SubmittedOps(n, dockOf'[n])
        /\ good' = [good EXCEPT ![n] = {}] /\ clobbered' = clobbered \ {n}
        /\ \/ UNCHANGED cacheVars
           \/ RegisterSMCacheForNode(n)
           \/ RegisterCacheSlotForNode(n)
    BY <1>5, <1>3, UnscheduledFacts, <1>1 DEF ToWorkers, SubmittedOps, Staging, States
  <2>2. /\ \A m \in locked : node'[m] = node[m]
        /\ \A m \in Nodes \ {n} : task'[m] = task[m]
    BY <1>1, <1>5, StageStep
  <2>3. \A m \in Nodes : Resident(m)' => Resident(m)
    BY <2>1, RegisterSmKeeps, RegisterGpuKeeps DEF PipelineInv, Resident, cacheVars
  <2>4. good \in [Nodes -> SUBSET (ExpOps \cup SmOps)] /\ DecodesOwnBytes
    BY DEF Bytes
  <2>5. /\ good' \in [Nodes -> SUBSET (ExpOps \cup SmOps)]
        /\ \A m \in Nodes \ {n} : good'[m] = good[m]
    BY <2>1, <2>4
  <2>6. DecodesOwnBytes'
    <3> SUFFICES ASSUME NEW m \in Nodes, Resident(m)', weights'[m] = "wrong"
                 PROVE  m \in clobbered'
      BY DEF DecodesOwnBytes
    <3> QED BY <1>3, <2>1, <2>3, <2>4 DEF DecodesOwnBytes
  <2>7. ASSUME NEW m \in (sched' \cup Ready') \ clobbered', task'[m].ptrs /= "none"
        PROVE  Arriving(m)'
    <3>1. m \in locked
      BY <1>2, <1>3, <2>1, <2>7
    <3>2. Submitted(m)' = Submitted(m)
      BY <2>2, <3>1 DEF Submitted, NeedsSm
    <3>3. CASE m = n
      <4>1. ASSUME NEW p \in Submitted(n) PROVE \E o \in Ops(n)' : o.part = p
        <5> DEFINE o == [node |-> n, part |-> p, dock |-> dockOf'[n], live |-> TRUE]
        <5>1. o \in SubmittedOps(n, dockOf'[n])
          BY <4>1 DEF SubmittedOps
        <5>2. o.node = n /\ o.part = p
          OBVIOUS
        <5>3. o \in Ops(n)'
          BY <2>1, <5>1, <5>2 DEF Ops
        <5> QED BY <5>2, <5>3
      <4> QED BY <3>2, <3>3, <4>1 DEF Arriving
    <3>4. CASE m /= n
      <4>1. Arriving(m) /\ m \in Nodes
        BY <1>2, <2>1, <2>2, <2>7, <3>1, <3>4 DEF Bytes
      <4>2. Ops(m) \subseteq Ops(m)'
        BY <2>1 DEF Ops
      <4> QED BY <2>5, <3>2, <3>4, <4>1, <4>2 DEF Arriving
    <3> QED BY <3>3, <3>4
  <2> QED BY <2>1, <2>5, <2>6, <2>7 DEF Bytes
<1> QED BY <1>1, <1>4, <1>5
\* A task that is fetched has none left to arrive.
LEMMA FetchBytes ==
  ASSUME PipelineInv, ~aborted, Bytes, Fetch
  PROVE  Bytes'
<1>1. PICK n \in Nodes : n = Head(readyQ)
  BY FetchKeeps
<1>2. /\ n \in Ready /\ n \notin sched /\ Ready' = Ready \ {n}
      /\ \A m \in Nodes \ {n} : node'[m] = node[m]
      /\ UseOf(n) = IF task[n].ptrs = "none" THEN "held" ELSE task[n].ptrs
      /\ UseOf(n) = "held" => Resident(n)
  BY <1>1, FetchKeeps
<1>3. /\ UNCHANGED <<sched, good, clobbered, opVars>>
      /\ task' = task \/ task' = [task EXCEPT ![n] = NoTask]
      /\ weights' = IF task[n].ptrs = "none" THEN weights
                    ELSE [weights EXCEPT ![n] = IF OwnBytes(n) THEN "own" ELSE "wrong"]
  BY <1>1 DEF Fetch
<1>4. /\ sched \cup Ready \subseteq Nodes /\ task \in [Nodes -> TaskRecords]
      /\ good \in [Nodes -> SUBSET (ExpOps \cup SmOps)] /\ DecodesOwnBytes
      /\ weights \in [Nodes -> {"none", "own", "wrong"}]
  BY CacheFacts DEF PipelineInv, Tasks, Types, Placed, Bytes
<1>5. \A m \in Nodes \ {n} : task'[m] = task[m]
  BY <1>3, <1>4
<1>6. \A m : Ops(m)' = Ops(m)
  BY <1>3 DEF Ops, opVars
<1>7. ASSUME task[n].ptrs /= "none", n \notin clobbered PROVE OwnBytes(n)
  <2>1. Ops(n) = {}
    BY <1>2 DEF PipelineInv, Tasks, OpsServe, Serves, Ops
  <2>2. Arriving(n)
    BY <1>2, <1>7 DEF Bytes
  <2>3. Submitted(n) \subseteq good[n]
    BY <2>1, <2>2 DEF Arriving
  <2> QED BY <2>3, PipelineAssumptions DEF Submitted, OwnBytes
<1>8. DecodesOwnBytes'
  <2> SUFFICES ASSUME NEW m \in Nodes, Resident(m)', weights'[m] = "wrong"
               PROVE  m \in clobbered
    BY <1>3 DEF DecodesOwnBytes
  <2>1. CASE m /= n
    <3>1. weights'[m] = weights[m] /\ Resident(m)
      BY <1>2, <1>3, <2>1 DEF Resident
    <3> QED BY <1>4, <3>1 DEF DecodesOwnBytes
  <2>2. CASE m = n /\ task[n].ptrs = "none"
    <3>1. weights'[m] = weights[m] /\ Resident(m)
      BY <1>2, <1>3, <2>2
    <3> QED BY <1>4, <3>1 DEF DecodesOwnBytes
  <2>3. CASE m = n /\ task[n].ptrs /= "none"
    BY <1>3, <1>4, <1>7, <2>3
  <2> QED BY <2>1, <2>2, <2>3
<1>9. ASSUME NEW m \in (sched' \cup Ready') \ clobbered', task'[m].ptrs /= "none"
      PROVE  Arriving(m)'
  <2>1. m \in Nodes \ {n} /\ Arriving(m)
    BY <1>2, <1>3, <1>4, <1>5, <1>9 DEF Bytes
  <2>2. Submitted(m)' = Submitted(m) /\ good' = good
    BY <1>2, <1>3, <2>1 DEF Submitted, NeedsSm
  <2> QED BY <1>6, <2>1, <2>2 DEF Arriving
<1>10. weights' \in [Nodes -> {"none", "own", "wrong"}]
  BY <1>3, <1>4
<1> QED BY <1>3, <1>4, <1>8, <1>9, <1>10 DEF Bytes

LEMMA BytesInvariance == Spec => []Bytes
<1>1. Init => Bytes
  <2> SUFFICES ASSUME Init PROVE Bytes
    OBVIOUS
  <2>1. /\ good = [n \in Nodes |-> {}] /\ weights = [n \in Nodes |-> "none"]
        /\ sched = {} /\ readyQ = <<>>
    BY DEF Init
  <2>2. Ready = {}
    BY <2>1 DEF Ready, SeqSet
  <2> QED BY <2>1, <2>2 DEF Bytes, DecodesOwnBytes
<1>2. PipelineInv /\ Bytes /\ [Next]_vars => Bytes'
  <2>1. PipelineInv /\ Bytes /\ Next => Bytes'
    <3> SUFFICES ASSUME PipelineInv, Bytes, Next PROVE Bytes'
      OBVIOUS
    <3>1. ~aborted
      BY DEF Next
    <3>2. ASSUME \/ Dispatch \/ EnqueueDecide \/ OpsSchedule \/ CancelDone \/ ScheduleDone
                 \/ WaitReturns \/ WaitDoze \/ WaitSleep \/ SpuriousWake \/ SubmitDone
                 \/ EnqueueScanScheduled \/ EnqueueScanReady \/ EnqueueLock
                 \/ (\E n \in Nodes : SubmitLock(n)) \/ SubmitResident \/ ExecStart
          PROVE  Bytes'
      BY <3>1, <3>2, MainBytes
    <3>3. ASSUME ExecFinish \/ \E n \in Nodes : CancelTask(n) PROVE Bytes'
      BY <3>1, <3>3, EndBytes
    <3>4. ASSUME (\E n \in Nodes : ScheduleOne(n)) \/ SubmitToWorkers PROVE Bytes'
      BY <3>1, <3>4, StagedBytes
    <3>5. ASSUME NEW w \in Workers, WorkerStep(w) PROVE Bytes'
      BY <3>1, <3>5, WorkerBytes
    <3>6. ASSUME Fetch PROVE Bytes'
      BY <3>1, <3>6, FetchBytes
    <3> QED BY <3>2, <3>3, <3>4, <3>5, <3>6, NextIs DEF Minor
  <2>2. Bytes /\ UNCHANGED vars => Bytes'
    <3> SUFFICES ASSUME Bytes, UNCHANGED vars PROVE Bytes'
      OBVIOUS
    <3>1. UNCHANGED <<node, task, sched, readyQ, opQ, work, good, weights, clobbered>>
      BY DEF vars, cacheVars, taskVars, opVars, dockVars
    <3>2. Ready' = Ready /\ \A n : Ops(n)' = Ops(n) /\ Submitted(n)' = Submitted(n)
      BY <3>1 DEF Ready, Ops, Submitted, NeedsSm
    <3>3. DecodesOwnBytes'
      BY <3>1 DEF Bytes, DecodesOwnBytes, Resident
    <3> QED BY <3>1, <3>2, <3>3 DEF Bytes, Arriving
  <2> QED BY <2>1, <2>2
<1> QED BY <1>1, <1>2, PipelineInvariance, PTL DEF Spec

\* What is decoded for a node is the node's own bytes, unless an operation of a cancelled
\* prefetch wrote the dock after it had gone to the node: the parts a node has are known
\* before its task is submitted and do not change until it is fetched.
THEOREM OwnBytesDecoded == Spec => []DecodesOwnBytes
<1>1. Bytes => DecodesOwnBytes
  BY DEF Bytes
<1> QED BY <1>1, BytesInvariance, PTL
-----------------------------------------------------------------------------
(***************************************************************************)
(* Types.                                                                  *)
(***************************************************************************)
\* No task counts below zero, and no more dispatches are made than the model allows.
Counters ==
  /\ \A n \in Nodes : task[n].pend \in Nat
  /\ rounds \in 0 .. MaxRounds

LEMMA NumOpsType == \A n : NumOps(n) \in Nat
BY PipelineAssumptions, FS_CardinalityType DEF NumOps

LEMMA CountersStep ==
  ASSUME PipelineInv, Counters, Next
  PROVE  Counters'
<1>1. ~aborted
  BY DEF Next
<1>2. task \in [Nodes -> TaskRecords]
  BY DEF PipelineInv, Tasks, Types
<1>3. rounds' \in 0 .. MaxRounds
  <2>1. rounds' = rounds \/ (Dispatch /\ rounds' = rounds + 1 /\ rounds < MaxRounds)
    BY DEF Next, MainStep, ExecStep, WorkerStep, WorkerStart, WorkerFinish, WorkerFinishLate,
       Dispatch, EnqueueDecide, EnqueueScanScheduled, EnqueueScanReady, EnqueueLock,
       OpsSchedule, CancelTask, CancelDone, ScheduleOne, ScheduleDone, WaitReturns, WaitDoze,
       WaitSleep, SpuriousWake, WaitMove, SubmitLock, SubmitResident, SubmitToWorkers,
       SubmitDone, Fetch, ExecStart, ExecFinish, mainVars
  <2> QED BY <2>1, PipelineAssumptions DEF Counters
\* A task is left, made, promoted, staged or ended, or loses one operation.
<1>4. ASSUME NEW n \in Nodes, NEW t, t.pend \in Nat, task' = [task EXCEPT ![n] = t]
      PROVE  \A m \in Nodes : task'[m].pend \in Nat
  BY <1>2, <1>4 DEF Counters
<1>5. ASSUME task' = task PROVE \A m \in Nodes : task'[m].pend \in Nat
  BY <1>5 DEF Counters
<1>6. CASE \/ Dispatch \/ EnqueueDecide \/ OpsSchedule \/ CancelDone \/ ScheduleDone
           \/ WaitReturns \/ WaitDoze \/ WaitSleep \/ SpuriousWake \/ SubmitDone
           \/ SubmitResident \/ ExecStart
           \/ \E w \in Workers : WorkerStart(w) \/ WorkerFinishLate(w)
  <2>1. task' = task
    BY <1>6 DEF Dispatch, EnqueueDecide, OpsSchedule, CancelDone, ScheduleDone,
       WaitReturns, WaitDoze, WaitSleep, SpuriousWake, SubmitDone, SubmitResident,
       ExecStart, WaitMove, WorkerStart, WorkerFinishLate, taskVars
  <2> QED BY <1>3, <1>5, <2>1 DEF Counters
<1>7. CASE EnqueueScanScheduled \/ EnqueueScanReady
  <2>1. task' = task \/ task' = [task EXCEPT ![cur].state = "NORMAL", ![cur].hit = TRUE]
    BY <1>7 DEF EnqueueScanScheduled, EnqueueScanReady, Promote
  <2>2. \A m \in Nodes : task'[m].pend = task[m].pend
    BY <1>2, <2>1 DEF TaskRecords
  <2> QED BY <1>3, <2>2 DEF Counters
<1>8. ASSUME NEW n \in Nodes, \E state : task' = [task EXCEPT ![n] = NewTask(n, state)]
      PROVE  Counters'
  <2>1. PICK state : task' = [task EXCEPT ![n] = NewTask(n, state)]
    BY <1>8
  <2>2. NewTask(n, state).pend \in Nat
    BY NumOpsType DEF NewTask
  <2> QED BY <1>3, <1>4, <2>1, <2>2 DEF Counters
<1>9. CASE EnqueueLock \/ \E n \in Nodes : SubmitLock(n)
  <2>1. EnqueueLock => cur \in Nodes
    BY DEF EnqueueLock, PipelineInv, Tasks, MainAgrees, Scanning, LayerNodes
  <2> QED BY <1>8, <1>9, <2>1 DEF EnqueueLock, SubmitLock
<1>10. CASE (\E n \in Nodes : ScheduleOne(n)) \/ SubmitToWorkers
  <2>1. PICK n \in Nodes : /\ Unscheduled(n) /\ UNCHANGED <<execQ, running>>
                           /\ ToWorkers(n) \/ Unwind(newQ \ {n})
    BY <1>10, ToWorkersCases
  <2>2. CASE ToWorkers(n)
    <3>1. \A m \in Nodes : task'[m].pend = task[m].pend
      BY <1>1, <2>1, <2>2, StageStep
    <3> QED BY <1>3, <3>1 DEF Counters
  <2>3. CASE Unwind(newQ \ {n})
    BY <1>3, <2>3 DEF Unwind, NoTask, Counters
  <2> QED BY <2>1, <2>2, <2>3
<1>11. ASSUME NEW w \in Workers, WorkerFinish(w) PROVE Counters'
  <2>1. PICK n \in Nodes :
          /\ n = work[w].node /\ task[n].pend - 1 \in Nat
          /\ task' = [task EXCEPT ![n].pend = task[n].pend - 1]
    <3>1. work[w].node \in Nodes /\ task[work[w].node].pend - 1 \in Nat
      BY <1>1, <1>11, LiveOpFacts DEF WorkerFinish
    <3> QED BY <1>11, <3>1 DEF WorkerFinish
  <2>2. \A m \in Nodes : task'[m].pend \in Nat
    BY <1>2, <2>1 DEF Counters, TaskRecords
  <2> QED BY <1>3, <2>2 DEF Counters
<1>12. CASE Fetch \/ ExecFinish \/ \E n \in Nodes : CancelTask(n)
  <2>1. \/ task' = task
        \/ \E n \in Nodes : task' = [task EXCEPT ![n] = NoTask]
    <3>1. Fetch => Head(readyQ) \in Nodes
      BY <1>1, FetchKeeps
    <3>2. ExecFinish => running \in Nodes
      BY DEF ExecFinish, PipelineInv, Tasks, Types
    <3> QED BY <1>12, <3>1, <3>2 DEF Fetch, ExecFinish, CancelTask
  <2> QED BY <1>3, <1>4, <1>5, <2>1 DEF Counters, NoTask
<1> QED BY <1>6, <1>7, <1>9, <1>10, <1>11, <1>12, NextIs DEF Minor, WorkerStep

\* Every variable keeps its type; that pending_ never falls below zero is not a matter of
\* types, but of each result being owed.
THEOREM PipelineTypes == Spec => []TypeOK
<1>1. Init => Counters
  <2>1. Init => task = [n \in Nodes |-> NoTask] /\ rounds = 0
    BY DEF Init
  <2> QED BY <2>1, PipelineAssumptions DEF Counters, NoTask
<1>2. PipelineInv /\ Counters /\ [Next]_vars => Counters'
  <2>1. PipelineInv /\ Counters /\ Next => Counters'
    BY CountersStep
  <2>2. Counters /\ UNCHANGED vars => Counters'
    BY DEF Counters, vars, mainVars, taskVars
  <2> QED BY <2>1, <2>2
<1>3. PipelineInv /\ Results /\ Bytes /\ Counters => TypeOK
  <2> SUFFICES ASSUME PipelineInv, Results, Bytes, Counters PROVE TypeOK
    OBVIOUS
  <2>1. CacheTypeOK
    <3>1. CP!CacheTypeOK
      BY DEF PipelineInv, CP!Inv, CP!TypeOK
    <3> QED BY <3>1 DEF CP!CacheTypeOK, CacheTypeOK, CP!Pools, Pools, CP!Slots, Slots,
            CP!GpuSlots, GpuSlots, CP!SmSlots, SmSlots, CP!NodeRecords, NodeRecords,
            CP!Tiers, Tiers
  <2>2. Types
    BY DEF PipelineInv, Tasks
  <2>3. task \in [Nodes -> [state : States \cup {"none"}, hit : BOOLEAN, pend : Nat,
                           ptrs : {"none", "gpu", "sm", "dock"}]]
    BY <2>2 DEF Types, TaskRecords, Counters
  <2>4. SeqSet(readyQ) \subseteq Nodes /\ SeqSet(execQ) \subseteq Nodes
    BY <2>2, QueueFacts DEF Ready, Exec
  <2>5. pending \in Nat
    BY OwedFinite, FS_CardinalityType DEF PipelineInv, Tasks, PendingCounts
  <2> QED BY <2>1, <2>2, <2>3, <2>4, <2>5
          DEF TypeOK, Types, States, PipelineInv, DocksTyped, Results, Bytes, Counters
<1> QED BY <1>1, <1>2, <1>3, PipelineInvariance, ResultsInvariance, BytesInvariance, PTL
        DEF Spec
=============================================================================
