---------------------------- MODULE ExpertCache -----------------------------
(***************************************************************************)
(* The life of an expert node between the dispatcher, the tensor engine    *)
(* and the cache handle.  The main thread takes the node's mutex, ToWorkers*)
(* registers slots for it, the fetch thread decodes its weights, and the   *)
(* mutex is released by the fetch thread (a prefetch), by the exec thread  *)
(* (a demanded expert) or by the main thread (a cancelled prefetch).  Each *)
(* action is one critical section of one of those threads.  ExpertPipeline *)
(* has the queues and the workers in between, and implements this module.  *)
(***************************************************************************)
EXTENDS CacheHandle

CONSTANTS
  UserTiers,   \* the tiers a caller sets for each node while the engine serves
  MaxTokens,   \* bound: num_token_reqs of one call
  MaxMeta,     \* bound: access counts of LUT_MoE and LFU; none if it is negative
  MaxNow       \* bound: the clock of LRU and FIFO

ASSUME ExpertCacheBounds ==
  /\ UserTiers \in [Nodes -> SUBSET Tiers]
  /\ MaxTokens \in Nat /\ MaxMeta \in Int /\ MaxNow \in Nat

\* use[n]: what the holder of n's mutex is doing with n.
\*   idle         nobody holds it            held    a task exists, no slot yet
\*   gpu sm dock  ToWorkers ran in the state NORMAL or PREFETCH / SMCACHE / EVICT
\*   run runSm runDock   the fetch thread handed the node to the exec thread
\* wanted: the held nodes whose task is not in the state PREFETCH.
VARIABLES use, wanted

vars == <<cacheVars, use, wanted>>

Uses == {"idle", "held", "gpu", "sm", "dock", "run", "runSm", "runDock"}

Init == CacheInit /\ use = [n \in Nodes |-> "idle"] /\ wanted = {}

Resident(n) == node[n].device = "cuda"

\* The end of a step on n: abort() leaves the other threads' view untouched.
Becomes(n, u) == use' = IF aborted' THEN use ELSE [use EXCEPT ![n] = u]
Unlock(n) ==
  /\ Becomes(n, "idle")
  /\ locked' = IF aborted' THEN locked ELSE locked \ {n}
  /\ wanted' = IF aborted' THEN wanted ELSE wanted \ {n}

\* EnqueueExpert, EnqueuePrefetch and SubmitPrefetch: node->mutex.lock().
Acquire(n) ==
  /\ use[n] = "idle"
  /\ locked' = locked \cup {n}
  /\ use' = [use EXCEPT ![n] = "held"]
  /\ wanted' \in {wanted, wanted \cup {n}}
  /\ UNCHANGED <<gpuPool, smPool, gpuMeta, smMeta, node, now, aborted>>

WithinBound(tokens) ==
  MaxMeta >= 0 => \A s \in GpuSlots : gpuMeta[s] + tokens <= MaxMeta

\* EnqueueExpert finds a prefetch of n scheduled or ready: it becomes NORMAL.
HitTask(n, tokens) ==
  /\ n \notin wanted
  /\ use[n] = "gpu" \/ (use[n] = "held" /\ Resident(n))
  /\ WithinBound(tokens)
  /\ UpdateOnHit(n, tokens)
  /\ wanted' = wanted \cup {n}
  /\ UNCHANGED use

\* EnqueueExpert finds n on the GPU, before it locks the mutex.
HitResident(n, tokens) ==
  /\ use[n] = "idle" /\ Resident(n)
  /\ WithinBound(tokens)
  /\ UpdateOnHit(n, tokens)
  /\ UNCHANGED <<use, wanted>>

\* ToWorkers, by the state of the task.
StageGpu(n) ==
  /\ use[n] = "held" /\ ~Resident(n)
  /\ RegisterCacheSlotForNode(n)
  /\ Becomes(n, "gpu")
  /\ UNCHANGED wanted

StageSm(n) ==
  /\ use[n] = "held" /\ n \in wanted /\ ~Resident(n)
  /\ RegisterSMCacheForNode(n)
  /\ Becomes(n, "sm")
  /\ UNCHANGED wanted

StageDock(n) ==
  /\ use[n] = "held" /\ n \in wanted /\ ~Resident(n)
  /\ UNCHANGED <<cacheVars, wanted>>
  /\ Becomes(n, "dock")

\* The pointer the task carries: none when it found the node on the GPU.
TaskPtr(n) == IF use[n] = "held" THEN NoMem ELSE gpuPool.slotOf[n]

\* GPUFetchFunc, by the state of the task; a PREFETCH is unlocked at once.
Fetchable(n) == use[n] = "gpu" \/ (use[n] = "held" /\ Resident(n))

FetchToRun(n) ==
  /\ n \in wanted /\ Fetchable(n)
  /\ FetchDevice(n, "NORMAL", TaskPtr(n))
  /\ Becomes(n, "run")
  /\ UNCHANGED <<gpuPool, gpuMeta, smMeta, locked, now, wanted>>

FetchPrefetched(n) ==
  /\ n \notin wanted /\ Fetchable(n)
  /\ FetchDevice(n, "PREFETCH", TaskPtr(n))
  /\ Unlock(n)
  /\ UNCHANGED <<gpuPool, gpuMeta, smMeta, now>>

FetchSm(n) ==
  /\ use[n] = "sm"
  /\ FetchDevice(n, "SMCACHE", DockMem)
  /\ Becomes(n, "runSm")
  /\ UNCHANGED <<gpuPool, gpuMeta, smMeta, locked, now, wanted>>

FetchDock(n) ==
  /\ use[n] = "dock"
  /\ FetchDevice(n, "EVICT", DockMem)
  /\ Becomes(n, "runDock")
  /\ UNCHANGED <<gpuPool, gpuMeta, smMeta, locked, now, wanted>>

\* GPUExecFunc's post-processing, by the state of the task, and the unlock.
Finish(n, u, state) ==
  /\ use[n] = u
  /\ FinishDevice(n, state)
  /\ Unlock(n)
  /\ UNCHANGED <<gpuMeta, smMeta, now>>

FinishRun(n)  == Finish(n, "run", "NORMAL")
FinishSm(n)   == Finish(n, "runSm", "SMCACHE")
FinishDock(n) == Finish(n, "runDock", "EVICT")

\* LUT_MoESchedulerFunc on a scheduled task nobody asked for: unregister_memory.
Cancel(n) ==
  /\ use[n] = "gpu" /\ n \notin wanted
  /\ UnregisterCacheSlotForNode(n)
  /\ Unlock(n)
  /\ UNCHANGED <<smPool, gpuMeta, smMeta, now>>

\* set_node_lut_tier_by_tensor_id / set_all_sparse_nodes_lut_tier: no mutex.
SetNodeLutTier(n, t) ==
  /\ node' = [node EXCEPT ![n].tier = t]
  /\ UNCHANGED <<gpuPool, smPool, gpuMeta, smMeta, locked, now, aborted>>
  /\ UNCHANGED <<use, wanted>>

\* MILLISECONDS_SINCE_EPOCH, which only LRU and FIFO read.
Tick ==
  /\ Policy \in {"LRU", "FIFO"} /\ now < MaxNow
  /\ now' = now + 1
  /\ UNCHANGED <<gpuPool, smPool, gpuMeta, smMeta, node, locked, aborted>>
  /\ UNCHANGED <<use, wanted>>

HitStep(n, tokens) == HitTask(n, tokens) \/ HitResident(n, tokens)

TaskStep(n) ==
  \/ Acquire(n)
  \/ StageGpu(n) \/ StageSm(n) \/ StageDock(n)
  \/ FetchToRun(n) \/ FetchPrefetched(n) \/ FetchSm(n) \/ FetchDock(n)
  \/ FinishRun(n) \/ FinishSm(n) \/ FinishDock(n)
  \/ Cancel(n)
  \/ \E t \in UserTiers[n] : SetNodeLutTier(n, t)

Next ==
  /\ ~aborted
  /\ \/ Tick
     \/ \E n \in Nodes : TaskStep(n) \/ \E k \in 1 .. MaxTokens : HitStep(n, k)

Spec == Init /\ [][Next]_vars

-----------------------------------------------------------------------------
(***************************************************************************)
(* Types: the one type invariant of the module.                            *)
(***************************************************************************)
TypeOK ==
  /\ CacheTypeOK
  /\ use \in [Nodes -> Uses]
  /\ wanted \subseteq locked

\* The two pools' tables, indexes and free lists never drift apart, whatever
\* mix of registrations, evictions and cancellations goes through them.
PoolsConsistent == PoolOK(gpuPool) /\ PoolOK(smPool)

\* A mutex is held exactly while some thread is in the middle of using a node.
LockAgrees == locked = {n \in Nodes : use[n] /= "idle"}

\* The GPU slot of a node in use u, with the fields r.
GpuAgrees(u, r, slot) ==
  /\ u \in {"idle", "held", "run"} =>
       /\ slot /= NoSlot <=> r.device = "cuda"
       /\ r.mem \in {NoMem, slot}
       /\ r.device = "disk" => r.mem = NoMem
  /\ u = "gpu" => slot /= NoSlot /\ r.device = "disk" /\ r.mem = NoMem
  /\ u \in {"sm", "dock"} => slot = NoSlot /\ r.device = "disk" /\ r.mem = NoMem
  /\ u \in {"runSm", "runDock"} =>
       slot = NoSlot /\ r.device = "cuda" /\ r.mem = DockMem

\* The SM slot of a node in use u, with the fields r.
SmAgrees(u, r, slot) ==
  /\ u /= "sm" => r.sm = slot
  /\ u = "sm" => slot /= NoSlot /\ r.sm \in {NoSlot, slot}
  /\ u = "runSm" => slot /= NoSlot

\* A GPU slot is owned exactly by a node whose weights are in it or on their way:
\* no slot leaks, and no pointer into the pool outlives the node's slot.
GpuSlotsAgree == \A n \in Nodes : GpuAgrees(use[n], node[n], gpuPool.slotOf[n])

\* device_sm_ptr is the node's SM slot; only a staged SMCACHE task, which has
\* not been fetched yet, may own one the node does not point to.
SmSlotsAgree == \A n \in Nodes : SmAgrees(use[n], node[n], smPool.slotOf[n])

\* The assertion of EnqueueExpert (expert_dispatcher.cpp:208): a node that is
\* on the GPU when its mutex is taken holds no SM slot.
NoSmOnGpu == \A n \in Nodes :
  use[n] \in {"idle", "held", "run"} /\ Resident(n) => node[n].sm = NoSlot

\* The inductive invariant.
Inv == /\ TypeOK /\ PoolsConsistent /\ LockAgrees
       /\ GpuSlotsAgree /\ SmSlotsAgree /\ NoSmOnGpu

\* What the exec thread multiplies by: the weights in the node's own slot, or in
\* its dock, decoded at the tier the node has, unless a caller sets tiers for it;
\* setting those of other nodes does not hurt.
RunsOnOwnWeights == \A n \in Nodes : UserTiers[n] = {} =>
  /\ use[n] = "run" => node[n].mem = gpuPool.slotOf[n] /\ node[n].mem /= NoMem
  /\ use[n] \in {"run", "runSm", "runDock"} => node[n].last = node[n].tier

\* The process aborts only where a pool is full of nodes in flight, or after an
\* EVICT task ran; no cancellation and no fetch meets evict(SIZE_MAX).
AbortsOnly == [][aborted' /\ ~aborted =>
  \/ Evictable(gpuPool) = {} /\ ~HasFree(gpuPool)
  \/ Evictable(smPool) = {} /\ ~HasFree(smPool)
  \/ \E n \in Nodes : use[n] = "runDock"]_vars

GpuAllocator == INSTANCE SlotAllocator WITH
  SlotSet <- GpuSlots, owner <- gpuPool.node, busy <- locked
SmAllocator == INSTANCE SlotAllocator WITH
  SlotSet <- SmSlots, owner <- smPool.node, busy <- locked

\* Both pools keep the allocator's promise: a slot changes hands only when its
\* owner is not being loaded or run, or by the owner's own unregistration.
PoolsKeepPromise == GpuAllocator!Spec /\ SmAllocator!Spec

(***************************************************************************)
(* What documents say of the code, and runs refute.                        *)
(***************************************************************************)
\* program.md:174-175: a tier change makes the next SetDevice reload the weights
\* and decode them with the new table; so what runs is still in the node's slot.
TierChangeReloads == \A n \in Nodes :
  use[n] = "run" => node[n].mem = gpuPool.slotOf[n]
=============================================================================
