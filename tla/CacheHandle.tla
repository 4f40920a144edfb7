---------------------------- MODULE CacheHandle -----------------------------
(***************************************************************************)
(* LUT_MoECacheHandle (csrc/memory/cache.{hpp,cpp}): two slot pools, the   *)
(* full-weight slots in GPU memory and the sign/mantissa ("SM") slots in   *)
(* pinned memory, an eviction policy over each, and the node fields its    *)
(* operations and Node::SetDevice / SetSM write.  The module declares the  *)
(* state and one action per operation; ExpertCache and ExpertPipeline say  *)
(* who calls them and when.  layer_to_pool returns 0 for every layer, so   *)
(* one pool of each kind serves all nodes.                                 *)
(***************************************************************************)
EXTENDS MemoryPool, FiniteSets

CONSTANTS
  NumGpuSlots,   \* num_gpu_slots_per_pool_
  NumSmSlots,    \* num_sm_slots_per_pool_
  Policy,        \* the caching_algorithm of the configuration
  TierFloor,     \* Node::tier_floor of each node
  TierCeiling,   \* Node::tier_ceiling of each node
  WarmAt,        \* visit_count from which a hit promotes to tier 1 (10)
  HotAt,         \* visit_count from which a hit promotes to tier 0 (50)
  NoMem,         \* a null device_memory_ptr
  DockMem        \* device_memory_ptr inside the node's dock

Policies == {"LUT_MoE", "LRU", "LFU", "Marking", "FIFO"}
Tiers    == 0 .. 2     \* 0 = 8-bit table, 1 = 6-bit, 2 = 4-bit

ASSUME SlotCounts ==
  /\ NumGpuSlots \in Nat \ {0}
  /\ NumSmSlots \in Nat \ {0}
ASSUME PolicyAssumption == Policy \in Policies
ASSUME TierBounds ==
  /\ TierFloor \in [Nodes -> Tiers]
  /\ TierCeiling \in [Nodes -> Tiers]
  /\ WarmAt \in Nat /\ HotAt \in Nat
ASSUME MemAssumption ==
  NoMem /= DockMem /\ NoMem \notin Nat /\ DockMem \notin Nat

VARIABLES
  gpuPool, smPool,   \* gpu_pools_[0], sm_pools_[0]
  gpuMeta, smMeta,   \* per-slot number the policy ranks victims by
  node,              \* the Node fields below
  locked,            \* nodes whose Node::mutex is held
  now,               \* the millisecond clock LRU and FIFO read
  aborted            \* a FATAL log line was written: abort()

cacheVars == <<gpuPool, smPool, gpuMeta, smMeta, node, locked, now, aborted>>

GpuSlots == Slots(NumGpuSlots)
SmSlots  == Slots(NumSmSlots)

NodeRecords ==
  [device : {"disk", "cuda"},
   mem    : GpuSlots \cup {NoMem, DockMem},   \* device_memory_ptr
   sm     : SmSlots \cup {NoSlot},            \* device_sm_ptr
   tier   : Tiers,                            \* lut_tier
   last   : Tiers \cup {-1},                  \* last_decompress_tier
   visits : Nat]                              \* visit_count

ColdNode == [device |-> "disk", mem |-> NoMem, sm |-> NoSlot,
             tier |-> 0, last |-> -1, visits |-> 0]

CacheTypeOK ==
  /\ gpuPool \in Pools(NumGpuSlots)
  /\ smPool \in Pools(NumSmSlots)
  /\ gpuMeta \in [GpuSlots -> Nat]
  /\ smMeta \in [SmSlots -> Nat]
  /\ node \in [Nodes -> NodeRecords]
  /\ locked \subseteq Nodes
  /\ now \in Nat
  /\ aborted \in BOOLEAN

CacheInit ==
  /\ gpuPool = EmptyPool(NumGpuSlots)
  /\ smPool = EmptyPool(NumSmSlots)
  /\ gpuMeta = [s \in GpuSlots |-> 0]
  /\ smMeta = [s \in SmSlots |-> 0]
  /\ node = [n \in Nodes |-> ColdNode]
  /\ locked = {}
  /\ now = 1
  /\ aborted = FALSE

-----------------------------------------------------------------------------
(***************************************************************************)
(* The policies.  is_protected probes the node's mutex with try_lock, so a *)
(* slot can be a victim only if its node's mutex is free.  The scan is one *)
(* atomic step: the mutexes it probes are only ever released by others     *)
(* while it runs.  LUT_MoE, LFU, LRU and FIFO take the smallest number,    *)
(* the lowest slot on a tie; Marking takes a random unmarked slot, or any  *)
(* after it has cleared every mark.                                        *)
(***************************************************************************)
\* Mutant: the scan does not probe the mutexes.
EvictableUnlocked(p) == {s \in DOMAIN p.node : p.node[s] /= NoNode}

Evictable(p) == {s \in DOMAIN p.node : p.node[s] \notin locked \cup {NoNode}}

NewPhase(p, meta) == Policy = "Marking" /\ \A s \in Evictable(p) : meta[s] = 1

Victims(p, meta) ==
  IF Policy = "Marking"
  THEN {s \in Evictable(p) : meta[s] = 0 \/ NewPhase(p, meta)}
  ELSE {s \in Evictable(p) : \A t \in Evictable(p) :
          meta[s] < meta[t] \/ (meta[s] = meta[t] /\ s <= t)}

\* select_victim_slot's effect on the numbers: a new phase clears the marks.
AfterSelect(p, meta) ==
  IF NewPhase(p, meta) THEN [s \in DOMAIN meta |-> 0] ELSE meta

\* Mutant: a slot keeps its last owner's number.
OnMissKeeps(meta, s) == meta

OnMiss(meta, s) ==
  [meta EXCEPT ![s] = IF Policy \in {"LRU", "FIFO"} THEN now ELSE 1]

OnHit(meta, s, tokens) ==
  [meta EXCEPT ![s] = CASE Policy = "LUT_MoE" -> @ + tokens
                        [] Policy = "LFU"     -> @ + 1
                        [] Policy = "Marking" -> 1
                        [] Policy = "LRU"     -> now
                        [] Policy = "FIFO"    -> @]

-----------------------------------------------------------------------------
(***************************************************************************)
(* Node::SetDevice.  To disk it drops the pointer.  To CUDA it decodes     *)
(* into ptr, unless the node is on the GPU already: then it returns, or,   *)
(* when the tier changed since the last decode, decodes again, into the    *)
(* pointer this call was given.                                            *)
(***************************************************************************)
\* Mutants: to disk keeps the pointer, or does nothing; to CUDA always decodes.
OnDiskKeepsMem(r)    == [r EXCEPT !.device = "disk"]
OnDiskSkipped(r)     == r
OnCudaAlways(r, ptr) == [r EXCEPT !.device = "cuda", !.mem = ptr, !.last = r.tier]

OnDisk(r) == IF r.device = "disk" THEN r
             ELSE [r EXCEPT !.device = "disk", !.mem = NoMem]

OnCuda(r, ptr) ==
  IF r.device = "cuda" /\ (r.mem = NoMem \/ r.tier = r.last) THEN r
  ELSE IF r.device = "disk" /\ r.mem /= NoMem THEN [r EXCEPT !.device = "cuda"]
  ELSE [r EXCEPT !.device = "cuda", !.mem = ptr, !.last = r.tier]

MinTier(a, b) == IF a < b THEN a ELSE b
MaxTier(a, b) == IF a > b THEN a ELSE b

\* The demotion of an evicted node, and the promotion of a hit one.
\* Mutant: the demotion has no ceiling.
DemotedUnbounded(n) == node[n].tier + 1

Demoted(n) ==
  MinTier(IF node[n].tier = 0 THEN 1 ELSE 2, TierCeiling[n])

Promoted(n) ==
  LET wanted == IF node[n].visits >= HotAt THEN 0
                ELSE IF node[n].visits >= WarmAt THEN 1 ELSE 2
  IN  MinTier(MaxTier(wanted, TierFloor[n]), node[n].tier)

-----------------------------------------------------------------------------
\* UpdateOnHit: the tier, then the policy's number in each pool n has a slot in.
UpdateOnHit(n, tokens) ==
  /\ node' = [node EXCEPT ![n].tier = Promoted(n)]
  /\ gpuMeta' = IF Owned(gpuPool, n)
                THEN OnHit(gpuMeta, gpuPool.slotOf[n], tokens) ELSE gpuMeta
  /\ smMeta' = IF Owned(smPool, n)
               THEN OnHit(smMeta, smPool.slotOf[n], tokens) ELSE smMeta
  /\ UNCHANGED <<gpuPool, smPool, locked, now, aborted>>

\* RegisterCacheSlotForNode: the slot n has, a free one, or a victim's.  The
\* victim is demoted one tier and sent to disk; with no victim it is FATAL.
GpuSlotFree(n) ==
  /\ HasFree(gpuPool)
  /\ LET s == TopFree(gpuPool) IN
       /\ gpuPool' = Place(PopFree(gpuPool), n, s)
       /\ gpuMeta' = OnMiss(gpuMeta, s)
  /\ UNCHANGED <<node, aborted>>

GpuSlotTaken(n) ==
  /\ ~HasFree(gpuPool)
  /\ \E s \in Victims(gpuPool, gpuMeta) :
       LET v == gpuPool.node[s] IN
         /\ node' = [node EXCEPT ![v] = [OnDisk(@) EXCEPT !.tier = Demoted(v)]]
         /\ gpuPool' = Place(Evict(gpuPool, s), n, s)
         /\ gpuMeta' = OnMiss(AfterSelect(gpuPool, gpuMeta), s)
  /\ UNCHANGED aborted

GpuNoVictim ==
  /\ ~HasFree(gpuPool) /\ Evictable(gpuPool) = {}
  /\ aborted' = TRUE
  /\ UNCHANGED <<gpuPool, gpuMeta, node>>

RegisterCacheSlotForNode(n) ==
  /\ IF Owned(gpuPool, n)
     THEN UNCHANGED <<gpuPool, gpuMeta, node, aborted>>
     ELSE GpuSlotFree(n) \/ GpuSlotTaken(n) \/ GpuNoVictim
  /\ UNCHANGED <<smPool, smMeta, locked, now>>

\* RegisterSMCacheForNode: the same over the SM pool; the victim loses its SM.
SmSlotFree(n) ==
  /\ HasFree(smPool)
  /\ LET s == TopFree(smPool) IN
       /\ smPool' = Place(PopFree(smPool), n, s)
       /\ smMeta' = OnMiss(smMeta, s)
  /\ UNCHANGED <<node, aborted>>

SmSlotTaken(n) ==
  /\ ~HasFree(smPool)
  /\ \E s \in Victims(smPool, smMeta) :
       LET v == smPool.node[s] IN
         /\ node' = [node EXCEPT ![v].sm = NoSlot]
         /\ smPool' = Place(Evict(smPool, s), n, s)
         /\ smMeta' = OnMiss(AfterSelect(smPool, smMeta), s)
  /\ UNCHANGED aborted

SmNoVictim ==
  /\ ~HasFree(smPool) /\ Evictable(smPool) = {}
  /\ aborted' = TRUE
  /\ UNCHANGED <<smPool, smMeta, node>>

RegisterSMCacheForNode(n) ==
  /\ IF Owned(smPool, n)
     THEN UNCHANGED <<smPool, smMeta, node, aborted>>
     ELSE SmSlotFree(n) \/ SmSlotTaken(n) \/ SmNoVictim
  /\ UNCHANGED <<gpuPool, gpuMeta, locked, now>>

-----------------------------------------------------------------------------
(***************************************************************************)
(* The two unregister operations as values, since their callers combine    *)
(* them with other writes to the same node.  Both call evict even when the *)
(* node has no slot: evict(SIZE_MAX) is FATAL.                             *)
(***************************************************************************)
\* Mutant: the slot stays with the node.
UnregisteredKept(p, n) == p

Unregistered(p, n) == Evict(p, p.slotOf[n])

\* UnregisterCacheSlotForNode, for a caller that leaves the SM pool alone.
UnregisterCacheSlotForNode(n) ==
  IF CanEvict(gpuPool, gpuPool.slotOf[n])
  THEN /\ gpuPool' = Unregistered(gpuPool, n)
       /\ node' = [node EXCEPT ![n] = OnDisk(@)]
       /\ UNCHANGED aborted
  ELSE /\ aborted' = TRUE
       /\ UNCHANGED <<gpuPool, node>>

-----------------------------------------------------------------------------
(***************************************************************************)
(* GPUFetchFunc on a task in the given state that carries ptr: decode; an  *)
(* SMCACHE task gives the node its SM slot, a NORMAL or PREFETCH one drops *)
(* the SM copy the node has.                                               *)
(***************************************************************************)
\* Mutants: only a NORMAL task drops the copy; it is dropped even if there is none.
DropsSmOnDemand(state, r) == state = "NORMAL" /\ r.sm /= NoSlot
DropsSmAlways(state, r)   == state \in {"NORMAL", "PREFETCH"}

DropsSm(state, r) == state \in {"NORMAL", "PREFETCH"} /\ r.sm /= NoSlot

FetchDevice(n, state, ptr) ==
  LET r == OnCuda(node[n], ptr) IN
  \/ /\ state /= "SMCACHE" /\ ~DropsSm(state, r)
     /\ node' = [node EXCEPT ![n] = r]
     /\ UNCHANGED <<smPool, aborted>>
  \/ /\ state = "SMCACHE"
     /\ node' = [node EXCEPT ![n] = [r EXCEPT !.sm = smPool.slotOf[n]]]
     /\ UNCHANGED <<smPool, aborted>>
  \/ /\ DropsSm(state, r)
     /\ IF CanEvict(smPool, smPool.slotOf[n])
        THEN /\ node' = [node EXCEPT ![n] = [r EXCEPT !.sm = NoSlot]]
             /\ smPool' = Unregistered(smPool, n)
             /\ UNCHANGED aborted
        ELSE /\ aborted' = TRUE
             /\ UNCHANGED <<node, smPool>>

\* GPUExecFunc's post-processing.  In the state EVICT it unregisters both
\* slots: FATAL unless the node has a GPU slot, then unless it has an SM slot.
FinishDevice(n, state) ==
  \/ /\ state \in {"NORMAL", "PREFETCH"}
     /\ UNCHANGED <<gpuPool, smPool, node, aborted>>
  \/ /\ state = "SMCACHE"
     /\ node' = [node EXCEPT ![n] = OnDisk(@)]
     /\ UNCHANGED <<gpuPool, smPool, aborted>>
  \/ /\ state = "EVICT"
     /\ IF CanEvict(gpuPool, gpuPool.slotOf[n]) /\ CanEvict(smPool, smPool.slotOf[n])
        THEN /\ gpuPool' = Unregistered(gpuPool, n)
             /\ smPool' = Unregistered(smPool, n)
             /\ node' = [node EXCEPT ![n] = [OnDisk(@) EXCEPT !.sm = NoSlot]]
             /\ UNCHANGED aborted
        ELSE /\ aborted' = TRUE
             /\ UNCHANGED <<gpuPool, smPool, node>>
=============================================================================
