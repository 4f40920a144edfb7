------------------------ MODULE ExpertCache_promises ------------------------
(***************************************************************************)
(* What ExpertCache promises to those who load and run experts, for every  *)
(* number of nodes and slots and every policy.                             *)
(*                                                                         *)
(* First, that it implements SlotAllocator twice, over the GPU pool and    *)
(* over the SM pool: the holders of the nodes' mutexes are the busy nodes, *)
(* and a slot's node is its owner.                                         *)
(*                                                                         *)
(* Second, what the exec thread multiplies by, in the nodes whose tiers no *)
(* caller sets.  Nothing counts visits on this path: visit_count stays 0,  *)
(* so a hit promotes nothing as long as both thresholds are positive (10   *)
(* and 50 in cache.cpp).                                                   *)
(*                                                                         *)
(* Third, that each policy evicts what it claims to rank lowest: the       *)
(* numbers the code keeps by slot are the nodes', through every change of  *)
(* owner.                                                                  *)
(***************************************************************************)
EXTENDS EvictionOrder, ExpertCache_proofs

\* One step of the holder of n's mutex, seen from a pool p that becomes q: no
\* slot changes hands, n gives its own back, or n takes one nobody holds.
HandsOver(N, p, q, n) ==
  \/ q.node = p.node
  \/ \E s \in Slots(N) : p.node[s] = n /\ q.node = [p.node EXCEPT ![s] = NoNode]
  \/ /\ locked' = locked
     /\ \E s \in Slots(N) :
          /\ p.node[s] \notin locked
          /\ \A t \in Slots(N) : p.node[t] /= n
          /\ q.node = [p.node EXCEPT ![s] = n]

\* Such a step is a step of the allocator.
LEMMA HandsOverImplements ==
  ASSUME NEW n \in Nodes, n \in locked, locked' \in {locked, locked \ {n}}
  PROVE  /\ HandsOver(NumGpuSlots, gpuPool, gpuPool', n) =>
              [GpuAllocator!Next]_GpuAllocator!vars
         /\ HandsOver(NumSmSlots, smPool, smPool', n) =>
              [SmAllocator!Next]_SmAllocator!vars
<1>1. ASSUME HandsOver(NumGpuSlots, gpuPool, gpuPool', n)
      PROVE  [GpuAllocator!Next]_GpuAllocator!vars
  BY <1>1 DEF HandsOver, GpuSlots, GpuAllocator!Next, GpuAllocator!vars,
     GpuAllocator!Grant, GpuAllocator!Release, GpuAllocator!End
<1>2. ASSUME HandsOver(NumSmSlots, smPool, smPool', n)
      PROVE  [SmAllocator!Next]_SmAllocator!vars
  BY <1>2 DEF HandsOver, SmSlots, SmAllocator!Next, SmAllocator!vars,
     SmAllocator!Grant, SmAllocator!Release, SmAllocator!End
<1> QED BY <1>1, <1>2

\* Whoever does something with a node holds its mutex.
LEMMA HolderIsLocked ==
  ASSUME Inv, NEW n \in Nodes, use[n] /= "idle"
  PROVE  n \in locked
BY DEF Inv, LockAgrees

-----------------------------------------------------------------------------
\* A registration takes a free slot, or the slot of a node nobody holds.
LEMMA PlacedHandsOver ==
  ASSUME NEW N \in Nat, NEW p \in Pools(N), PoolOK(p), NEW q,
         NEW n \in Nodes, ~Owned(p, n), locked \subseteq Nodes, locked' = locked,
         \/ HasFree(p) /\ q = Place(PopFree(p), n, TopFree(p))
         \/ ~HasFree(p) /\ \E s \in Evictable(p) : q = Place(Evict(p, s), n, s)
  PROVE  HandsOver(N, p, q, n)
<1>1. /\ p.node \in [Slots(N) -> Nodes \cup {NoNode}]
      /\ \A t \in Slots(N) : p.node[t] /= n
  BY NoSlotAssumption DEF Pools, PoolOK, IndexAgrees, Owned, Slots
<1>2. CASE HasFree(p) /\ q = Place(PopFree(p), n, TopFree(p))
  <2>1. TopFree(p) \in Slots(N) /\ p.node[TopFree(p)] = NoNode
    BY <1>2, TopFreeIsFree
  <2>2. LET s == TopFree(p)  r == Place(PopFree(p), n, s) IN
          /\ r \in Pools(N) /\ PoolOK(r)
          /\ r.node = [p.node EXCEPT ![s] = n]
          /\ r.slotOf = [p.slotOf EXCEPT ![n] = s]
    BY <1>2, PlaceFree
  <2>3. p.node[TopFree(p)] \notin locked
    BY <2>1, NoNodeAssumption
  <2> QED BY <1>1, <1>2, <2>1, <2>2, <2>3 DEF HandsOver
<1>3. ASSUME ~HasFree(p), NEW s \in Evictable(p), q = Place(Evict(p, s), n, s)
      PROVE  HandsOver(N, p, q, n)
  <2>1. s \in Slots(N) /\ p.node[s] \in Nodes /\ p.node[s] \notin locked
    BY <1>1 DEF Evictable
  <2>2. LET v == p.node[s]  r == Place(Evict(p, s), n, s) IN
          /\ n /= v /\ p.slotOf[v] = s
          /\ r \in Pools(N) /\ PoolOK(r)
          /\ r.node = [p.node EXCEPT ![s] = n]
          /\ r.slotOf[n] = s /\ r.slotOf[v] = NoSlot
          /\ \A m \in Nodes \ {n, v} : r.slotOf[m] = p.slotOf[m]
    BY <1>3, <2>1, PlaceTaken
  <2> QED BY <1>1, <1>3, <2>1, <2>2 DEF HandsOver
<1> QED BY <1>2, <1>3

\* An unregistration gives back the slot of the node itself.
LEMMA UnregisteredHandsOver ==
  ASSUME NEW N \in Nat, NEW p \in Pools(N), PoolOK(p), NEW n \in Nodes,
         CanEvict(p, p.slotOf[n])
  PROVE  HandsOver(N, p, Unregistered(p, n), n)
<1>1. p.slotOf[n] \in Slots(N) /\ Owned(p, n)
  BY NoSlotAssumption DEF CanEvict, Pools, Owned, Slots
<1>2. LET s == p.slotOf[n]  e == Evict(p, s) IN
        /\ CanEvict(p, s) /\ p.node[s] = n
        /\ e \in Pools(N) /\ PoolOK(e)
        /\ e.node = [p.node EXCEPT ![s] = NoNode]
        /\ e.slotOf = [p.slotOf EXCEPT ![n] = NoSlot]
  BY <1>1, EvictOwned
<1> QED BY <1>1, <1>2 DEF HandsOver, Unregistered

-----------------------------------------------------------------------------
(***************************************************************************)
(* The actions of the holder of n's mutex.                                 *)
(***************************************************************************)
Implements ==
  [GpuAllocator!Next]_GpuAllocator!vars /\ [SmAllocator!Next]_SmAllocator!vars

\* RegisterCacheSlotForNode leaves the SM pool alone.
LEMMA StageGpuImplements ==
  ASSUME Inv, NEW n \in Nodes, StageGpu(n)
  PROVE  Implements
<1>1. n \in locked /\ locked' = locked /\ smPool' = smPool /\ locked \subseteq Nodes
  BY HolderIsLocked DEF StageGpu, RegisterCacheSlotForNode, Inv, TypeOK, CacheTypeOK
<1>2. HandsOver(NumGpuSlots, gpuPool, gpuPool', n)
  <2>1. CASE gpuPool' = gpuPool
    BY <2>1 DEF HandsOver
  <2>2. CASE ~Owned(gpuPool, n) /\ GpuSlotFree(n)
    BY <1>1, <2>2, InvFacts, PlacedHandsOver DEF GpuSlotFree
  <2>3. CASE ~Owned(gpuPool, n) /\ GpuSlotTaken(n)
    <3>1. PICK s \in Victims(gpuPool, gpuMeta) : gpuPool' = Place(Evict(gpuPool, s), n, s)
      BY <2>3 DEF GpuSlotTaken
    <3>2. s \in Evictable(gpuPool) /\ ~HasFree(gpuPool)
      BY <2>3, <3>1 DEF Victims, GpuSlotTaken
    <3> QED BY <1>1, <2>3, <3>1, <3>2, InvFacts, PlacedHandsOver
  <2> QED BY <2>1, <2>2, <2>3 DEF StageGpu, RegisterCacheSlotForNode, GpuNoVictim
<1>3. HandsOver(NumSmSlots, smPool, smPool', n)
  BY <1>1 DEF HandsOver
<1> QED BY <1>1, <1>2, <1>3, HandsOverImplements DEF Implements

\* RegisterSMCacheForNode leaves the GPU pool alone.
LEMMA StageSmImplements ==
  ASSUME Inv, NEW n \in Nodes, StageSm(n)
  PROVE  Implements
<1>1. n \in locked /\ locked' = locked /\ gpuPool' = gpuPool /\ locked \subseteq Nodes
  BY HolderIsLocked DEF StageSm, RegisterSMCacheForNode, Inv, TypeOK, CacheTypeOK
<1>2. HandsOver(NumSmSlots, smPool, smPool', n)
  <2>1. CASE smPool' = smPool
    BY <2>1 DEF HandsOver
  <2>2. CASE ~Owned(smPool, n) /\ SmSlotFree(n)
    BY <1>1, <2>2, InvFacts, PlacedHandsOver DEF SmSlotFree
  <2>3. CASE ~Owned(smPool, n) /\ SmSlotTaken(n)
    <3>1. PICK s \in Victims(smPool, smMeta) : smPool' = Place(Evict(smPool, s), n, s)
      BY <2>3 DEF SmSlotTaken
    <3>2. s \in Evictable(smPool) /\ ~HasFree(smPool)
      BY <2>3, <3>1 DEF Victims, SmSlotTaken
    <3> QED BY <1>1, <2>3, <3>1, <3>2, InvFacts, PlacedHandsOver
  <2> QED BY <2>1, <2>2, <2>3 DEF StageSm, RegisterSMCacheForNode, SmNoVictim
<1>3. HandsOver(NumGpuSlots, gpuPool, gpuPool', n)
  BY <1>1 DEF HandsOver
<1> QED BY <1>1, <1>2, <1>3, HandsOverImplements DEF Implements

\* The fetch thread may drop the node's SM copy, and no other node's.
LEMMA FetchImplements ==
  ASSUME Inv, NEW n \in Nodes, n \in locked, NEW state, NEW ptr,
         FetchDevice(n, state, ptr), gpuPool' = gpuPool,
         locked' \in {locked, locked \ {n}}
  PROVE  Implements
<1>1. smPool' = smPool \/ (CanEvict(smPool, smPool.slotOf[n]) /\ smPool' = Unregistered(smPool, n))
  BY DEF FetchDevice
<1>2. HandsOver(NumSmSlots, smPool, smPool', n)
  <2>1. CASE smPool' = smPool
    BY <2>1 DEF HandsOver
  <2>2. CASE CanEvict(smPool, smPool.slotOf[n]) /\ smPool' = Unregistered(smPool, n)
    BY <2>2, InvFacts, UnregisteredHandsOver
  <2> QED BY <1>1, <2>1, <2>2
<1>3. HandsOver(NumGpuSlots, gpuPool, gpuPool', n)
  BY DEF HandsOver
<1> QED BY <1>2, <1>3, HandsOverImplements DEF Implements

\* The exec thread unregisters both slots of an EVICT task, if it gets that far.
LEMMA FinishImplements ==
  ASSUME Inv, NEW n \in Nodes, n \in locked, NEW state, FinishDevice(n, state),
         locked' \in {locked, locked \ {n}}
  PROVE  Implements
<1>1. \/ gpuPool' = gpuPool /\ smPool' = smPool
      \/ /\ CanEvict(gpuPool, gpuPool.slotOf[n]) /\ gpuPool' = Unregistered(gpuPool, n)
         /\ CanEvict(smPool, smPool.slotOf[n]) /\ smPool' = Unregistered(smPool, n)
  BY DEF FinishDevice
<1>2. HandsOver(NumGpuSlots, gpuPool, gpuPool', n)
  <2>1. CASE gpuPool' = gpuPool
    BY <2>1 DEF HandsOver
  <2>2. CASE CanEvict(gpuPool, gpuPool.slotOf[n]) /\ gpuPool' = Unregistered(gpuPool, n)
    BY <2>2, InvFacts, UnregisteredHandsOver
  <2> QED BY <1>1, <2>1, <2>2
<1>3. HandsOver(NumSmSlots, smPool, smPool', n)
  <2>1. CASE smPool' = smPool
    BY <2>1 DEF HandsOver
  <2>2. CASE CanEvict(smPool, smPool.slotOf[n]) /\ smPool' = Unregistered(smPool, n)
    BY <2>2, InvFacts, UnregisteredHandsOver
  <2> QED BY <1>1, <2>1, <2>2
<1> QED BY <1>2, <1>3, HandsOverImplements DEF Implements

\* A cancelled prefetch gives its GPU slot back.
LEMMA CancelImplements ==
  ASSUME Inv, NEW n \in Nodes, Cancel(n)
  PROVE  Implements
<1>1. n \in locked /\ locked' \in {locked, locked \ {n}} /\ smPool' = smPool
  BY HolderIsLocked DEF Cancel, Unlock
<1>2. HandsOver(NumGpuSlots, gpuPool, gpuPool', n)
  <2>1. CASE gpuPool' = gpuPool
    BY <2>1 DEF HandsOver
  <2>2. CASE CanEvict(gpuPool, gpuPool.slotOf[n]) /\ gpuPool' = Unregistered(gpuPool, n)
    BY <2>2, InvFacts, UnregisteredHandsOver
  <2> QED BY <2>1, <2>2 DEF Cancel, UnregisterCacheSlotForNode
<1>3. HandsOver(NumSmSlots, smPool, smPool', n)
  BY <1>1 DEF HandsOver
<1> QED BY <1>1, <1>2, <1>3, HandsOverImplements DEF Implements

-----------------------------------------------------------------------------
\* A step that moves no mutex and no slot is a stutter of both allocators.
LEMMA StutterImplements ==
  UNCHANGED <<gpuPool, smPool, locked>> => Implements
BY DEF Implements, GpuAllocator!vars, SmAllocator!vars

\* Taking a mutex makes the node busy.
LEMMA AcquireImplements ==
  ASSUME Inv, NEW n \in Nodes, Acquire(n)
  PROVE  Implements
<1>1. n \notin locked /\ locked' = locked \cup {n} /\ UNCHANGED <<gpuPool, smPool>>
  BY DEF Acquire, Inv, LockAgrees
<1>2. GpuAllocator!Begin(n) /\ SmAllocator!Begin(n)
  BY <1>1 DEF GpuAllocator!Begin, SmAllocator!Begin
<1> QED BY <1>2 DEF Implements, GpuAllocator!Next, SmAllocator!Next

\* Every step of the cache is a step of both allocators.
LEMMA NextImplements ==
  ASSUME Inv, [Next]_vars
  PROVE  Implements
<1>1. CASE UNCHANGED vars
  BY <1>1, StutterImplements DEF vars, cacheVars
<1>2. CASE Tick
  BY <1>2, StutterImplements DEF Tick
<1>3. ASSUME NEW n \in Nodes, NEW k \in 1 .. MaxTokens, HitStep(n, k)
      PROVE  Implements
  BY <1>3, StutterImplements DEF HitStep, HitTask, HitResident, UpdateOnHit
<1>4. ASSUME NEW n \in Nodes, TaskStep(n)
      PROVE  Implements
  <2>1. CASE Acquire(n)
    BY <2>1, AcquireImplements
  <2>2. CASE StageGpu(n)
    BY <2>2, StageGpuImplements
  <2>3. CASE StageSm(n)
    BY <2>3, StageSmImplements
  <2>4. CASE StageDock(n)
    BY <2>4, StutterImplements DEF StageDock, cacheVars
  <2>5. CASE FetchToRun(n)
    <3>1. n \in locked
      BY <2>5, HolderIsLocked DEF FetchToRun, Fetchable
    <3> QED BY <2>5, <3>1, FetchImplements DEF FetchToRun
  <2>6. CASE FetchPrefetched(n)
    <3>1. n \in locked
      BY <2>6, HolderIsLocked DEF FetchPrefetched, Fetchable
    <3> QED BY <2>6, <3>1, FetchImplements DEF FetchPrefetched, Unlock
  <2>7. CASE FetchSm(n)
    BY <2>7, HolderIsLocked, FetchImplements DEF FetchSm
  <2>8. CASE FetchDock(n)
    BY <2>8, HolderIsLocked, FetchImplements DEF FetchDock
  <2>9. CASE FinishRun(n)
    BY <2>9, HolderIsLocked, FinishImplements DEF FinishRun, Finish, Unlock
  <2>10. CASE FinishSm(n)
    BY <2>10, HolderIsLocked, FinishImplements DEF FinishSm, Finish, Unlock
  <2>11. CASE FinishDock(n)
    BY <2>11, HolderIsLocked, FinishImplements DEF FinishDock, Finish, Unlock
  <2>12. CASE Cancel(n)
    BY <2>12, CancelImplements
  <2>13. CASE \E t \in UserTiers[n] : SetNodeLutTier(n, t)
    BY <2>13, StutterImplements DEF SetNodeLutTier
  <2> QED BY <1>4, <2>1, <2>2, <2>3, <2>4, <2>5, <2>6, <2>7, <2>8, <2>9, <2>10,
             <2>11, <2>12, <2>13 DEF TaskStep
<1> QED BY <1>1, <1>2, <1>3, <1>4 DEF Next

\* Two empty pools are two allocators at the start.
LEMMA InitImplements == Init => GpuAllocator!Init /\ SmAllocator!Init
BY DEF Init, CacheInit, EmptyPool, GpuSlots, SmSlots, GpuAllocator!Init, SmAllocator!Init

\* Both pools keep the allocator's promise (cache.cpp:313-450, memory_manager.cpp:
\* 60-94): a slot changes hands only when nobody loads or runs its owner, or by
\* the owner's own unregistration; a busy node's slot is never taken.
THEOREM PoolsImplementAllocator == Spec => PoolsKeepPromise
<1>1. Inv /\ [Next]_vars =>
        [GpuAllocator!Next]_GpuAllocator!vars /\ [SmAllocator!Next]_SmAllocator!vars
  BY NextImplements DEF Implements
<1> QED BY InitImplements, Invariance, <1>1, PTL
        DEF Spec, PoolsKeepPromise, GpuAllocator!Spec, SmAllocator!Spec

-----------------------------------------------------------------------------
\* On the GPU, n holds weights that were decoded at the tier it has.
Decoded(n, r) ==
  /\ r.visits = 0
  /\ UserTiers[n] = {} /\ r.device = "cuda" => r.mem /= NoMem /\ r.last = r.tier

\* The strengthening: it holds of every node, and a running one is on the GPU.
DecodedInv ==
  \A n \in Nodes : Decoded(n, node[n]) /\ (use[n] = "run" => Resident(n))

-----------------------------------------------------------------------------
(***************************************************************************)
(* SetDevice, on a record that is decoded.                                 *)
(***************************************************************************)
\* To disk.
LEMMA OnDiskDecoded ==
  ASSUME NEW n \in Nodes, NEW r \in NodeRecords, Decoded(n, r)
  PROVE  Decoded(n, OnDisk(r))
BY DEF Decoded, OnDisk, NodeRecords

\* To CUDA: a cold node is decoded into the pointer it is given, and a node that
\* is there already keeps what it has.
LEMMA OnCudaDecoded ==
  ASSUME NEW n \in Nodes, NEW r \in NodeRecords, NEW ptr, Decoded(n, r),
         r.device = "disk" => r.mem = NoMem /\ ptr /= NoMem
  PROVE  Decoded(n, OnCuda(r, ptr)) /\ OnCuda(r, ptr).device = "cuda"
         /\ OnCuda(r, ptr) \in [device : {"disk", "cuda"}, mem : {r.mem, ptr},
                                sm : SmSlots \cup {NoSlot}, tier : Tiers,
                                last : Tiers \cup {-1}, visits : Nat]
BY DEF Decoded, OnCuda, NodeRecords

\* The SM slot plays no part.
LEMMA SmDecoded ==
  ASSUME NEW n \in Nodes, NEW M, NEW r \in [device : {"disk", "cuda"}, mem : M,
                           sm : SmSlots \cup {NoSlot}, tier : Tiers,
                           last : Tiers \cup {-1}, visits : Nat],
         NEW s, Decoded(n, r)
  PROVE  Decoded(n, [r EXCEPT !.sm = s]) /\ [r EXCEPT !.sm = s].device = r.device
BY DEF Decoded

-----------------------------------------------------------------------------
\* Only n's record changes, and what n is used for.
LEMMA OneNode ==
  ASSUME Inv, DecodedInv, NEW n \in Nodes, NEW r, Decoded(n, r),
         node' = [node EXCEPT ![n] = r],
         NEW u, use' = use \/ use' = [use EXCEPT ![n] = u],
         use'[n] = "run" => r.device = "cuda"
  PROVE  DecodedInv'
BY InvFacts DEF DecodedInv, Decoded, Resident

\* Nothing but the use of n changes, and it does not become "run".
LEMMA SameNodes ==
  ASSUME Inv, DecodedInv, NEW n \in Nodes, node' = node,
         NEW u, u /= "run", use' = use \/ use' = [use EXCEPT ![n] = u]
  PROVE  DecodedInv'
BY InvFacts DEF DecodedInv, Decoded, Resident

\* The pointer of a task that will decode a cold node is not null.
LEMMA TaskPtrDecodes ==
  ASSUME Inv, NEW n \in Nodes, Fetchable(n), ~Resident(n)
  PROVE  node[n].device = "disk" /\ node[n].mem = NoMem /\ TaskPtr(n) /= NoMem
<1>1. use[n] = "gpu" /\ NodeAgrees("gpu", node[n], gpuPool.slotOf[n], smPool.slotOf[n])
  BY InvNodes DEF Fetchable
<1>2. gpuPool.slotOf[n] \in GpuSlots
  BY <1>1, InvFacts DEF NodeAgrees, GpuAgrees
<1> QED BY <1>1, <1>2, MemAssumption, SlotCounts
        DEF NodeAgrees, GpuAgrees, TaskPtr, GpuSlots, Slots

\* The fetch thread decodes n, or aborts and leaves it as it was.
LEMMA FetchDecoded ==
  ASSUME Inv, DecodedInv, NEW n \in Nodes, NEW state, NEW ptr,
         FetchDevice(n, state, ptr), ~aborted,
         node[n].device = "disk" => node[n].mem = NoMem /\ ptr /= NoMem,
         NEW u, use' = (IF aborted' THEN use ELSE [use EXCEPT ![n] = u])
  PROVE  DecodedInv'
<1> DEFINE r == OnCuda(node[n], ptr)
<1>1. node[n] \in NodeRecords /\ Decoded(n, node[n])
  BY InvFacts DEF DecodedInv
<1>2. /\ Decoded(n, r) /\ r.device = "cuda"
      /\ r \in [device : {"disk", "cuda"}, mem : {node[n].mem, ptr},
                sm : SmSlots \cup {NoSlot}, tier : Tiers,
                last : Tiers \cup {-1}, visits : Nat]
  BY <1>1, OnCudaDecoded
<1> HIDE DEF r
<1>3. CASE aborted' /\ node' = node
  BY <1>3 DEF DecodedInv, Decoded, Resident
<1>4. CASE node' = [node EXCEPT ![n] = r]
  BY <1>2, <1>4, OneNode
<1>5. ASSUME NEW s, node' = [node EXCEPT ![n] = [r EXCEPT !.sm = s]]
      PROVE  DecodedInv'
  <2> DEFINE q == [r EXCEPT !.sm = s]
  <2>1. Decoded(n, q) /\ q.device = "cuda" /\ node' = [node EXCEPT ![n] = q]
    BY <1>2, <1>5, SmDecoded
  <2> HIDE DEF q
  <2> QED BY <2>1, OneNode
<1> QED BY <1>3, <1>4, <1>5 DEF FetchDevice, r

\* The exec thread leaves n decoded, or sends it to disk.
LEMMA FinishDecoded ==
  ASSUME Inv, DecodedInv, NEW n \in Nodes, NEW state, FinishDevice(n, state),
         use' = use \/ use' = [use EXCEPT ![n] = "idle"],
         node' = node \/ use'[n] = "idle"
  PROVE  DecodedInv'
<1> DEFINE r == OnDisk(node[n])
<1>1. node[n] \in NodeRecords /\ Decoded(n, r) /\ r \in NodeRecords
  BY InvFacts, OnDiskFacts, OnDiskDecoded DEF DecodedInv
<1> HIDE DEF r
<1>2. CASE node' = node
  BY <1>2, SameNodes
<1>3. CASE use'[n] = "idle" /\ node' = [node EXCEPT ![n] = r]
  BY <1>1, <1>3, OneNode
<1>4. CASE use'[n] = "idle" /\ node' = [node EXCEPT ![n] = [r EXCEPT !.sm = NoSlot]]
  <2> DEFINE q == [r EXCEPT !.sm = NoSlot]
  <2>1. Decoded(n, q) /\ node' = [node EXCEPT ![n] = q]
    BY <1>1, <1>4 DEF Decoded, NodeRecords
  <2> HIDE DEF q
  <2> QED BY <1>4, <2>1, OneNode
<1> QED BY <1>2, <1>3, <1>4 DEF FinishDevice, r

-----------------------------------------------------------------------------
\* A registration writes, of a node it does not stage, only a victim: an idle
\* node, that goes to disk or loses its SM copy.
LEMMA StageGpuDecoded ==
  ASSUME Inv, DecodedInv, NEW n \in Nodes, StageGpu(n)
  PROVE  DecodedInv'
<1>1. use' = use \/ use' = [use EXCEPT ![n] = "gpu"]
  BY DEF StageGpu, Becomes
<1>2. CASE node' = node
  BY <1>1, <1>2, SameNodes
<1>3. CASE GpuSlotTaken(n)
  <2>1. PICK s \in Victims(gpuPool, gpuMeta) :
          LET v == gpuPool.node[s] IN
            node' = [node EXCEPT ![v] = [OnDisk(@) EXCEPT !.tier = Demoted(v)]]
    BY <1>3 DEF GpuSlotTaken
  <2> DEFINE v == gpuPool.node[s]
             r == OnDisk(node[v])
             q == [r EXCEPT !.tier = Demoted(v)]
  <2>2. v \in Nodes /\ use[v] = "idle"
    BY InvFacts, VictimFacts
  <2>3. r \in NodeRecords /\ r.device = "disk" /\ Decoded(v, r)
    BY <2>2, InvFacts, OnDiskFacts, OnDiskDecoded DEF DecodedInv
  <2>4. node' = [node EXCEPT ![v] = q]
    BY <2>1
  <2> HIDE DEF r, v
  <2>5. Decoded(v, q) /\ q.device = "disk"
    BY <2>3 DEF Decoded, NodeRecords
  <2> HIDE DEF q
  <2> QED BY <1>1, <2>2, <2>4, <2>5, InvFacts DEF DecodedInv, Decoded, Resident
<1> QED BY <1>2, <1>3 DEF StageGpu, RegisterCacheSlotForNode, GpuSlotFree, GpuNoVictim

\* The SM victim keeps its weights.
LEMMA StageSmDecoded ==
  ASSUME Inv, DecodedInv, NEW n \in Nodes, StageSm(n)
  PROVE  DecodedInv'
<1>1. use' = use \/ use' = [use EXCEPT ![n] = "sm"]
  BY DEF StageSm, Becomes
<1>2. CASE node' = node
  BY <1>1, <1>2, SameNodes
<1>3. CASE SmSlotTaken(n)
  <2>1. PICK v \in Nodes : node' = [node EXCEPT ![v].sm = NoSlot]
    BY <1>3, InvFacts, VictimFacts DEF SmSlotTaken
  <2>2. ASSUME NEW m \in Nodes
        PROVE  /\ node'[m].visits = node[m].visits /\ node'[m].device = node[m].device
               /\ node'[m].mem = node[m].mem /\ node'[m].last = node[m].last
               /\ node'[m].tier = node[m].tier
    BY <2>1, InvFacts DEF NodeRecords
  <2> QED BY <1>1, <2>2, InvFacts DEF DecodedInv, Decoded, Resident
<1> QED BY <1>2, <1>3 DEF StageSm, RegisterSMCacheForNode, SmSlotFree, SmNoVictim

\* A hit on a node that was never visited leaves its tier alone.
LEMMA HitDecoded ==
  ASSUME Inv, DecodedInv, WarmAt > 0, HotAt > 0,
         NEW n \in Nodes, NEW k, HitStep(n, k)
  PROVE  DecodedInv'
<1>1. node' = [node EXCEPT ![n].tier = Promoted(n)] /\ use' = use
  BY DEF HitStep, HitTask, HitResident, UpdateOnHit
<1>2. node[n].visits = 0 /\ node[n].tier \in Tiers
  BY InvFacts DEF DecodedInv, Decoded, NodeRecords
<1>3. Promoted(n) = node[n].tier
  BY <1>2, TierBounds DEF Promoted, MinTier, MaxTier, Tiers
<1>4. node' = node
  BY <1>1, <1>3, InvFacts DEF NodeRecords
<1> QED BY <1>1, <1>4 DEF DecodedInv, Decoded, Resident

\* Every step keeps DecodedInv.
LEMMA NextDecoded ==
  ASSUME Inv, DecodedInv, Next, WarmAt > 0, HotAt > 0
  PROVE  DecodedInv'
<1>1. ~aborted
  BY DEF Next
<1>2. CASE Tick
  BY <1>2 DEF Tick, DecodedInv, Decoded, Resident
<1>3. ASSUME NEW n \in Nodes, NEW k \in 1 .. MaxTokens, HitStep(n, k)
      PROVE  DecodedInv'
  BY <1>3, HitDecoded
<1>4. ASSUME NEW n \in Nodes, TaskStep(n)
      PROVE  DecodedInv'
  <2>1. CASE Acquire(n)
    BY <2>1, SameNodes DEF Acquire
  <2>2. CASE StageGpu(n)
    BY <2>2, StageGpuDecoded
  <2>3. CASE StageSm(n)
    BY <2>3, StageSmDecoded
  <2>4. CASE StageDock(n)
    <3>1. node' = node /\ (use' = use \/ use' = [use EXCEPT ![n] = "dock"])
      BY <2>4 DEF StageDock, Becomes, cacheVars
    <3> QED BY <3>1, SameNodes
  <2>5. CASE FetchToRun(n)
    <3>1. node[n].device = "disk" => node[n].mem = NoMem /\ TaskPtr(n) /= NoMem
      BY <2>5, TaskPtrDecodes DEF FetchToRun, Resident
    <3> QED BY <1>1, <2>5, <3>1, FetchDecoded DEF FetchToRun, Becomes
  <2>6. CASE FetchPrefetched(n)
    <3>1. node[n].device = "disk" => node[n].mem = NoMem /\ TaskPtr(n) /= NoMem
      BY <2>6, TaskPtrDecodes DEF FetchPrefetched, Resident
    <3> QED BY <1>1, <2>6, <3>1, FetchDecoded DEF FetchPrefetched, Unlock, Becomes
  <2>7. CASE FetchSm(n) \/ FetchDock(n)
    <3>1. node[n].mem = NoMem /\ DockMem /= NoMem
      BY <2>7, InvNodes, MemAssumption DEF FetchSm, FetchDock, NodeAgrees, GpuAgrees
    <3> QED BY <1>1, <2>7, <3>1, FetchDecoded DEF FetchSm, FetchDock, Becomes
  <2>8. CASE FinishRun(n) \/ FinishSm(n) \/ FinishDock(n)
    <3>1. PICK state : FinishDevice(n, state) /\ Unlock(n)
      BY <2>8 DEF FinishRun, FinishSm, FinishDock, Finish
    <3>2. /\ use' = use \/ use' = [use EXCEPT ![n] = "idle"]
          /\ node' = node \/ use'[n] = "idle"
      BY <1>1, <3>1, InvFacts DEF FinishDevice, Unlock, Becomes
    <3> QED BY <3>1, <3>2, FinishDecoded
  <2>9. CASE Cancel(n)
    <3>1. use' = [use EXCEPT ![n] = "idle"] \/ (use' = use /\ node' = node)
      BY <1>1, <2>9 DEF Cancel, Unlock, Becomes, UnregisterCacheSlotForNode
    <3>2. node' = node \/ node' = [node EXCEPT ![n] = OnDisk(node[n])]
      BY <2>9 DEF Cancel, UnregisterCacheSlotForNode
    <3>3. Decoded(n, OnDisk(node[n])) /\ use[n] = "gpu"
      BY <2>9, InvFacts, OnDiskDecoded DEF DecodedInv, Cancel
    <3>4. use'[n] /= "run"
      BY <3>1, <3>3, InvFacts
    <3>5. CASE node' = node
      BY <3>1, <3>5, SameNodes
    <3>6. CASE node' = [node EXCEPT ![n] = OnDisk(node[n])]
      BY <3>1, <3>3, <3>4, <3>6, OneNode
    <3> QED BY <3>2, <3>5, <3>6
  <2>10. ASSUME NEW t \in UserTiers[n], SetNodeLutTier(n, t)
         PROVE  DecodedInv'
    <3>1. UserTiers[n] /= {} /\ node' = [node EXCEPT ![n].tier = t] /\ use' = use
      BY <2>10 DEF SetNodeLutTier
    <3>2. Decoded(n, [node[n] EXCEPT !.tier = t])
      BY <3>1, InvFacts DEF DecodedInv, Decoded, NodeRecords
    <3> QED BY <3>1, <3>2, InvFacts DEF DecodedInv, Decoded, Resident, NodeRecords
  <2> QED BY <1>4, <2>1, <2>2, <2>3, <2>4, <2>5, <2>6, <2>7, <2>8, <2>9, <2>10
          DEF TaskStep
<1> QED BY <1>2, <1>3, <1>4 DEF Next

\* The exec thread multiplies by the weights in the node's own slot or in its
\* dock, decoded at the tier the node has (model_topology.cpp: SetDevice), as long as
\* no caller sets that node's tier, whatever it sets for others.
THEOREM RunsOnTheRightWeights ==
  ASSUME WarmAt > 0, HotAt > 0
  PROVE  Spec => []RunsOnOwnWeights
<1>1. Init => DecodedInv
  <2>1. ASSUME Init, NEW n \in Nodes PROVE node[n] = ColdNode /\ use[n] = "idle"
    BY <2>1 DEF Init, CacheInit
  <2>2. ASSUME Init, NEW n \in Nodes
        PROVE  Decoded(n, node[n]) /\ (use[n] = "run" => Resident(n))
    BY <2>1, <2>2 DEF Decoded, ColdNode
  <2> QED BY <2>2 DEF DecodedInv
<1>2. Inv /\ DecodedInv /\ [Next]_vars => DecodedInv'
  BY NextDecoded DEF vars, cacheVars, DecodedInv, Decoded, Resident
<1>3. Inv /\ DecodedInv => RunsOnOwnWeights
  BY InvNodes, InvFacts DEF DecodedInv, Decoded, Resident, RunsOnOwnWeights,
     NodeAgrees, GpuAgrees
<1> QED BY Invariance, <1>1, <1>2, <1>3, PTL DEF Spec
-----------------------------------------------------------------------------
\* A slot's number is the score of the node that owns it.  Marking, which ranks
\* by nothing, has no score.
NumbersFollow ==
  /\ score \in [Nodes -> Nat]
  /\ Policy = "Marking" => \A n \in Nodes : score[n] = 0
  /\ Policy /= "Marking" => \A n \in Nodes :
       Owned(gpuPool, n) => score[n] = gpuMeta[gpuPool.slotOf[n]]

OrderInv == Inv /\ NumbersFollow

\* What a task step does to the scores.
Rescored == score' = [n \in Nodes |-> IF Placed(n) THEN NewScore ELSE score[n]]

-----------------------------------------------------------------------------
\* At the start nobody owns a slot.
LEMMA OrderInitInv == OrderInit => OrderInv
<1> SUFFICES ASSUME OrderInit PROVE OrderInv
  OBVIOUS
<1>1. Inv
  BY InitInv DEF OrderInit
<1>2. \A n \in Nodes : ~Owned(gpuPool, n)
  BY EmptyPoolOK, SlotCounts DEF OrderInit, Init, CacheInit
<1>3. NumbersFollow
  BY <1>2 DEF NumbersFollow, OrderInit
<1> QED
  BY <1>1, <1>3 DEF OrderInv

\* A new score is a number, and it is the number OnMiss gives the slot.
LEMMA NewScoreFacts ==
  ASSUME Inv, NEW s \in GpuSlots, NEW meta \in [GpuSlots -> Nat]
  PROVE  /\ NewScore \in Nat /\ (Policy = "Marking" => NewScore = 0)
         /\ Policy /= "Marking" => OnMiss(meta, s)[s] = NewScore
         /\ \A t \in GpuSlots : t /= s => OnMiss(meta, s)[t] = meta[t]
BY PolicyAssumption DEF NewScore, OnMiss, Policies, Inv, TypeOK, CacheTypeOK

\* No slot gets a new owner, and only a holder's own slot is given back.
LEMMA NobodyPlaced ==
  ASSUME OrderInv, Rescored, gpuMeta' = gpuMeta,
         \A m \in Nodes : \/ gpuPool'.slotOf[m] = gpuPool.slotOf[m]
                          \/ gpuPool'.slotOf[m] = NoSlot /\ m \in locked
  PROVE  NumbersFollow' /\ LowestEvicted
<1>1. \A m \in Nodes : ~Placed(m)
  BY DEF Placed, Owned
<1>2. score' = score
  BY <1>1 DEF Rescored, OrderInv, NumbersFollow
<1>3. NumbersFollow'
  BY <1>2 DEF OrderInv, NumbersFollow, Owned
<1>4. LowestEvicted
  BY DEF LowestEvicted, Owned
<1> QED
  BY <1>3, <1>4

\* A free slot goes to n: n's score and the slot's number begin anew.
LEMMA FreePlaced ==
  ASSUME OrderInv, Rescored, NEW n \in Nodes, ~Owned(gpuPool, n), GpuSlotFree(n)
  PROVE  NumbersFollow' /\ LowestEvicted
<1> DEFINE s == TopFree(gpuPool)
<1>1. /\ gpuPool \in Pools(NumGpuSlots) /\ PoolOK(gpuPool) /\ NumGpuSlots \in Nat
      /\ gpuPool.slotOf \in [Nodes -> GpuSlots \cup {NoSlot}] /\ NoSlot \notin GpuSlots
      /\ gpuMeta \in [GpuSlots -> Nat] /\ score \in [Nodes -> Nat]
  BY InvFacts DEF OrderInv, NumbersFollow, Inv, TypeOK, CacheTypeOK
<1>2. HasFree(gpuPool) /\ gpuPool' = Place(PopFree(gpuPool), n, s)
      /\ gpuMeta' = OnMiss(gpuMeta, s)
  BY DEF GpuSlotFree
<1>3. s \in GpuSlots /\ gpuPool.node[s] = NoNode
  BY <1>1, <1>2, TopFreeIsFree DEF GpuSlots
<1>4. gpuPool'.slotOf = [gpuPool.slotOf EXCEPT ![n] = s]
  BY <1>1, <1>2, PlaceFree
<1> HIDE DEF s
<1>5. \A m \in Nodes : Placed(m) <=> m = n
  BY <1>1, <1>3, <1>4 DEF Placed, Owned
<1>6. \A m \in Nodes : Owned(gpuPool, m) => gpuPool.slotOf[m] \in GpuSlots /\ gpuPool.slotOf[m] /= s
  <2> SUFFICES ASSUME NEW m \in Nodes, gpuPool.slotOf[m] = s PROVE FALSE
    BY <1>1 DEF Owned
  <2>1. gpuPool.node[s] = m
    BY <1>1, <1>3 DEF PoolOK, IndexAgrees, Pools, GpuSlots
  <2> QED
    BY <1>3, <2>1, NoNodeAssumption
<1>7. /\ NewScore \in Nat /\ (Policy = "Marking" => NewScore = 0)
      /\ Policy /= "Marking" => gpuMeta'[s] = NewScore
      /\ \A t \in GpuSlots : t /= s => gpuMeta'[t] = gpuMeta[t]
  BY <1>1, <1>2, <1>3, NewScoreFacts DEF OrderInv
<1>8. score' \in [Nodes -> Nat] /\ score'[n] = NewScore
      /\ \A m \in Nodes : m /= n => score'[m] = score[m]
  BY <1>1, <1>5, <1>7 DEF Rescored
<1>9. NumbersFollow'
  <2>1. Policy = "Marking" => \A m \in Nodes : score'[m] = 0
    BY <1>7, <1>8 DEF OrderInv, NumbersFollow
  <2>2. ASSUME Policy /= "Marking", NEW m \in Nodes, Owned(gpuPool', m)
        PROVE  score'[m] = gpuMeta'[gpuPool'.slotOf[m]]
    <3>1. CASE m = n
      BY <1>1, <1>4, <1>7, <1>8, <2>2, <3>1
    <3>2. CASE m /= n
      <4>1. gpuPool'.slotOf[m] = gpuPool.slotOf[m] /\ Owned(gpuPool, m)
        BY <1>1, <1>4, <2>2, <3>2 DEF Owned
      <4>2. score[m] = gpuMeta[gpuPool.slotOf[m]]
        BY <2>2, <4>1 DEF OrderInv, NumbersFollow
      <4> QED
        BY <1>6, <1>7, <1>8, <3>2, <4>1, <4>2
    <3> QED
      BY <3>1, <3>2
  <2> QED
    BY <1>8, <2>1, <2>2 DEF NumbersFollow
<1>10. LowestEvicted
  BY <1>1, <1>3, <1>4 DEF LowestEvicted, Owned
<1> QED
  BY <1>9, <1>10

\* The slot of a victim goes to n.  The victim's number was the lowest, so its
\* score was.
LEMMA TakenPlaced ==
  ASSUME OrderInv, Rescored, NEW n \in Nodes, ~Owned(gpuPool, n), GpuSlotTaken(n)
  PROVE  NumbersFollow' /\ LowestEvicted
<1>1. /\ gpuPool \in Pools(NumGpuSlots) /\ PoolOK(gpuPool) /\ NumGpuSlots \in Nat
      /\ gpuPool.slotOf \in [Nodes -> GpuSlots \cup {NoSlot}] /\ NoSlot \notin GpuSlots
      /\ gpuMeta \in [GpuSlots -> Nat] /\ score \in [Nodes -> Nat]
      /\ DOMAIN gpuPool.node = GpuSlots /\ gpuPool.node \in [GpuSlots -> Nodes \cup {NoNode}]
  BY InvFacts DEF OrderInv, NumbersFollow, Inv, TypeOK, CacheTypeOK, Pools, GpuSlots
<1>2. PICK s \in Victims(gpuPool, gpuMeta) :
        /\ gpuPool' = Place(Evict(gpuPool, s), n, s)
        /\ gpuMeta' = OnMiss(AfterSelect(gpuPool, gpuMeta), s)
  BY DEF GpuSlotTaken
<1>3. ~HasFree(gpuPool)
  BY DEF GpuSlotTaken
<1>4. s \in Evictable(gpuPool)
  BY <1>2 DEF Victims
<1>5. s \in GpuSlots /\ gpuPool.node[s] \in Nodes /\ gpuPool.node[s] \notin locked
  BY <1>1, <1>4 DEF Evictable
<1> DEFINE v == gpuPool.node[s]
           meta == AfterSelect(gpuPool, gpuMeta)
<1>6. /\ n /= v /\ gpuPool.slotOf[v] = s
      /\ gpuPool'.slotOf[n] = s /\ gpuPool'.slotOf[v] = NoSlot
      /\ \A m \in Nodes \ {n, v} : gpuPool'.slotOf[m] = gpuPool.slotOf[m]
  <2> HIDE DEF v, meta
  <2>1. gpuPool.node[s] = v /\ s \in Slots(NumGpuSlots)
    BY <1>5 DEF v, GpuSlots
  <2>2. LET w == gpuPool.node[s]  q == Place(Evict(gpuPool, s), n, s) IN
          /\ n /= w /\ gpuPool.slotOf[w] = s
          /\ q \in Pools(NumGpuSlots) /\ PoolOK(q)
          /\ q.node = [gpuPool.node EXCEPT ![s] = n]
          /\ q.slotOf[n] = s /\ q.slotOf[w] = NoSlot
          /\ \A m \in Nodes \ {n, w} : q.slotOf[m] = gpuPool.slotOf[m]
    BY <1>1, <1>3, <1>5, <2>1, PlaceTaken
  <2> QED
    BY <1>2, <2>1, <2>2
<1>7. meta \in [GpuSlots -> Nat] /\ (Policy /= "Marking" => meta = gpuMeta)
  BY <1>1 DEF AfterSelect, NewPhase
<1>8. \A m \in Nodes : Owned(gpuPool, m) =>
        gpuPool.slotOf[m] \in GpuSlots /\ gpuPool.node[gpuPool.slotOf[m]] = m
  BY <1>1 DEF Owned, PoolOK, IndexAgrees
<1>9. /\ NewScore \in Nat /\ (Policy = "Marking" => NewScore = 0)
      /\ Policy /= "Marking" => gpuMeta'[s] = NewScore
      /\ \A t \in GpuSlots : t /= s => gpuMeta'[t] = meta[t]
  BY <1>2, <1>5, <1>7, NewScoreFacts DEF OrderInv
<1> HIDE DEF v, meta
<1>10. v \in Nodes /\ v \notin locked /\ v = gpuPool.node[s]
  BY <1>5 DEF v
<1>11. \A m \in Nodes : Placed(m) <=> m = n
  BY <1>1, <1>5, <1>6, <1>10 DEF Placed, Owned
<1>12. score' \in [Nodes -> Nat] /\ score'[n] = NewScore
       /\ \A m \in Nodes : m /= n => score'[m] = score[m]
  BY <1>1, <1>9, <1>11 DEF Rescored
<1>13. NumbersFollow'
  <2>1. Policy = "Marking" => \A m \in Nodes : score'[m] = 0
    BY <1>9, <1>12 DEF OrderInv, NumbersFollow
  <2>2. ASSUME Policy /= "Marking", NEW m \in Nodes, Owned(gpuPool', m)
        PROVE  score'[m] = gpuMeta'[gpuPool'.slotOf[m]]
    <3>1. CASE m = n
      BY <1>6, <1>9, <1>12, <2>2, <3>1
    <3>2. CASE m /= n
      <4>1. m /= v
        BY <1>6, <2>2 DEF Owned
      <4>2. gpuPool'.slotOf[m] = gpuPool.slotOf[m] /\ Owned(gpuPool, m)
        BY <1>6, <2>2, <3>2, <4>1 DEF Owned
      <4>3. score[m] = gpuMeta[gpuPool.slotOf[m]]
        BY <2>2, <4>2 DEF OrderInv, NumbersFollow
      <4>4. gpuPool.slotOf[m] \in GpuSlots /\ gpuPool.slotOf[m] /= s
        BY <1>8, <1>10, <4>1, <4>2
      <4> QED
        BY <1>7, <1>9, <1>12, <2>2, <3>2, <4>2, <4>3, <4>4
    <3> QED
      BY <3>1, <3>2
  <2> QED
    BY <1>12, <2>1, <2>2 DEF NumbersFollow
<1>14. LowestEvicted
  <2> SUFFICES ASSUME NEW u \in Nodes \ locked, Owned(gpuPool, u), ~Owned(gpuPool', u),
                      NEW m \in Nodes \ locked, Owned(gpuPool, m)
               PROVE  score[u] <= score[m]
    BY DEF LowestEvicted, Owned
  <2>1. u = v
    BY <1>1, <1>5, <1>6 DEF Owned
  <2>2. CASE Policy = "Marking"
    BY <2>2 DEF OrderInv, NumbersFollow
  <2>3. CASE Policy /= "Marking"
    <3>1. gpuPool.slotOf[m] \in Evictable(gpuPool)
      BY <1>1, <1>8, NoNodeAssumption DEF Evictable
    <3>2. /\ gpuPool.slotOf[m] \in GpuSlots
          /\ gpuMeta[s] \in Nat /\ gpuMeta[gpuPool.slotOf[m]] \in Nat
      BY <1>1, <1>5, <1>8
    <3>3. gpuMeta[s] <= gpuMeta[gpuPool.slotOf[m]]
      BY <1>2, <2>3, <3>1, <3>2 DEF Victims
    <3>4. score[u] = gpuMeta[s] /\ score[m] = gpuMeta[gpuPool.slotOf[m]]
      BY <1>6, <2>1, <2>3 DEF OrderInv, NumbersFollow
    <3> QED
      BY <3>3, <3>4
  <2> QED
    BY <2>2, <2>3
<1> QED
  BY <1>13, <1>14

-----------------------------------------------------------------------------
\* A hit on n adds to n's score what it adds to its slot's number.
LEMMA HitOrder ==
  ASSUME OrderInv, NEW n \in Nodes, NEW k \in 1 .. MaxTokens, HitStep(n, k),
         score' = [score EXCEPT ![n] = HitScore(@, k)]
  PROVE  NumbersFollow' /\ LowestEvicted
<1>1. /\ gpuPool.slotOf \in [Nodes -> GpuSlots \cup {NoSlot}]
      /\ PoolOK(gpuPool) /\ DOMAIN gpuPool.node = GpuSlots
      /\ gpuMeta \in [GpuSlots -> Nat] /\ score \in [Nodes -> Nat] /\ now \in Nat
      /\ k \in Nat
  BY InvFacts, ExpertCacheBounds
     DEF OrderInv, NumbersFollow, Inv, TypeOK, CacheTypeOK, Pools, GpuSlots
<1>2. /\ gpuPool' = gpuPool
      /\ gpuMeta' = IF Owned(gpuPool, n) THEN OnHit(gpuMeta, gpuPool.slotOf[n], k)
                                         ELSE gpuMeta
  BY DEF HitStep, HitTask, HitResident, UpdateOnHit
<1>3. /\ HitScore(score[n], k) \in Nat
      /\ Policy = "Marking" => HitScore(score[n], k) = score[n]
      /\ score' \in [Nodes -> Nat] /\ score'[n] = HitScore(score[n], k)
      /\ \A m \in Nodes : m /= n => score'[m] = score[m]
  BY <1>1, PolicyAssumption DEF HitScore, Policies
<1>4. LowestEvicted
  BY <1>2 DEF LowestEvicted, Owned
<1>5. Policy = "Marking" => \A m \in Nodes : score'[m] = 0
  BY <1>3 DEF OrderInv, NumbersFollow
<1>6. ASSUME Policy /= "Marking", NEW m \in Nodes, Owned(gpuPool, m)
      PROVE  score'[m] = gpuMeta'[gpuPool.slotOf[m]]
  <2>1. score[m] = gpuMeta[gpuPool.slotOf[m]] /\ gpuPool.slotOf[m] \in GpuSlots
    BY <1>1, <1>6 DEF OrderInv, NumbersFollow, Owned
  <2>2. CASE m = n
    <3>1. gpuMeta' = OnHit(gpuMeta, gpuPool.slotOf[n], k)
      BY <1>2, <1>6, <2>2
    <3>2. gpuMeta'[gpuPool.slotOf[n]] = HitScore(gpuMeta[gpuPool.slotOf[n]], k)
      BY <1>1, <1>6, <2>1, <2>2, <3>1, PolicyAssumption DEF OnHit, HitScore, Policies
    <3> QED
      BY <1>3, <2>1, <2>2, <3>2
  <2>3. CASE m /= n
    <3>1. Owned(gpuPool, n) => /\ gpuPool.slotOf[n] \in GpuSlots
                               /\ gpuPool.slotOf[n] /= gpuPool.slotOf[m]
      BY <1>1, <1>6, <2>1, <2>3 DEF Owned, PoolOK, IndexAgrees
    <3>2. gpuMeta'[gpuPool.slotOf[m]] = gpuMeta[gpuPool.slotOf[m]]
      BY <1>1, <1>2, <2>1, <3>1 DEF OnHit
    <3> QED
      BY <1>3, <2>1, <2>3, <3>2
  <2> QED
    BY <2>2, <2>3
<1> QED
  BY <1>2, <1>3, <1>4, <1>5, <1>6 DEF NumbersFollow, Owned

\* Giving back its own slot takes it from nobody else.
LEMMA GivenBack ==
  ASSUME Inv, NEW n \in Nodes, CanEvict(gpuPool, gpuPool.slotOf[n]), use[n] /= "idle",
         gpuPool' = Unregistered(gpuPool, n)
  PROVE  \A m \in Nodes : \/ gpuPool'.slotOf[m] = gpuPool.slotOf[m]
                          \/ gpuPool'.slotOf[m] = NoSlot /\ m \in locked
<1>1. Owned(gpuPool, n)
  BY InvFacts DEF CanEvict, Owned, Pools, GpuSlots
<1>2. gpuPool'.slotOf = [gpuPool.slotOf EXCEPT ![n] = NoSlot]
  BY <1>1, InvFacts, EvictOwned DEF Unregistered
<1>3. n \in locked
  BY DEF Inv, LockAgrees
<1> QED
  BY <1>2, <1>3, InvFacts

\* Every step of a task.
LEMMA TaskOrder ==
  ASSUME OrderInv, Rescored, Tick \/ \E n \in Nodes : TaskStep(n)
  PROVE  NumbersFollow' /\ LowestEvicted
<1>1. CASE UNCHANGED <<gpuPool, gpuMeta>>
  BY <1>1, NobodyPlaced
<1>2. CASE Tick
  BY <1>1, <1>2 DEF Tick
<1>3. ASSUME NEW n \in Nodes, StageGpu(n) PROVE NumbersFollow' /\ LowestEvicted
  <2>1. CASE Owned(gpuPool, n) \/ GpuNoVictim
    BY <1>1, <1>3, <2>1 DEF StageGpu, RegisterCacheSlotForNode, GpuNoVictim
  <2>2. CASE ~Owned(gpuPool, n) /\ GpuSlotFree(n)
    BY <2>2, FreePlaced
  <2>3. CASE ~Owned(gpuPool, n) /\ GpuSlotTaken(n)
    BY <2>3, TakenPlaced
  <2> QED
    BY <1>3, <2>1, <2>2, <2>3 DEF StageGpu, RegisterCacheSlotForNode
<1>4. ASSUME NEW n \in Nodes, Cancel(n) PROVE NumbersFollow' /\ LowestEvicted
  <2>1. CASE CanEvict(gpuPool, gpuPool.slotOf[n])
    <3>1. gpuPool' = Unregistered(gpuPool, n) /\ gpuMeta' = gpuMeta /\ use[n] /= "idle"
      BY <1>4, <2>1 DEF Cancel, UnregisterCacheSlotForNode
    <3> QED
      BY <2>1, <3>1, GivenBack, NobodyPlaced DEF OrderInv
  <2>2. CASE ~CanEvict(gpuPool, gpuPool.slotOf[n])
    BY <1>1, <1>4, <2>2 DEF Cancel, UnregisterCacheSlotForNode
  <2> QED
    BY <2>1, <2>2
<1>5. ASSUME NEW n \in Nodes, FinishRun(n) \/ FinishSm(n) \/ FinishDock(n)
      PROVE  NumbersFollow' /\ LowestEvicted
  <2>1. CASE /\ CanEvict(gpuPool, gpuPool.slotOf[n]) /\ use[n] /= "idle"
             /\ gpuPool' = Unregistered(gpuPool, n) /\ gpuMeta' = gpuMeta
    BY <2>1, GivenBack, NobodyPlaced DEF OrderInv
  <2>2. \/ UNCHANGED <<gpuPool, gpuMeta>>
        \/ /\ CanEvict(gpuPool, gpuPool.slotOf[n]) /\ use[n] /= "idle"
           /\ gpuPool' = Unregistered(gpuPool, n) /\ gpuMeta' = gpuMeta
    BY <1>5 DEF FinishRun, FinishSm, FinishDock, Finish, FinishDevice
  <2> QED
    BY <1>1, <2>1, <2>2
<1>6. ASSUME NEW n \in Nodes,
             \/ Acquire(n) \/ StageSm(n) \/ StageDock(n)
             \/ FetchToRun(n) \/ FetchPrefetched(n) \/ FetchSm(n) \/ FetchDock(n)
             \/ \E t \in UserTiers[n] : SetNodeLutTier(n, t)
      PROVE  NumbersFollow' /\ LowestEvicted
  <2>1. UNCHANGED <<gpuPool, gpuMeta>>
    BY <1>6 DEF Acquire, StageSm, RegisterSMCacheForNode, StageDock, FetchToRun,
                FetchPrefetched, FetchSm, FetchDock, SetNodeLutTier, cacheVars
  <2> QED
    BY <1>1, <2>1
<1> QED
  BY <1>2, <1>3, <1>4, <1>5, <1>6 DEF TaskStep

\* Each step keeps the invariant and evicts as the policy claims.
LEMMA OrderStep ==
  ASSUME OrderInv, [OrderNext]_orderVars
  PROVE  OrderInv' /\ (OrderNext => LowestEvicted)
<1>1. CASE OrderNext
  <2>1. Next
    BY <1>1 DEF OrderNext, Next
  <2>2. Inv'
    BY <2>1, NextInv DEF OrderInv
  <2>3. NumbersFollow' /\ LowestEvicted
    BY <1>1, HitOrder, TaskOrder DEF OrderNext, Rescored
  <2> QED
    BY <2>2, <2>3 DEF OrderInv
<1>2. CASE UNCHANGED orderVars
  <2>1. UNCHANGED vars /\ score' = score /\ gpuPool' = gpuPool /\ gpuMeta' = gpuMeta
    BY <1>2 DEF orderVars, vars, cacheVars
  <2>2. Inv'
    BY <2>1, StutterInv DEF OrderInv
  <2>3. NumbersFollow'
    BY <2>1 DEF OrderInv, NumbersFollow
  <2>4. OrderNext => LowestEvicted
    BY <2>1 DEF LowestEvicted, Owned
  <2> QED
    BY <2>2, <2>3, <2>4 DEF OrderInv
<1> QED
  BY <1>1, <1>2

\* The numbers the policies keep by slot are the scores of the slots' owners, in
\* every reachable state.
THEOREM OrderInvariance == OrderSpec => []OrderInv
BY OrderInitInv, OrderStep, PTL DEF OrderSpec

\* LRU, FIFO, LFU and LUT_MoE evict the node that ranks lowest by what they claim
\* to rank by, among those whose mutex is free (cache.cpp, select_victim_slot).
THEOREM LowestGoes == OrderSpec => EvictsLowest
<1>1. OrderInv /\ [OrderNext]_orderVars => [LowestEvicted]_orderVars
  BY OrderStep
<1> QED
  BY <1>1, OrderInvariance, PTL DEF OrderSpec, EvictsLowest
=============================================================================
