------------------------- MODULE ExpertCache_proofs -------------------------
(***************************************************************************)
(* ExpertCache keeps Inv, for every number of nodes and slots and every    *)
(* policy.  First the pool operators: each keeps the slot table, the node  *)
(* index and the free list in agreement.                                   *)
(***************************************************************************)
EXTENDS ExpertCache, TLAPS


\* The pool init_slots builds is consistent and nobody owns a slot in it.
LEMMA EmptyPoolOK ==
  ASSUME NEW N \in Nat
  PROVE  /\ EmptyPool(N) \in Pools(N)
         /\ PoolOK(EmptyPool(N))
         /\ \A n \in Nodes : ~Owned(EmptyPool(N), n)
<1>1. EmptyPool(N).free \in Seq(Slots(N))
  BY DEF EmptyPool, Slots
<1>2. EmptyPool(N) \in Pools(N)
  BY <1>1 DEF EmptyPool, Pools
<1>3. IndexAgrees(EmptyPool(N))
  BY NoNodeAssumption, NoSlotAssumption DEF IndexAgrees, EmptyPool, Slots
<1>4. \A s \in Slots(N) : FreeListed(EmptyPool(N), s)
  <2> SUFFICES ASSUME NEW s \in Slots(N)
               PROVE  \E i \in 1 .. Len(EmptyPool(N).free) : EmptyPool(N).free[i] = s
    BY DEF FreeListed
  <2>1. s + 1 \in 1 .. Len(EmptyPool(N).free) /\ EmptyPool(N).free[s + 1] = s
    BY DEF EmptyPool, Slots
  <2> QED BY <2>1
<1>5. FreeListExact(EmptyPool(N))
  <2>1. /\ DOMAIN EmptyPool(N).node = Slots(N)
        /\ \A s \in Slots(N) : EmptyPool(N).node[s] = NoNode
    BY DEF EmptyPool
  <2>2. \A i, j \in 1 .. Len(EmptyPool(N).free) :
          EmptyPool(N).free[i] = EmptyPool(N).free[j] => i = j
    BY DEF EmptyPool
  <2> QED BY <1>4, <2>1, <2>2 DEF FreeListExact
<1> QED BY <1>2, <1>3, <1>5 DEF PoolOK, Owned, EmptyPool

\* A free slot is a slot of the pool that no node owns.
LEMMA TopFreeIsFree ==
  ASSUME NEW N \in Nat, NEW p \in Pools(N), PoolOK(p), HasFree(p)
  PROVE  TopFree(p) \in Slots(N) /\ p.node[TopFree(p)] = NoNode
<1>1. p.free \in Seq(Slots(N)) /\ p.free /= <<>> /\ DOMAIN p.node = Slots(N)
  BY DEF Pools, HasFree
<1>2. Len(p.free) \in 1 .. Len(p.free)
  BY <1>1
<1>3. TopFree(p) \in Slots(N)
  BY <1>1, <1>2 DEF TopFree
<1> QED BY <1>1, <1>2, <1>3 DEF TopFree, PoolOK, FreeListExact, FreeListed

\* pop_free_slot then place: the popped slot goes to the node, nothing else moves.
LEMMA PlaceFree ==
  ASSUME NEW N \in Nat, NEW p \in Pools(N), PoolOK(p), HasFree(p),
         NEW n \in Nodes, ~Owned(p, n)
  PROVE  LET s == TopFree(p)  q == Place(PopFree(p), n, s) IN
           /\ q \in Pools(N) /\ PoolOK(q)
           /\ q.node = [p.node EXCEPT ![s] = n]
           /\ q.slotOf = [p.slotOf EXCEPT ![n] = s]
<1> DEFINE s == TopFree(p)
           f == SubSeq(p.free, 1, Len(p.free) - 1)
           q == Place(PopFree(p), n, s)
<1>1. /\ p.free \in Seq(Slots(N)) /\ p.free /= <<>>
      /\ p.node \in [Slots(N) -> Nodes \cup {NoNode}]
      /\ p.slotOf \in [Nodes -> Slots(N) \cup {NoSlot}]
  BY DEF Pools, HasFree
<1>2. Len(p.free) \in Nat /\ Len(p.free) > 0
  BY <1>1
<1>3. s \in Slots(N) /\ p.node[s] = NoNode /\ s = p.free[Len(p.free)]
  BY TopFreeIsFree DEF TopFree
<1>4. /\ f \in Seq(Slots(N)) /\ Len(f) = Len(p.free) - 1
      /\ \A i \in 1 .. Len(f) : f[i] = p.free[i]
  BY <1>1, <1>2
<1>5. \A i \in 1 .. Len(f) : f[i] /= s
  BY <1>2, <1>3, <1>4 DEF PoolOK, FreeListExact
<1>6. Erase(f, s) = f
  BY <1>5 DEF Erase
<1>7. q = [node |-> [p.node EXCEPT ![s] = n],
           slotOf |-> [p.slotOf EXCEPT ![n] = s], free |-> f]
  <2>1. PopFree(p) = [p EXCEPT !.free = f]
    BY DEF PopFree
  <2>2. /\ PopFree(p).node = p.node /\ PopFree(p).slotOf = p.slotOf
        /\ PopFree(p).free = f
    BY <2>1 DEF Pools
  <2> QED BY <1>6, <2>2 DEF Place
<1>8. q \in Pools(N)
  BY <1>1, <1>3, <1>4, <1>7 DEF Pools
<1>9. IndexAgrees(q)
  <2> SUFFICES ASSUME NEW t \in Slots(N), NEW m \in Nodes
               PROVE  q.slotOf[m] = t <=> q.node[t] = m
    BY <1>1, <1>7 DEF IndexAgrees
  <2>1. p.slotOf[m] = t <=> p.node[t] = m
    BY <1>1 DEF PoolOK, IndexAgrees
  <2>2. p.slotOf[n] = NoSlot
    BY DEF Owned
  <2> QED BY <1>1, <1>3, <1>7, <2>1, <2>2, NoNodeAssumption, NoSlotAssumption DEF Slots
<1>10. FreeListExact(q)
  <2>1. ASSUME NEW t \in Slots(N) PROVE q.node[t] = NoNode <=> FreeListed(q, t)
    <3>1. p.node[t] = NoNode <=> FreeListed(p, t)
      BY <1>1 DEF PoolOK, FreeListExact
    <3>2. FreeListed(q, t) <=> \E i \in 1 .. Len(f) : f[i] = t
      BY <1>7 DEF FreeListed
    <3>3. FreeListed(p, t) <=> t = s \/ \E i \in 1 .. Len(f) : f[i] = t
      <4> HIDE DEF s, f
      <4>1. ASSUME NEW i \in 1 .. Len(p.free), p.free[i] = t
            PROVE  t = s \/ \E j \in 1 .. Len(f) : f[j] = t
        <5>1. CASE i = Len(p.free)
          BY <1>3, <4>1, <5>1
        <5>2. CASE i /= Len(p.free)
          <6>1. i \in 1 .. Len(f)
            BY <1>2, <1>4, <5>2
          <6> QED BY <1>4, <4>1, <6>1
        <5> QED BY <5>1, <5>2
      <4>2. Len(p.free) \in 1 .. Len(p.free)
        BY <1>2
      <4>3. ASSUME NEW j \in 1 .. Len(f), f[j] = t
            PROVE  \E i \in 1 .. Len(p.free) : p.free[i] = t
        <5>1. j \in 1 .. Len(p.free) /\ p.free[j] = t
          BY <1>2, <1>4, <4>3
        <5> QED BY <5>1
      <4> QED BY <1>3, <4>1, <4>2, <4>3 DEF FreeListed
    <3> QED BY <1>1, <1>3, <1>5, <1>7, <3>1, <3>2, <3>3, NoNodeAssumption
  <2>2. \A i, j \in 1 .. Len(f) : f[i] = f[j] => i = j
    BY <1>2, <1>4 DEF PoolOK, FreeListExact
  <2>3. DOMAIN q.node = Slots(N) /\ q.free = f
    BY <1>1, <1>7
  <2> HIDE DEF q, f
  <2> QED BY <2>1, <2>2, <2>3 DEF FreeListExact
<1> QED BY <1>7, <1>8, <1>9, <1>10 DEF PoolOK

\* evict then place on a full pool: the slot passes from its owner to the node.
LEMMA PlaceTaken ==
  ASSUME NEW N \in Nat, NEW p \in Pools(N), PoolOK(p), ~HasFree(p),
         NEW n \in Nodes, ~Owned(p, n), NEW s \in Slots(N), p.node[s] \in Nodes
  PROVE  LET v == p.node[s]  q == Place(Evict(p, s), n, s) IN
           /\ n /= v /\ p.slotOf[v] = s
           /\ q \in Pools(N) /\ PoolOK(q)
           /\ q.node = [p.node EXCEPT ![s] = n]
           /\ q.slotOf[n] = s /\ q.slotOf[v] = NoSlot
           /\ \A m \in Nodes \ {n, v} : q.slotOf[m] = p.slotOf[m]
<1> DEFINE v == p.node[s]
           q == Place(Evict(p, s), n, s)
<1>1. /\ p.free = <<>>
      /\ p.node \in [Slots(N) -> Nodes \cup {NoNode}]
      /\ p.slotOf \in [Nodes -> Slots(N) \cup {NoSlot}]
  BY DEF Pools, HasFree
<1>2. p.slotOf[v] = s /\ p.slotOf[n] = NoSlot /\ n /= v
  BY <1>1, NoSlotAssumption DEF PoolOK, IndexAgrees, Owned, Slots
<1>3. Evict(p, s) = [node |-> [p.node EXCEPT ![s] = NoNode],
                     slotOf |-> [p.slotOf EXCEPT ![v] = NoSlot], free |-> <<s>>]
  BY <1>1, NoNodeAssumption DEF Evict
<1>4. Erase(<<s>>, s) = <<>>
  <2>1. \E i \in 1 .. Len(<<s>>) : <<s>>[i] = s
    OBVIOUS
  <2> QED BY <2>1 DEF Erase
<1>5. q = [node |-> [p.node EXCEPT ![s] = n],
           slotOf |-> [p.slotOf EXCEPT ![v] = NoSlot, ![n] = s], free |-> <<>>]
  BY <1>1, <1>3, <1>4 DEF Place
<1>6. /\ q.slotOf[n] = s /\ q.slotOf[v] = NoSlot
      /\ \A m \in Nodes \ {n, v} : q.slotOf[m] = p.slotOf[m]
  BY <1>1, <1>2, <1>5
<1>7. q \in Pools(N)
  BY <1>1, <1>2, <1>5 DEF Pools
<1>8. IndexAgrees(q)
  <2> SUFFICES ASSUME NEW t \in Slots(N), NEW m \in Nodes
               PROVE  q.slotOf[m] = t <=> q.node[t] = m
    BY <1>1, <1>5 DEF IndexAgrees
  <2>1. p.slotOf[m] = t <=> p.node[t] = m
    BY <1>1 DEF PoolOK, IndexAgrees
  <2> QED BY <1>1, <1>2, <1>5, <2>1, NoNodeAssumption, NoSlotAssumption DEF Slots
<1>9. FreeListExact(q)
  <2>1. \A t \in Slots(N) : p.node[t] /= NoNode
    BY <1>1 DEF PoolOK, FreeListExact, FreeListed
  <2> QED BY <1>1, <1>5, <2>1, NoNodeAssumption DEF FreeListExact, FreeListed
<1> QED BY <1>2, <1>5, <1>6, <1>7, <1>8, <1>9 DEF PoolOK

\* evict on an owned slot: the owner loses it and the free list gains it.
LEMMA EvictOwned ==
  ASSUME NEW N \in Nat, NEW p \in Pools(N), PoolOK(p),
         NEW n \in Nodes, Owned(p, n)
  PROVE  LET s == p.slotOf[n]  q == Evict(p, s) IN
           /\ CanEvict(p, s) /\ p.node[s] = n
           /\ q \in Pools(N) /\ PoolOK(q)
           /\ q.node = [p.node EXCEPT ![s] = NoNode]
           /\ q.slotOf = [p.slotOf EXCEPT ![n] = NoSlot]
<1> DEFINE s == p.slotOf[n]
           q == Evict(p, s)
<1>1. /\ p.free \in Seq(Slots(N))
      /\ p.node \in [Slots(N) -> Nodes \cup {NoNode}]
      /\ p.slotOf \in [Nodes -> Slots(N) \cup {NoSlot}]
  BY DEF Pools
<1>2. s \in Slots(N) /\ p.node[s] = n
  BY <1>1 DEF Owned, PoolOK, IndexAgrees
<1>3. q = [node |-> [p.node EXCEPT ![s] = NoNode],
           slotOf |-> [p.slotOf EXCEPT ![n] = NoSlot], free |-> Append(p.free, s)]
  BY <1>2, NoNodeAssumption DEF Evict
<1>4. /\ Append(p.free, s) \in Seq(Slots(N)) /\ Len(Append(p.free, s)) = Len(p.free) + 1
      /\ Append(p.free, s)[Len(p.free) + 1] = s
      /\ \A i \in 1 .. Len(p.free) : Append(p.free, s)[i] = p.free[i]
  BY <1>1, <1>2
<1>5. q \in Pools(N)
  BY <1>1, <1>2, <1>3, <1>4 DEF Pools
<1>6. IndexAgrees(q)
  <2> SUFFICES ASSUME NEW t \in Slots(N), NEW m \in Nodes
               PROVE  q.slotOf[m] = t <=> q.node[t] = m
    BY <1>1, <1>3 DEF IndexAgrees
  <2>1. p.slotOf[m] = t <=> p.node[t] = m
    BY <1>1 DEF PoolOK, IndexAgrees
  <2> QED BY <1>1, <1>2, <1>3, <2>1, NoNodeAssumption, NoSlotAssumption DEF Slots
<1>7. FreeListExact(q)
  <2>0. Len(p.free) \in Nat
    BY <1>1
  <2>1. ASSUME NEW t \in Slots(N) PROVE q.node[t] = NoNode <=> FreeListed(q, t)
    <3>1. p.node[t] = NoNode <=> FreeListed(p, t)
      BY <1>1 DEF PoolOK, FreeListExact
    <3>2. FreeListed(q, t) <=> t = s \/ FreeListed(p, t)
      BY <1>3, <1>4, <2>0 DEF FreeListed
    <3> QED BY <1>1, <1>2, <1>3, <3>1, <3>2
  <2>2. \A i \in 1 .. Len(p.free) : p.free[i] /= s
    BY <1>1, <1>2, NoNodeAssumption DEF PoolOK, FreeListExact, FreeListed
  <2>3. \A i, j \in 1 .. Len(p.free) + 1 :
          Append(p.free, s)[i] = Append(p.free, s)[j] => i = j
    BY <1>4, <2>0, <2>2 DEF PoolOK, FreeListExact
  <2>4. /\ DOMAIN q.node = Slots(N) /\ q.free = Append(p.free, s)
        /\ Len(q.free) = Len(p.free) + 1
    BY <1>1, <1>3, <1>4
  <2> HIDE DEF q
  <2> QED BY <2>1, <2>3, <2>4 DEF FreeListExact
<1> QED BY <1>1, <1>2, <1>3, <1>5, <1>6, <1>7 DEF PoolOK, CanEvict

-----------------------------------------------------------------------------
\* The conjuncts of the inductive invariant, spelled out for the pools.
LEMMA InvFacts ==
  ASSUME Inv
  PROVE  /\ gpuPool \in Pools(NumGpuSlots) /\ PoolOK(gpuPool)
         /\ smPool \in Pools(NumSmSlots) /\ PoolOK(smPool)
         /\ gpuPool.slotOf \in [Nodes -> GpuSlots \cup {NoSlot}]
         /\ smPool.slotOf \in [Nodes -> SmSlots \cup {NoSlot}]
         /\ node \in [Nodes -> NodeRecords] /\ use \in [Nodes -> Uses]
         /\ NumGpuSlots \in Nat /\ NumSmSlots \in Nat
         /\ NoSlot \notin GpuSlots /\ NoSlot \notin SmSlots
BY SlotCounts, NoSlotAssumption
DEF Inv, TypeOK, CacheTypeOK, PoolsConsistent, Pools, GpuSlots, SmSlots, Slots

-----------------------------------------------------------------------------
(***************************************************************************)
(* What the helpers of CacheHandle return.                                 *)
(***************************************************************************)
\* The policies' numbers stay natural.
LEMMA MetaTypes ==
  ASSUME NEW N \in Nat, NEW meta \in [Slots(N) -> Nat], now \in Nat,
         NEW s \in Slots(N)
  PROVE  /\ OnMiss(meta, s) \in [Slots(N) -> Nat]
         /\ \A k \in Nat : OnHit(meta, s, k) \in [Slots(N) -> Nat]
         /\ \A p : AfterSelect(p, meta) \in [Slots(N) -> Nat]
<1>1. OnMiss(meta, s) \in [Slots(N) -> Nat]
  BY DEF OnMiss
<1>2. ASSUME NEW k \in Nat PROVE OnHit(meta, s, k) \in [Slots(N) -> Nat]
  BY <1>2, PolicyAssumption DEF OnHit, Policies
<1>3. ASSUME NEW p PROVE AfterSelect(p, meta) \in [Slots(N) -> Nat]
  BY DEF AfterSelect
<1> QED BY <1>1, <1>2, <1>3

\* A demotion or a promotion is a tier again.
LEMMA TierTypes ==
  ASSUME NEW n \in Nodes, node \in [Nodes -> NodeRecords]
  PROVE  Demoted(n) \in Tiers /\ Promoted(n) \in Tiers
BY TierBounds DEF Demoted, Promoted, MinTier, MaxTier, Tiers, NodeRecords

\* SetDevice to disk leaves no pointer behind a node that was on the GPU.
LEMMA OnDiskFacts ==
  ASSUME NEW r \in NodeRecords
  PROVE  /\ OnDisk(r) \in NodeRecords
         /\ OnDisk(r).device = "disk"
         /\ OnDisk(r).sm = r.sm
         /\ OnDisk(r).mem = IF r.device = "disk" THEN r.mem ELSE NoMem
BY DEF OnDisk, NodeRecords

\* SetDevice to CUDA decodes a cold node into ptr; a node that is there keeps
\* its pointer or moves to ptr.
LEMMA OnCudaFacts ==
  ASSUME NEW r \in NodeRecords, NEW ptr \in GpuSlots \cup {NoMem, DockMem}
  PROVE  /\ OnCuda(r, ptr) \in NodeRecords
         /\ OnCuda(r, ptr).device = "cuda"
         /\ OnCuda(r, ptr).sm = r.sm
         /\ r.device = "disk" /\ r.mem = NoMem => OnCuda(r, ptr).mem = ptr
         /\ r.device = "cuda" => OnCuda(r, ptr).mem \in {r.mem, ptr}
BY DEF OnCuda, NodeRecords, Tiers

-----------------------------------------------------------------------------
(***************************************************************************)
(* The invariant, one node at a time.                                      *)
(***************************************************************************)
NodeAgrees(u, r, g, s) ==
  /\ GpuAgrees(u, r, g)
  /\ SmAgrees(u, r, s)
  /\ u \in {"idle", "held", "run"} /\ r.device = "cuda" => r.sm = NoSlot

\* Inv says that every node agrees with its slots.
LEMMA InvNodes ==
  ASSUME Inv
  PROVE  \A n \in Nodes :
           NodeAgrees(use[n], node[n], gpuPool.slotOf[n], smPool.slotOf[n])
BY DEF Inv, GpuSlotsAgree, SmSlotsAgree, NoSmOnGpu, Resident, NodeAgrees

\* The converse after a step, given the conjuncts that are not about one node.
LEMMA NodesInv ==
  ASSUME TypeOK', PoolsConsistent', LockAgrees',
         \A n \in Nodes :
           NodeAgrees(use'[n], node'[n], gpuPool'.slotOf[n], smPool'.slotOf[n])
  PROVE  Inv'
BY DEF Inv, GpuSlotsAgree, SmSlotsAgree, NoSmOnGpu, Resident, NodeAgrees

\* A step that only aborts keeps the invariant.
LEMMA AbortInv ==
  ASSUME Inv, aborted' = TRUE,
         UNCHANGED <<gpuPool, smPool, gpuMeta, smMeta, node, locked, now, use, wanted>>
  PROVE  Inv'
BY DEF Inv, TypeOK, CacheTypeOK, PoolsConsistent, LockAgrees, GpuSlotsAgree,
       SmSlotsAgree, NoSmOnGpu, Resident

-----------------------------------------------------------------------------
\* The initial state: both pools empty, every node cold and idle.
LEMMA InitInv == Init => Inv
<1> SUFFICES ASSUME Init PROVE Inv
  OBVIOUS
<1> USE DEF Init, CacheInit
<1>1. /\ gpuPool \in Pools(NumGpuSlots) /\ PoolOK(gpuPool)
      /\ smPool \in Pools(NumSmSlots) /\ PoolOK(smPool)
  BY EmptyPoolOK, SlotCounts
<1>2. ColdNode \in NodeRecords
  BY DEF ColdNode, NodeRecords, Tiers
<1>3. TypeOK
  BY <1>1, <1>2 DEF TypeOK, CacheTypeOK, Uses
<1>4. \A n \in Nodes : gpuPool.slotOf[n] = NoSlot /\ smPool.slotOf[n] = NoSlot
  BY DEF EmptyPool
<1>5. GpuSlotsAgree
  BY <1>4 DEF GpuSlotsAgree, GpuAgrees, ColdNode
<1>6. SmSlotsAgree
  BY <1>4 DEF SmSlotsAgree, SmAgrees, ColdNode
<1>7. LockAgrees /\ NoSmOnGpu
  BY DEF LockAgrees, NoSmOnGpu, ColdNode
<1> QED BY <1>1, <1>3, <1>5, <1>6, <1>7 DEF Inv, PoolsConsistent

(***************************************************************************)
(* The steps, one lemma per action.                                        *)
(***************************************************************************)
\* Taking a mutex.
LEMMA AcquireInv ==
  ASSUME Inv, NEW n \in Nodes, Acquire(n)
  PROVE  Inv' /\ aborted' = aborted
<1> USE DEF Acquire
<1>1. TypeOK' /\ PoolsConsistent'
  BY DEF Inv, TypeOK, CacheTypeOK, Uses, PoolsConsistent
<1>2. LockAgrees'
  BY InvFacts DEF Inv, LockAgrees
<1>3. ASSUME NEW m \in Nodes
      PROVE  NodeAgrees(use'[m], node'[m], gpuPool'.slotOf[m], smPool'.slotOf[m])
  BY InvFacts, InvNodes DEF NodeAgrees, GpuAgrees, SmAgrees
<1> QED BY <1>1, <1>2, <1>3, NodesInv

\* A hit on a queued prefetch or on a node on the GPU: only a tier and numbers.
LEMMA HitInv ==
  ASSUME Inv, NEW n \in Nodes, NEW k \in 1 .. MaxTokens, HitStep(n, k)
  PROVE  Inv' /\ aborted' = aborted
<1>1. /\ UpdateOnHit(n, k) /\ use' = use
      /\ wanted' = wanted \/ (wanted' = wanted \cup {n} /\ use[n] /= "idle")
  BY DEF HitStep, HitTask, HitResident
<1> USE DEF UpdateOnHit
<1>2. k \in Nat /\ now \in Nat /\ gpuMeta \in [GpuSlots -> Nat] /\ smMeta \in [SmSlots -> Nat]
  BY ExpertCacheBounds DEF Inv, TypeOK, CacheTypeOK
<1>3. gpuMeta' \in [GpuSlots -> Nat] /\ smMeta' \in [SmSlots -> Nat]
  <2>1. Owned(gpuPool, n) => OnHit(gpuMeta, gpuPool.slotOf[n], k) \in [GpuSlots -> Nat]
    BY <1>2, InvFacts, MetaTypes DEF Owned, GpuSlots
  <2>2. Owned(smPool, n) => OnHit(smMeta, smPool.slotOf[n], k) \in [SmSlots -> Nat]
    BY <1>2, InvFacts, MetaTypes DEF Owned, SmSlots
  <2> QED BY <1>1, <1>2, <2>1, <2>2
<1>4. node' \in [Nodes -> NodeRecords]
  BY <1>1, InvFacts, TierTypes DEF NodeRecords
<1>5. LockAgrees'
  BY <1>1 DEF Inv, LockAgrees
<1>6. TypeOK' /\ PoolsConsistent'
  BY <1>1, <1>3, <1>4 DEF Inv, TypeOK, CacheTypeOK, PoolsConsistent, LockAgrees
<1>7. ASSUME NEW m \in Nodes
      PROVE  NodeAgrees(use'[m], node'[m], gpuPool'.slotOf[m], smPool'.slotOf[m])
  <2>1. /\ node'[m].device = node[m].device /\ node'[m].mem = node[m].mem
        /\ node'[m].sm = node[m].sm
    BY <1>1, InvFacts DEF NodeRecords
  <2> QED BY <1>1, <2>1, InvNodes DEF NodeAgrees, GpuAgrees, SmAgrees
<1> QED BY <1>1, <1>5, <1>6, <1>7, NodesInv

\* A caller that sets a tier.
LEMMA SetNodeLutTierInv ==
  ASSUME Inv, NEW n \in Nodes, NEW t \in UserTiers[n], SetNodeLutTier(n, t)
  PROVE  Inv' /\ aborted' = aborted
<1> USE DEF SetNodeLutTier
<1>1. node' \in [Nodes -> NodeRecords]
  BY InvFacts, ExpertCacheBounds DEF NodeRecords
<1>2. TypeOK' /\ PoolsConsistent' /\ LockAgrees'
  BY <1>1 DEF Inv, TypeOK, CacheTypeOK, PoolsConsistent, LockAgrees
<1>3. ASSUME NEW m \in Nodes
      PROVE  NodeAgrees(use'[m], node'[m], gpuPool'.slotOf[m], smPool'.slotOf[m])
  <2>1. /\ node'[m].device = node[m].device /\ node'[m].mem = node[m].mem
        /\ node'[m].sm = node[m].sm
    BY InvFacts DEF NodeRecords
  <2> QED BY <2>1, InvNodes DEF NodeAgrees, GpuAgrees, SmAgrees
<1> QED BY <1>2, <1>3, NodesInv

\* The clock.
LEMMA TickInv ==
  ASSUME Inv, Tick
  PROVE  Inv' /\ aborted' = aborted
BY DEF Tick, Inv, TypeOK, CacheTypeOK, PoolsConsistent, LockAgrees, GpuSlotsAgree,
       SmSlotsAgree, NoSmOnGpu, Resident

-----------------------------------------------------------------------------
\* A victim is not held, so it is idle; one with a GPU slot is on the GPU.
LEMMA VictimFacts ==
  ASSUME Inv, NEW N \in Nat, NEW p \in Pools(N), NEW meta, NEW s \in Victims(p, meta)
  PROVE  /\ s \in Slots(N) /\ p.node[s] \in Nodes
         /\ use[p.node[s]] = "idle"
BY DEF Victims, Evictable, Pools, Inv, LockAgrees

\* RegisterCacheSlotForNode, when it does not abort, changes no SM slot and takes
\* at most the slot of one idle node v, which it sends to disk.
LEMMA StageGpuInv ==
  ASSUME Inv, ~aborted, NEW n \in Nodes, StageGpu(n)
  PROVE  /\ Inv'
         /\ aborted' => Evictable(gpuPool) = {} /\ ~HasFree(gpuPool)
<1>1. /\ use[n] = "held" /\ node[n].device = "disk" /\ node[n].mem = NoMem
      /\ gpuPool.slotOf[n] = NoSlot /\ ~Owned(gpuPool, n)
  BY InvFacts, InvNodes DEF StageGpu, Resident, NodeAgrees, GpuAgrees, Owned, NodeRecords
<1>2. /\ smPool' = smPool /\ smMeta' = smMeta /\ locked' = locked /\ now' = now
      /\ wanted' = wanted /\ wanted \subseteq locked
      /\ use' = IF aborted' THEN use ELSE [use EXCEPT ![n] = "gpu"]
  BY DEF StageGpu, RegisterCacheSlotForNode, Becomes, Inv, TypeOK
<1>3. GpuSlotFree(n) \/ GpuSlotTaken(n) \/ GpuNoVictim
  BY <1>1 DEF StageGpu, RegisterCacheSlotForNode
<1>4. /\ gpuMeta \in [GpuSlots -> Nat] /\ smMeta \in [SmSlots -> Nat]
      /\ now \in Nat /\ aborted \in BOOLEAN
  BY DEF Inv, TypeOK, CacheTypeOK
<1>5. CASE GpuNoVictim
  BY <1>2, <1>5, AbortInv DEF GpuNoVictim
<1>6. ASSUME ~aborted', aborted' \in BOOLEAN, gpuPool' \in Pools(NumGpuSlots), PoolOK(gpuPool'),
             gpuMeta' \in [GpuSlots -> Nat], node' \in [Nodes -> NodeRecords],
             NodeAgrees("gpu", node'[n], gpuPool'.slotOf[n], smPool.slotOf[n]),
             \A m \in Nodes \ {n} :
               NodeAgrees(use[m], node'[m], gpuPool'.slotOf[m], smPool.slotOf[m])
      PROVE  Inv'
  <2>1. use' = [use EXCEPT ![n] = "gpu"]
    BY <1>2, <1>6
  <2>2. TypeOK'
    BY <1>2, <1>4, <1>6, <2>1, InvFacts DEF TypeOK, CacheTypeOK, Uses, Inv
  <2>3. PoolsConsistent' /\ LockAgrees'
    BY <1>1, <1>2, <1>6, <2>1, InvFacts DEF PoolsConsistent, LockAgrees, Inv
  <2>4. ASSUME NEW m \in Nodes
        PROVE  NodeAgrees(use'[m], node'[m], gpuPool'.slotOf[m], smPool'.slotOf[m])
    BY <1>2, <1>6, <2>1, InvFacts
  <2> QED BY <2>2, <2>3, <2>4, NodesInv
<1>7. CASE GpuSlotFree(n)
  <2> DEFINE s == TopFree(gpuPool)
  <2>1. /\ HasFree(gpuPool) /\ gpuPool' = Place(PopFree(gpuPool), n, s)
        /\ gpuMeta' = OnMiss(gpuMeta, s) /\ node' = node /\ aborted' = aborted
    BY <1>7 DEF GpuSlotFree
  <2>2. s \in GpuSlots
    BY <2>1, InvFacts, TopFreeIsFree DEF GpuSlots
  <2>3. /\ gpuPool' \in Pools(NumGpuSlots) /\ PoolOK(gpuPool')
        /\ gpuPool'.slotOf = [gpuPool.slotOf EXCEPT ![n] = s]
    BY <1>1, <2>1, InvFacts, PlaceFree
  <2>4. gpuMeta' \in [GpuSlots -> Nat]
    BY <1>4, <2>1, <2>2, InvFacts, MetaTypes DEF GpuSlots
  <2> HIDE DEF s
  <2>5. NodeAgrees("gpu", node'[n], gpuPool'.slotOf[n], smPool.slotOf[n])
    BY <1>1, <2>1, <2>2, <2>3, InvFacts, InvNodes DEF NodeAgrees, GpuAgrees, SmAgrees
  <2>6. \A m \in Nodes \ {n} :
          NodeAgrees(use[m], node'[m], gpuPool'.slotOf[m], smPool.slotOf[m])
    BY <2>1, <2>3, InvFacts, InvNodes
  <2> QED BY <1>4, <1>6, <2>1, <2>3, <2>4, <2>5, <2>6, InvFacts
<1>8. CASE GpuSlotTaken(n)
  <2>1. ~HasFree(gpuPool) /\ aborted' = aborted
    BY <1>8 DEF GpuSlotTaken
  <2>2. PICK s \in Victims(gpuPool, gpuMeta) :
          LET v == gpuPool.node[s] IN
            /\ node' = [node EXCEPT ![v] = [OnDisk(@) EXCEPT !.tier = Demoted(v)]]
            /\ gpuPool' = Place(Evict(gpuPool, s), n, s)
            /\ gpuMeta' = OnMiss(AfterSelect(gpuPool, gpuMeta), s)
    BY <1>8 DEF GpuSlotTaken
  <2> DEFINE v == gpuPool.node[s]
  <2>3. s \in GpuSlots /\ v \in Nodes /\ use[v] = "idle"
    BY InvFacts, VictimFacts DEF GpuSlots
  <2>4. /\ n /= v /\ gpuPool.slotOf[v] = s
        /\ gpuPool' \in Pools(NumGpuSlots) /\ PoolOK(gpuPool')
        /\ gpuPool'.slotOf[n] = s /\ gpuPool'.slotOf[v] = NoSlot
        /\ \A m \in Nodes \ {n, v} : gpuPool'.slotOf[m] = gpuPool.slotOf[m]
    <3> HIDE DEF v
    <3>1. gpuPool.node[s] = v /\ s \in Slots(NumGpuSlots)
      BY <2>3 DEF v, GpuSlots
    <3>2. gpuPool' = Place(Evict(gpuPool, s), n, s)
      BY <2>2
    <3>3. LET w == gpuPool.node[s]  q == Place(Evict(gpuPool, s), n, s) IN
            /\ n /= w /\ gpuPool.slotOf[w] = s
            /\ q \in Pools(NumGpuSlots) /\ PoolOK(q)
            /\ q.node = [gpuPool.node EXCEPT ![s] = n]
            /\ q.slotOf[n] = s /\ q.slotOf[w] = NoSlot
            /\ \A m \in Nodes \ {n, w} : q.slotOf[m] = gpuPool.slotOf[m]
      <4>1. gpuPool.node[s] \in Nodes
        BY <2>3, <3>1
      <4>2. NumGpuSlots \in Nat /\ gpuPool \in Pools(NumGpuSlots) /\ PoolOK(gpuPool)
        BY InvFacts
      <4> QED BY <1>1, <2>1, <3>1, <4>1, <4>2, PlaceTaken
    <3> QED BY <3>1, <3>2, <3>3
  <2>5. gpuMeta' \in [GpuSlots -> Nat]
    BY <1>4, <2>2, <2>3, InvFacts, MetaTypes DEF GpuSlots
  <2> HIDE DEF v
  <2>6. node' = [node EXCEPT ![v] = [OnDisk(@) EXCEPT !.tier = Demoted(v)]]
    BY <2>2 DEF v
  <2>7. /\ node' \in [Nodes -> NodeRecords] /\ \A m \in Nodes \ {v} : node'[m] = node[m]
        /\ node'[v].device = "disk" /\ node'[v].sm = node[v].sm
        /\ node'[v].mem = OnDisk(node[v]).mem
    BY <2>3, <2>6, InvFacts, TierTypes, OnDiskFacts DEF NodeRecords
  <2>8. NodeAgrees("gpu", node'[n], gpuPool'.slotOf[n], smPool.slotOf[n])
    <3>1. node'[n] = node[n] /\ gpuPool'.slotOf[n] = s /\ s /= NoSlot
      BY <2>3, <2>4, <2>7, InvFacts
    <3> QED BY <1>1, <3>1, InvNodes DEF NodeAgrees, GpuAgrees, SmAgrees
  <2>9. NodeAgrees("idle", node'[v], gpuPool'.slotOf[v], smPool.slotOf[v])
    <3>1. gpuPool'.slotOf[v] = NoSlot /\ node[v].device = "cuda"
      BY <2>3, <2>4, InvFacts, InvNodes DEF NodeAgrees, GpuAgrees
    <3>2. node'[v].mem = NoMem
      BY <2>3, <2>7, <3>1, InvFacts, OnDiskFacts
    <3> QED BY <2>3, <2>7, <3>1, <3>2, InvNodes DEF NodeAgrees, GpuAgrees, SmAgrees
  <2>10. \A m \in Nodes \ {n} :
           NodeAgrees(use[m], node'[m], gpuPool'.slotOf[m], smPool.slotOf[m])
    BY <2>3, <2>4, <2>7, <2>9, InvFacts, InvNodes
  <2> QED BY <1>4, <1>6, <2>1, <2>4, <2>5, <2>7, <2>8, <2>10
<1> QED BY <1>3, <1>5, <1>7, <1>8 DEF GpuNoVictim, GpuSlotFree, GpuSlotTaken

\* RegisterSMCacheForNode, likewise: the victim loses its SM copy and no GPU slot.
LEMMA StageSmInv ==
  ASSUME Inv, ~aborted, NEW n \in Nodes, StageSm(n)
  PROVE  /\ Inv'
         /\ aborted' => Evictable(smPool) = {} /\ ~HasFree(smPool)
<1>1. use[n] = "held" /\ node[n].device = "disk" /\ node[n].mem = NoMem
      /\ gpuPool.slotOf[n] = NoSlot /\ node[n].sm = smPool.slotOf[n]
  BY InvFacts, InvNodes DEF StageSm, Resident, NodeAgrees, GpuAgrees, SmAgrees, NodeRecords
<1>2. /\ gpuPool' = gpuPool /\ gpuMeta' = gpuMeta /\ locked' = locked /\ now' = now
      /\ wanted' = wanted /\ wanted \subseteq locked
      /\ use' = IF aborted' THEN use ELSE [use EXCEPT ![n] = "sm"]
  BY DEF StageSm, RegisterSMCacheForNode, Becomes, Inv, TypeOK
<1>3. /\ gpuMeta \in [GpuSlots -> Nat] /\ smMeta \in [SmSlots -> Nat]
      /\ now \in Nat /\ aborted \in BOOLEAN
  BY DEF Inv, TypeOK, CacheTypeOK
<1>4. ASSUME ~aborted', aborted' \in BOOLEAN, smPool' \in Pools(NumSmSlots), PoolOK(smPool'),
             smMeta' \in [SmSlots -> Nat], node' \in [Nodes -> NodeRecords],
             node'[n] = node[n], smPool'.slotOf[n] \in SmSlots,
             node[n].sm \in {NoSlot, smPool'.slotOf[n]},
             \A m \in Nodes \ {n} :
               NodeAgrees(use[m], node'[m], gpuPool.slotOf[m], smPool'.slotOf[m])
      PROVE  Inv'
  <2>1. use' = [use EXCEPT ![n] = "sm"]
    BY <1>2, <1>4
  <2>2. TypeOK'
    BY <1>2, <1>3, <1>4, <2>1, InvFacts DEF TypeOK, CacheTypeOK, Uses, Inv
  <2>3. PoolsConsistent' /\ LockAgrees'
    BY <1>1, <1>2, <1>4, <2>1, InvFacts DEF PoolsConsistent, LockAgrees, Inv
  <2>4. NodeAgrees("sm", node'[n], gpuPool.slotOf[n], smPool'.slotOf[n])
    BY <1>1, <1>4, InvFacts DEF NodeAgrees, GpuAgrees, SmAgrees
  <2>5. ASSUME NEW m \in Nodes
        PROVE  NodeAgrees(use'[m], node'[m], gpuPool'.slotOf[m], smPool'.slotOf[m])
    BY <1>2, <1>4, <2>1, <2>4, InvFacts
  <2> QED BY <2>2, <2>3, <2>5, NodesInv
<1>5. CASE Owned(smPool, n)
  <2>1. UNCHANGED <<smPool, smMeta, node, aborted>>
    BY <1>5 DEF StageSm, RegisterSMCacheForNode
  <2>2. smPool.slotOf[n] \in SmSlots
    BY <1>5, InvFacts DEF Owned
  <2> QED BY <1>1, <1>3, <1>4, <2>1, <2>2, InvFacts, InvNodes
<1>6. ASSUME ~Owned(smPool, n) PROVE SmSlotFree(n) \/ SmSlotTaken(n) \/ SmNoVictim
  BY <1>6 DEF StageSm, RegisterSMCacheForNode
<1>7. CASE SmNoVictim
  BY <1>2, <1>7, AbortInv DEF SmNoVictim
<1>8. CASE ~Owned(smPool, n) /\ SmSlotFree(n)
  <2> DEFINE s == TopFree(smPool)
  <2>1. /\ HasFree(smPool) /\ smPool' = Place(PopFree(smPool), n, s)
        /\ smMeta' = OnMiss(smMeta, s) /\ node' = node /\ aborted' = aborted
    BY <1>8 DEF SmSlotFree
  <2>2. s \in SmSlots
    BY <2>1, InvFacts, TopFreeIsFree DEF SmSlots
  <2>3. /\ smPool' \in Pools(NumSmSlots) /\ PoolOK(smPool')
        /\ smPool'.slotOf = [smPool.slotOf EXCEPT ![n] = s]
    BY <1>8, <2>1, InvFacts, PlaceFree
  <2>4. smMeta' \in [SmSlots -> Nat]
    BY <1>3, <2>1, <2>2, InvFacts, MetaTypes DEF SmSlots
  <2> HIDE DEF s
  <2>5. smPool'.slotOf[n] = s /\ node[n].sm = NoSlot
    BY <1>1, <1>8, <2>3, InvFacts DEF Owned
  <2>6. \A m \in Nodes \ {n} :
          NodeAgrees(use[m], node'[m], gpuPool.slotOf[m], smPool'.slotOf[m])
    BY <2>1, <2>3, InvFacts, InvNodes
  <2> QED BY <1>3, <1>4, <2>1, <2>2, <2>3, <2>4, <2>5, <2>6, InvFacts
<1>9. CASE ~Owned(smPool, n) /\ SmSlotTaken(n)
  <2>1. ~HasFree(smPool) /\ aborted' = aborted
    BY <1>9 DEF SmSlotTaken
  <2>2. PICK s \in Victims(smPool, smMeta) :
          LET v == smPool.node[s] IN
            /\ node' = [node EXCEPT ![v].sm = NoSlot]
            /\ smPool' = Place(Evict(smPool, s), n, s)
            /\ smMeta' = OnMiss(AfterSelect(smPool, smMeta), s)
    BY <1>9 DEF SmSlotTaken
  <2>3. s \in Slots(NumSmSlots) /\ smPool.node[s] \in Nodes /\ use[smPool.node[s]] = "idle"
    BY InvFacts, VictimFacts
  <2>4. LET v == smPool.node[s]  q == Place(Evict(smPool, s), n, s) IN
          /\ n /= v /\ smPool.slotOf[v] = s
          /\ q \in Pools(NumSmSlots) /\ PoolOK(q)
          /\ q.node = [smPool.node EXCEPT ![s] = n]
          /\ q.slotOf[n] = s /\ q.slotOf[v] = NoSlot
          /\ \A m \in Nodes \ {n, v} : q.slotOf[m] = smPool.slotOf[m]
    <3>1. NumSmSlots \in Nat /\ smPool \in Pools(NumSmSlots) /\ PoolOK(smPool)
      BY InvFacts
    <3> QED BY <1>9, <2>1, <2>3, <3>1, PlaceTaken
  <2>5. smMeta' \in [SmSlots -> Nat]
    BY <1>3, <2>2, <2>3, InvFacts, MetaTypes DEF SmSlots
  <2> DEFINE v == smPool.node[s]
  <2>6. node' = [node EXCEPT ![v].sm = NoSlot] /\ v \in Nodes /\ use[v] = "idle" /\ n /= v
    BY <2>2, <2>3, <2>4
  <2>7. /\ smPool' \in Pools(NumSmSlots) /\ PoolOK(smPool')
        /\ smPool'.slotOf[n] = s /\ smPool'.slotOf[v] = NoSlot
        /\ \A m \in Nodes \ {n, v} : smPool'.slotOf[m] = smPool.slotOf[m]
    BY <2>2, <2>4
  <2>8. node[n].sm = NoSlot /\ s \in SmSlots
    BY <1>1, <1>9, <2>3 DEF Owned, SmSlots
  <2> HIDE DEF v
  <2>9. /\ node' \in [Nodes -> NodeRecords] /\ \A m \in Nodes \ {v} : node'[m] = node[m]
        /\ node'[v].sm = NoSlot /\ node'[v].device = node[v].device
        /\ node'[v].mem = node[v].mem
    BY <2>6, InvFacts DEF NodeRecords
  <2>10. NodeAgrees("idle", node'[v], gpuPool.slotOf[v], smPool'.slotOf[v])
    BY <2>6, <2>7, <2>9, InvNodes DEF NodeAgrees, GpuAgrees, SmAgrees
  <2>11. \A m \in Nodes \ {n} :
           NodeAgrees(use[m], node'[m], gpuPool.slotOf[m], smPool'.slotOf[m])
    BY <2>6, <2>7, <2>9, <2>10, InvFacts, InvNodes
  <2> QED BY <1>3, <1>4, <2>1, <2>5, <2>6, <2>7, <2>8, <2>9, <2>11
<1> QED BY <1>5, <1>6, <1>7, <1>8, <1>9
        DEF SmNoVictim, SmSlotFree, SmSlotTaken, StageSm, RegisterSMCacheForNode

\* Taking a dock changes nothing here but what the node is used for.
LEMMA StageDockInv ==
  ASSUME Inv, ~aborted, NEW n \in Nodes, StageDock(n)
  PROVE  Inv' /\ aborted' = aborted
<1>1. /\ UNCHANGED <<cacheVars, wanted>>
      /\ use[n] = "held" /\ node[n].device /= "cuda"
      /\ use' = [use EXCEPT ![n] = "dock"]
  BY DEF StageDock, Becomes, cacheVars, Resident
<1> USE DEF cacheVars
<1>2. TypeOK' /\ PoolsConsistent'
  BY <1>1 DEF Inv, TypeOK, CacheTypeOK, Uses, PoolsConsistent
<1>3. LockAgrees'
  BY <1>1, InvFacts DEF Inv, LockAgrees
<1>4. ASSUME NEW m \in Nodes
      PROVE  NodeAgrees(use'[m], node'[m], gpuPool'.slotOf[m], smPool'.slotOf[m])
  BY <1>1, InvFacts, InvNodes DEF NodeAgrees, GpuAgrees, SmAgrees, NodeRecords
<1> QED BY <1>1, <1>2, <1>3, <1>4, NodesInv

-----------------------------------------------------------------------------
\* A step of the holder of n's mutex that writes no other node and no other
\* node's slots, and keeps the mutex or gives it back.
LEMMA HolderInv ==
  ASSUME Inv, NEW n \in Nodes, NEW u \in Uses, use[n] /= "idle",
         aborted' = aborted, use' = [use EXCEPT ![n] = u],
         locked' = (IF u = "idle" THEN locked \ {n} ELSE locked),
         wanted' = (IF u = "idle" THEN wanted \ {n} ELSE wanted),
         UNCHANGED <<gpuMeta, smMeta, now>>,
         gpuPool' \in Pools(NumGpuSlots), PoolOK(gpuPool'),
         smPool' \in Pools(NumSmSlots), PoolOK(smPool'),
         NEW r \in NodeRecords, node' = [node EXCEPT ![n] = r],
         \A m \in Nodes \ {n} : /\ gpuPool'.slotOf[m] = gpuPool.slotOf[m]
                                /\ smPool'.slotOf[m] = smPool.slotOf[m],
         NodeAgrees(u, r, gpuPool'.slotOf[n], smPool'.slotOf[n])
  PROVE  Inv'
<1>1. TypeOK' /\ PoolsConsistent'
  BY InvFacts DEF Inv, TypeOK, CacheTypeOK, PoolsConsistent
<1>2. LockAgrees'
  BY InvFacts DEF Inv, LockAgrees
<1>3. ASSUME NEW m \in Nodes
      PROVE  NodeAgrees(use'[m], node'[m], gpuPool'.slotOf[m], smPool'.slotOf[m])
  BY InvFacts, InvNodes
<1> QED BY <1>1, <1>2, <1>3, NodesInv

\* The fetch thread never meets evict(SIZE_MAX) if the node points to its SM slot,
\* and a NORMAL or PREFETCH task leaves the node without an SM copy.
LEMMA FetchFacts ==
  ASSUME Inv, NEW n \in Nodes, NEW state, NEW ptr \in GpuSlots \cup {NoMem, DockMem},
         FetchDevice(n, state, ptr),
         state \in {"NORMAL", "PREFETCH", "SMCACHE", "EVICT"},
         state \in {"NORMAL", "PREFETCH"} => node[n].sm = smPool.slotOf[n]
  PROVE  \E r \in NodeRecords :
           /\ aborted' = aborted /\ node' = [node EXCEPT ![n] = r]
           /\ r.device = "cuda" /\ r.mem = OnCuda(node[n], ptr).mem
           /\ smPool' \in Pools(NumSmSlots) /\ PoolOK(smPool')
           /\ \A m \in Nodes \ {n} : smPool'.slotOf[m] = smPool.slotOf[m]
           /\ state \in {"NORMAL", "PREFETCH"} => r.sm = NoSlot /\ smPool'.slotOf[n] = NoSlot
           /\ state = "SMCACHE" => r.sm = smPool.slotOf[n] /\ smPool' = smPool
           /\ state = "EVICT" => r.sm = node[n].sm /\ smPool' = smPool
<1> DEFINE r == OnCuda(node[n], ptr)
<1>1. node[n] \in NodeRecords /\ smPool.slotOf[n] \in SmSlots \cup {NoSlot}
  BY InvFacts
<1>2. r \in NodeRecords /\ r.device = "cuda" /\ r.sm = node[n].sm
  BY <1>1, OnCudaFacts
<1> HIDE DEF r
<1>3. CASE /\ state = "EVICT" \/ (state /= "SMCACHE" /\ r.sm = NoSlot)
           /\ node' = [node EXCEPT ![n] = r]
           /\ UNCHANGED <<smPool, aborted>>
  <2> QED BY <1>2, <1>3, InvFacts DEF r
<1>4. CASE /\ state = "SMCACHE"
           /\ node' = [node EXCEPT ![n] = [r EXCEPT !.sm = smPool.slotOf[n]]]
           /\ UNCHANGED <<smPool, aborted>>
  <2> DEFINE q == [r EXCEPT !.sm = smPool.slotOf[n]]
  <2>1. q \in NodeRecords /\ q.device = "cuda" /\ q.mem = r.mem /\ q.sm = smPool.slotOf[n]
    BY <1>1, <1>2 DEF NodeRecords
  <2>2. node' = [node EXCEPT ![n] = q]
    BY <1>4
  <2> HIDE DEF q
  <2> QED BY <1>4, <2>1, <2>2, InvFacts DEF r
<1>5. CASE /\ state \in {"NORMAL", "PREFETCH"} /\ r.sm /= NoSlot
           /\ IF CanEvict(smPool, smPool.slotOf[n])
              THEN /\ node' = [node EXCEPT ![n] = [r EXCEPT !.sm = NoSlot]]
                   /\ smPool' = Unregistered(smPool, n)
                   /\ UNCHANGED aborted
              ELSE /\ aborted' = TRUE
                   /\ UNCHANGED <<node, smPool>>
  <2> DEFINE q == [r EXCEPT !.sm = NoSlot]
  <2>1. q \in NodeRecords /\ q.device = "cuda" /\ q.mem = r.mem /\ q.sm = NoSlot
    BY <1>2 DEF NodeRecords
  <2>2. Owned(smPool, n)
    BY <1>2, <1>5 DEF Owned
  <2>3. LET s == smPool.slotOf[n]  e == Evict(smPool, s) IN
          /\ CanEvict(smPool, s) /\ smPool.node[s] = n
          /\ e \in Pools(NumSmSlots) /\ PoolOK(e)
          /\ e.node = [smPool.node EXCEPT ![s] = NoNode]
          /\ e.slotOf = [smPool.slotOf EXCEPT ![n] = NoSlot]
    BY <2>2, InvFacts, EvictOwned
  <2>4. /\ node' = [node EXCEPT ![n] = q] /\ aborted' = aborted
        /\ smPool' \in Pools(NumSmSlots) /\ PoolOK(smPool')
        /\ smPool'.slotOf = [smPool.slotOf EXCEPT ![n] = NoSlot]
    BY <1>5, <2>3 DEF Unregistered
  <2>5. /\ smPool'.slotOf[n] = NoSlot
        /\ \A m \in Nodes \ {n} : smPool'.slotOf[m] = smPool.slotOf[m]
    BY <2>4, InvFacts
  <2> HIDE DEF q
  <2> QED BY <1>5, <2>1, <2>4, <2>5 DEF r
<1> QED BY <1>3, <1>4, <1>5 DEF FetchDevice, DropsSm, r

\* The pointer of a fetchable task is the node's slot, or none for a node that is
\* on the GPU already; either way the node ends on the GPU without an SM copy.
LEMMA FetchableFacts ==
  ASSUME Inv, NEW n \in Nodes, Fetchable(n), NEW state \in {"NORMAL", "PREFETCH"},
         FetchDevice(n, state, TaskPtr(n)), NEW u \in {"idle", "run"}
  PROVE  \E r \in NodeRecords :
           /\ aborted' = aborted /\ node' = [node EXCEPT ![n] = r]
           /\ smPool' \in Pools(NumSmSlots) /\ PoolOK(smPool')
           /\ \A m \in Nodes \ {n} : smPool'.slotOf[m] = smPool.slotOf[m]
           /\ NodeAgrees(u, r, gpuPool.slotOf[n], smPool'.slotOf[n])
<1>1. /\ NodeAgrees(use[n], node[n], gpuPool.slotOf[n], smPool.slotOf[n])
      /\ gpuPool.slotOf[n] \in GpuSlots \cup {NoSlot} /\ node[n] \in NodeRecords
  BY InvFacts, InvNodes
<1>2. node[n].sm = smPool.slotOf[n]
  BY <1>1 DEF Fetchable, NodeAgrees, SmAgrees
<1>3. TaskPtr(n) \in GpuSlots \cup {NoMem, DockMem}
  BY <1>1 DEF Fetchable, TaskPtr, NodeAgrees, GpuAgrees
<1>4. PICK r \in NodeRecords :
        /\ aborted' = aborted /\ node' = [node EXCEPT ![n] = r]
        /\ r.device = "cuda" /\ r.mem = OnCuda(node[n], TaskPtr(n)).mem
        /\ smPool' \in Pools(NumSmSlots) /\ PoolOK(smPool')
        /\ \A m \in Nodes \ {n} : smPool'.slotOf[m] = smPool.slotOf[m]
        /\ r.sm = NoSlot /\ smPool'.slotOf[n] = NoSlot
  BY <1>2, <1>3, FetchFacts
<1>5. gpuPool.slotOf[n] /= NoSlot /\ r.mem \in {NoMem, gpuPool.slotOf[n]}
  <2>1. CASE use[n] = "gpu"
    BY <1>1, <1>3, <1>4, <2>1, OnCudaFacts DEF TaskPtr, NodeAgrees, GpuAgrees
  <2>2. CASE use[n] = "held" /\ Resident(n)
    <3>1. TaskPtr(n) = NoMem /\ node[n].device = "cuda"
      BY <2>2 DEF TaskPtr, Resident
    <3>2. r.mem \in {node[n].mem, NoMem}
      BY <1>1, <1>3, <1>4, <3>1, OnCudaFacts
    <3> QED BY <1>1, <2>2, <3>1, <3>2 DEF NodeAgrees, GpuAgrees
  <2> QED BY <2>1, <2>2 DEF Fetchable
<1>6. NodeAgrees(u, r, gpuPool.slotOf[n], smPool'.slotOf[n])
  BY <1>4, <1>5 DEF NodeAgrees, GpuAgrees, SmAgrees
<1> QED BY <1>4, <1>6

\* A demanded expert reaches the exec thread.
LEMMA FetchToRunInv ==
  ASSUME Inv, ~aborted, NEW n \in Nodes, FetchToRun(n)
  PROVE  Inv' /\ aborted' = aborted
<1>1. PICK r \in NodeRecords :
        /\ aborted' = aborted /\ node' = [node EXCEPT ![n] = r]
        /\ smPool' \in Pools(NumSmSlots) /\ PoolOK(smPool')
        /\ \A m \in Nodes \ {n} : smPool'.slotOf[m] = smPool.slotOf[m]
        /\ NodeAgrees("run", r, gpuPool.slotOf[n], smPool'.slotOf[n])
  BY FetchableFacts DEF FetchToRun
<1>2. /\ use[n] /= "idle" /\ use' = [use EXCEPT ![n] = "run"]
      /\ locked' = locked /\ wanted' = wanted
      /\ UNCHANGED <<gpuPool, gpuMeta, smMeta, now>>
  BY <1>1 DEF FetchToRun, Fetchable, Becomes
<1>3. "run" \in Uses
  BY DEF Uses
<1> QED BY <1>1, <1>2, <1>3, InvFacts, HolderInv

\* A prefetched expert is on the GPU and its mutex free.
LEMMA FetchPrefetchedInv ==
  ASSUME Inv, ~aborted, NEW n \in Nodes, FetchPrefetched(n)
  PROVE  Inv' /\ aborted' = aborted
<1>1. PICK r \in NodeRecords :
        /\ aborted' = aborted /\ node' = [node EXCEPT ![n] = r]
        /\ smPool' \in Pools(NumSmSlots) /\ PoolOK(smPool')
        /\ \A m \in Nodes \ {n} : smPool'.slotOf[m] = smPool.slotOf[m]
        /\ NodeAgrees("idle", r, gpuPool.slotOf[n], smPool'.slotOf[n])
  BY FetchableFacts DEF FetchPrefetched
<1>2. /\ use[n] /= "idle" /\ use' = [use EXCEPT ![n] = "idle"]
      /\ locked' = locked \ {n} /\ wanted' = wanted \ {n}
      /\ UNCHANGED <<gpuPool, gpuMeta, smMeta, now>>
  BY <1>1 DEF FetchPrefetched, Fetchable, Unlock, Becomes
<1>3. "idle" \in Uses
  BY DEF Uses
<1> QED BY <1>1, <1>2, <1>3, InvFacts, HolderInv

\* An SMCACHE task: the node points to its SM slot and to its dock.
LEMMA FetchSmInv ==
  ASSUME Inv, ~aborted, NEW n \in Nodes, FetchSm(n)
  PROVE  Inv' /\ aborted' = aborted
<1>1. /\ NodeAgrees("sm", node[n], gpuPool.slotOf[n], smPool.slotOf[n])
      /\ use[n] = "sm" /\ node[n] \in NodeRecords
  BY InvFacts, InvNodes DEF FetchSm
<1>2. PICK r \in NodeRecords :
        /\ aborted' = aborted /\ node' = [node EXCEPT ![n] = r]
        /\ r.device = "cuda" /\ r.mem = OnCuda(node[n], DockMem).mem
        /\ smPool' \in Pools(NumSmSlots) /\ PoolOK(smPool')
        /\ \A m \in Nodes \ {n} : smPool'.slotOf[m] = smPool.slotOf[m]
        /\ r.sm = smPool.slotOf[n] /\ smPool' = smPool
  BY FetchFacts DEF FetchSm
<1>3. r.mem = DockMem
  BY <1>1, <1>2, OnCudaFacts DEF NodeAgrees, GpuAgrees
<1>4. NodeAgrees("runSm", r, gpuPool.slotOf[n], smPool'.slotOf[n])
  BY <1>1, <1>2, <1>3 DEF NodeAgrees, GpuAgrees, SmAgrees
<1>5. /\ use' = [use EXCEPT ![n] = "runSm"] /\ locked' = locked /\ wanted' = wanted
      /\ UNCHANGED <<gpuPool, gpuMeta, smMeta, now>>
  BY <1>2 DEF FetchSm, Becomes
<1>6. "runSm" \in Uses
  BY DEF Uses
<1> QED BY <1>1, <1>2, <1>4, <1>5, <1>6, InvFacts, HolderInv

\* An EVICT task: the node points to its dock, and keeps its SM slot if it has one.
LEMMA FetchDockInv ==
  ASSUME Inv, ~aborted, NEW n \in Nodes, FetchDock(n)
  PROVE  Inv' /\ aborted' = aborted
<1>1. /\ NodeAgrees("dock", node[n], gpuPool.slotOf[n], smPool.slotOf[n])
      /\ use[n] = "dock" /\ node[n] \in NodeRecords
  BY InvFacts, InvNodes DEF FetchDock
<1>2. PICK r \in NodeRecords :
        /\ aborted' = aborted /\ node' = [node EXCEPT ![n] = r]
        /\ r.device = "cuda" /\ r.mem = OnCuda(node[n], DockMem).mem
        /\ smPool' \in Pools(NumSmSlots) /\ PoolOK(smPool')
        /\ \A m \in Nodes \ {n} : smPool'.slotOf[m] = smPool.slotOf[m]
        /\ r.sm = node[n].sm /\ smPool' = smPool
  BY FetchFacts DEF FetchDock
<1>3. r.mem = DockMem
  BY <1>1, <1>2, OnCudaFacts DEF NodeAgrees, GpuAgrees
<1>4. NodeAgrees("runDock", r, gpuPool.slotOf[n], smPool'.slotOf[n])
  BY <1>1, <1>2, <1>3 DEF NodeAgrees, GpuAgrees, SmAgrees
<1>5. /\ use' = [use EXCEPT ![n] = "runDock"] /\ locked' = locked /\ wanted' = wanted
      /\ UNCHANGED <<gpuPool, gpuMeta, smMeta, now>>
  BY <1>2 DEF FetchDock, Becomes
<1>6. "runDock" \in Uses
  BY DEF Uses
<1> QED BY <1>1, <1>2, <1>4, <1>5, <1>6, InvFacts, HolderInv

-----------------------------------------------------------------------------
\* The exec thread is done with a NORMAL task: the node stays on the GPU.
LEMMA FinishRunInv ==
  ASSUME Inv, ~aborted, NEW n \in Nodes, FinishRun(n)
  PROVE  Inv' /\ aborted' = aborted
<1>1. /\ use[n] = "run" /\ node' = [node EXCEPT ![n] = node[n]] /\ aborted' = aborted
      /\ UNCHANGED <<gpuPool, smPool, gpuMeta, smMeta, now>>
  BY InvFacts DEF FinishRun, Finish, FinishDevice
<1>2. use' = [use EXCEPT ![n] = "idle"] /\ locked' = locked \ {n} /\ wanted' = wanted \ {n}
  BY <1>1 DEF FinishRun, Finish, Unlock, Becomes
<1>3. NodeAgrees("idle", node[n], gpuPool.slotOf[n], smPool.slotOf[n])
  BY <1>1, InvNodes DEF NodeAgrees, GpuAgrees, SmAgrees
<1>4. "idle" \in Uses /\ node[n] \in NodeRecords
  BY InvFacts DEF Uses
<1> QED BY <1>1, <1>2, <1>3, <1>4, InvFacts, HolderInv

\* With an SMCACHE task: the node goes back to disk and keeps its SM slot.
LEMMA FinishSmInv ==
  ASSUME Inv, ~aborted, NEW n \in Nodes, FinishSm(n)
  PROVE  Inv' /\ aborted' = aborted
<1>1. /\ use[n] = "runSm" /\ node' = [node EXCEPT ![n] = OnDisk(node[n])]
      /\ aborted' = aborted /\ UNCHANGED <<gpuPool, smPool, gpuMeta, smMeta, now>>
  BY DEF FinishSm, Finish, FinishDevice
<1>2. use' = [use EXCEPT ![n] = "idle"] /\ locked' = locked \ {n} /\ wanted' = wanted \ {n}
  BY <1>1 DEF FinishSm, Finish, Unlock, Becomes
<1>3. NodeAgrees("idle", OnDisk(node[n]), gpuPool.slotOf[n], smPool.slotOf[n])
  BY <1>1, InvFacts, InvNodes, OnDiskFacts DEF NodeAgrees, GpuAgrees, SmAgrees
<1>4. "idle" \in Uses /\ OnDisk(node[n]) \in NodeRecords
  BY InvFacts, OnDiskFacts DEF Uses
<1> QED BY <1>1, <1>2, <1>3, <1>4, InvFacts, HolderInv

\* With an EVICT task: evict(SIZE_MAX), always, since the node has no GPU slot.
LEMMA FinishDockInv ==
  ASSUME Inv, ~aborted, NEW n \in Nodes, FinishDock(n)
  PROVE  Inv' /\ aborted' /\ use[n] = "runDock"
<1>1. use[n] = "runDock" /\ FinishDevice(n, "EVICT") /\ Unlock(n)
      /\ UNCHANGED <<gpuMeta, smMeta, now>>
  BY DEF FinishDock, Finish
<1>2. gpuPool.slotOf[n] \notin DOMAIN gpuPool.node
  BY <1>1, InvFacts, InvNodes DEF NodeAgrees, GpuAgrees, Pools, GpuSlots
<1>3. aborted' = TRUE /\ UNCHANGED <<gpuPool, smPool, node>>
  BY <1>1, <1>2 DEF FinishDevice, CanEvict
<1>4. UNCHANGED <<use, locked, wanted>>
  BY <1>1, <1>3 DEF Unlock, Becomes
<1> QED BY <1>1, <1>3, <1>4, AbortInv

\* The scheduler cancels a prefetch: its slot goes back to the pool.
LEMMA CancelInv ==
  ASSUME Inv, ~aborted, NEW n \in Nodes, Cancel(n)
  PROVE  Inv' /\ aborted' = aborted
<1>1. /\ use[n] = "gpu" /\ node[n] \in NodeRecords
      /\ NodeAgrees("gpu", node[n], gpuPool.slotOf[n], smPool.slotOf[n])
      /\ UNCHANGED <<smPool, gpuMeta, smMeta, now>>
  BY InvFacts, InvNodes DEF Cancel
<1>2. Owned(gpuPool, n)
  BY <1>1 DEF Owned, NodeAgrees, GpuAgrees
<1>3. LET s == gpuPool.slotOf[n]  e == Evict(gpuPool, s) IN
        /\ CanEvict(gpuPool, s) /\ gpuPool.node[s] = n
        /\ e \in Pools(NumGpuSlots) /\ PoolOK(e)
        /\ e.node = [gpuPool.node EXCEPT ![s] = NoNode]
        /\ e.slotOf = [gpuPool.slotOf EXCEPT ![n] = NoSlot]
  BY <1>2, InvFacts, EvictOwned
<1>4. /\ node' = [node EXCEPT ![n] = OnDisk(node[n])] /\ aborted' = aborted
      /\ gpuPool' = Unregistered(gpuPool, n)
  BY <1>3 DEF Cancel, UnregisterCacheSlotForNode
<1>5. /\ gpuPool' \in Pools(NumGpuSlots) /\ PoolOK(gpuPool')
      /\ gpuPool'.slotOf[n] = NoSlot
      /\ \A m \in Nodes \ {n} : gpuPool'.slotOf[m] = gpuPool.slotOf[m]
  BY <1>3, <1>4, InvFacts DEF Unregistered
<1>6. use' = [use EXCEPT ![n] = "idle"] /\ locked' = locked \ {n} /\ wanted' = wanted \ {n}
  BY <1>4 DEF Cancel, Unlock, Becomes
<1>7. NodeAgrees("idle", OnDisk(node[n]), gpuPool'.slotOf[n], smPool.slotOf[n])
  BY <1>1, <1>5, OnDiskFacts DEF NodeAgrees, GpuAgrees, SmAgrees
<1>8. "idle" \in Uses /\ OnDisk(node[n]) \in NodeRecords
  BY <1>1, OnDiskFacts DEF Uses
<1> QED BY <1>1, <1>4, <1>5, <1>6, <1>7, <1>8, InvFacts, HolderInv

-----------------------------------------------------------------------------
AbortAllowed ==
  \/ Evictable(gpuPool) = {} /\ ~HasFree(gpuPool)
  \/ Evictable(smPool) = {} /\ ~HasFree(smPool)
  \/ \E n \in Nodes : use[n] = "runDock"

\* Every step keeps the invariant, and aborts only where it may.
LEMMA NextInv ==
  ASSUME Inv, Next
  PROVE  Inv' /\ (aborted' /\ ~aborted => AbortAllowed)
<1>1. ~aborted
  BY DEF Next
<1>2. CASE Tick
  BY <1>1, <1>2, TickInv
<1>3. ASSUME NEW n \in Nodes, NEW k \in 1 .. MaxTokens, HitStep(n, k)
      PROVE  Inv' /\ aborted' = aborted
  BY <1>3, HitInv
<1>4. ASSUME NEW n \in Nodes, TaskStep(n)
      PROVE  Inv' /\ (aborted' /\ ~aborted => AbortAllowed)
  <2>1. CASE Acquire(n)
    BY <1>1, <2>1, AcquireInv
  <2>2. CASE StageGpu(n)
    BY <1>1, <2>2, StageGpuInv DEF AbortAllowed
  <2>3. CASE StageSm(n)
    BY <1>1, <2>3, StageSmInv DEF AbortAllowed
  <2>4. CASE StageDock(n)
    BY <1>1, <2>4, StageDockInv
  <2>5. CASE FetchToRun(n)
    BY <1>1, <2>5, FetchToRunInv
  <2>6. CASE FetchPrefetched(n)
    BY <1>1, <2>6, FetchPrefetchedInv
  <2>7. CASE FetchSm(n)
    BY <1>1, <2>7, FetchSmInv
  <2>8. CASE FetchDock(n)
    BY <1>1, <2>8, FetchDockInv
  <2>9. CASE FinishRun(n)
    BY <1>1, <2>9, FinishRunInv
  <2>10. CASE FinishSm(n)
    BY <1>1, <2>10, FinishSmInv
  <2>11. CASE FinishDock(n)
    BY <1>1, <2>11, FinishDockInv DEF AbortAllowed
  <2>12. CASE Cancel(n)
    BY <1>1, <2>12, CancelInv
  <2>13. CASE \E t \in UserTiers[n] : SetNodeLutTier(n, t)
    BY <1>1, <2>13, SetNodeLutTierInv
  <2> QED BY <1>4, <2>1, <2>2, <2>3, <2>4, <2>5, <2>6, <2>7, <2>8, <2>9, <2>10,
             <2>11, <2>12, <2>13 DEF TaskStep
<1> QED BY <1>1, <1>2, <1>3, <1>4 DEF Next

\* A stuttering step changes nothing the invariant reads.
LEMMA StutterInv == Inv /\ UNCHANGED vars => Inv'
BY DEF vars, cacheVars, Inv, TypeOK, CacheTypeOK, PoolsConsistent, LockAgrees,
       GpuSlotsAgree, SmSlotsAgree, NoSmOnGpu, Resident

\* The invariant holds in every reachable state.
THEOREM Invariance == Spec => []Inv
<1>1. Inv /\ [Next]_vars => Inv'
  BY NextInv, StutterInv
<1> QED BY InitInv, <1>1, PTL DEF Spec

\* Every variable has its type (the state of cache.hpp, memory_manager.hpp).
THEOREM Typed == Spec => []TypeOK
BY Invariance, PTL DEF Inv

\* The slot table, the node index and the free list of each pool agree, in any
\* number of slots and under any policy (memory_manager.cpp:60-94).
THEOREM PoolsStayConsistent == Spec => []PoolsConsistent
BY Invariance, PTL DEF Inv

\* A GPU slot is owned exactly by a node whose weights are in it or on their way,
\* and no pointer into the pool outlives its slot (cache.cpp:313-381).
THEOREM GpuSlotsStayRight == Spec => []GpuSlotsAgree
BY Invariance, PTL DEF Inv

\* device_sm_ptr is the SM slot the pool gave the node (cache.cpp:395-450).
THEOREM SmSlotsStayRight == Spec => []SmSlotsAgree
BY Invariance, PTL DEF Inv

\* The assertion of EnqueueExpert holds (expert_dispatcher.cpp:208).
THEOREM NoSmCopyOnGpu == Spec => []NoSmOnGpu
BY Invariance, PTL DEF Inv

\* The process aborts only in a pool full of nodes in flight or after an EVICT
\* task ran: cancellations and fetches never meet evict(SIZE_MAX).
THEOREM AbortsOnlyThere == Spec => AbortsOnly
<1>1. Inv /\ [Next]_vars => [aborted' /\ ~aborted => AbortAllowed]_vars
  BY NextInv
<1> QED BY Invariance, <1>1, PTL DEF Spec, AbortsOnly, AbortAllowed
=============================================================================
