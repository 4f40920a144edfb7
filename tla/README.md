# Formal model of the block-LUT expert offloading engine

This directory models the part of `block_lut` that moves mixture-of-experts
weights between a compressed file, pinned memory and GPU memory while experts
are being executed. It holds TLA+ modules, TLC configurations and TLAPS proofs.
`PROJECT.json` lists the components, runs, mutants, hazards and theorems, and
maps each definition to the lines of source it stands for. Paths below are
relative to `src/`.

## 1. The system

### What runs

`dispatch_local` (`experts/expert_executor.py`) is called once for each sparse
layer, on the main thread. It announces how many results to expect, enqueues
the experts the router chose, runs the scheduler, waits for all results, and
prefetches the experts predicted for the next layer.

    main ──new queue──► ToWorkers ──ops──► compute pool, I/O thread
                                               │ last op of a task
    main ◄─outputs, pending_─ exec ◄─exec queue─ fetch ◄─ready queue

A *task* stands for one expert *node* on its way through this. While a task
exists its node's mutex is held: the main thread locks it, and another thread
(fetch for a prefetch, exec for a demanded expert), or the main thread's own
scheduler (a cancelled prefetch), unlocks it. The mutex is also what protects a
cache slot: an eviction policy probes it with `try_lock` and skips slots whose
node is in use.

### Inventory

| Component (source) | State | Operations | Hard behaviour | What makes it correct | Here |
|---|---|---|---|---|---|
| Slot pools (`csrc/memory/memory_manager`) | slot table, node index, LIFO free list | `place`, `evict`, `pop_free_slot` | three views updated by separate calls; `evict(SIZE_MAX)` aborts | index and table are inverse; the free list is exactly the empty slots | `MemoryPool` |
| Cache handle and policies (`csrc/memory/cache`) | a GPU and a pinned ("SM") pool, a number per slot | register, unregister, hit, promote, demote, `ProactiveDecision`; five policies | victim selection while other threads hold and release mutexes; no victim is FATAL | an expert in use keeps its slot; victims are the ones the policy names | `CacheHandle`, `EvictionOrder`, `SlotAllocator` |
| Node and topology (`csrc/topology`) | device, pointers, LUT tier, tier of the last decode, visit count | `SetDevice`, `SetSM` | a tier may be set at any time without the mutex | pointers agree with the pools | `CacheHandle`, `ExpertCache` |
| Memory docks (`csrc/kernels/memory_docks`) | node to dock map, LIFO free list | register, unregister | throws when the list is empty | docks not shared; given back | `ExpertPipeline` |
| Tensor engine (`csrc/tensor_engine`) | new, scheduled, ready queues; operation counts; preempt tokens | `ToWorkers`, operations, `task_ready_notify`, `LUT_MoESchedulerFunc`, cancellation | the last operation races cancellation; a cancelled operation may be running | each task is ready exactly when its operations are done | `ExpertPipeline` |
| Thread pool, all threads' life (`csrc/tensor_engine/thread_pool`, destructors) | operation queue, stop flags, buffers | submit, worker loop, destructors | flags set without the mutex, sleepers nobody wakes, buffers freed before the drain | each operation runs; the destructors return | `EngineThreads` |
| Dispatcher (`csrc/dispatcher`) | exec queue, output queue, `pending_` | enqueue, prefetch, fetch thread, exec thread, `Wait` | check-then-act over several queues; condition variables | one result per expert asked for; `Wait` returns | `ExpertPipeline` |
| Executor, predictor (`experts/`) | transition counts | `dispatch_local`, `predict_next_layer` | prefetches outlive their layer | call order | `ExpertPipeline`, `ExpertRouting`; counts abstracted |
| Prefetch handle, bindings (`csrc/prefetch/lut_moe_prefetch_handle`, `csrc/binding`) | owns the others | tier setters, `AcquireTensor`, `ReleaseTensor` | no lock; pointers that move | a tier change decodes again; mutexes balance | `ExpertCache`, `DenseHooks` |
| Legacy task pool (`csrc/prefetch/task_scheduler`) | per-node requests | `StartExec`, `StopExec`, GPU thread | lock held across calls, hand-over between threads | held exactly while tensors are acquired | `DenseHooks`, `EngineThreads` |
| Model hooks (`runtime/model_offload.py`) | the set of offloaded pointers | pre and post forward hooks, `from_pretrained` | two pointer tables, exceptions in a forward | a module runs on its weights | `DenseHooks`, `OffloadStore` |
| Tensor store (`csrc/base/lut_moe_tensor_*`) | data file, index, name map | store, serialise, load | crash between any two writes | the index names only stored data | `OffloadStore` |
| Packing and recovery (`csrc/kernels/tensor_recover`, `csrc/tensor_engine/compressors`) | read buffers | split into sections, partial read, unpack, look up | in-place unpacking; tiers with different sizes | unpacking inverts packing | `BitPlanes` |
| Cache planning (`runtime/cache_planning.py`) | counts, target, costs | `PlanCache` | boundary cases, index gaps | costs average over one distribution; plans fit | `CachePlanning` |
| MoE blocks (`customized/`, DeepSeek's gate and `moe_infer`) | the layer's output | gate, dispatch, sum | results in any order | output is the replaced block's | `ExpertRouting` |
| llama.cpp cache (`llama-cpp-port/`) | slots, tiers, a pinned buffer, two streams | get, load, prefetch, evict | loads on two streams share one buffer | a product finds its expert's bytes | `LlamaCache` |
| vLLM progressive cache (`vllm_lut/progressive_cache.py`) | entries, decoded weights, counters | access, tiers, store, evict | counters outlive the weights | evicts the least recently used | `ProgressiveCache` |
| vLLM method and patch (`vllm_lut/quant_method.py`, `patcher.py`) | per-layer parameters, a list kept in the class; wrapped classes | load, apply; patch, swap, restore | `id()` as a cache key; swaps in place | own parameters, all experts, everything put back | `VllmMethod`, `VllmPatch` |
| Evaluation, kernels, conversion, benchmarks | – | – | single-threaded numerics | – | not modelled |

`PROJECT.json` "components" says of each what is left out, section 6 why.

## 2. The modules

| Module | Role |
|---|---|
| `MemoryPool` | one slot pool as operators on a record; `PoolOK` says when its views agree |
| `CacheHandle` | the state of the cache and the nodes, one operator or action per operation of `LUT_MoECacheHandle`, `Node::SetDevice` / `SetSM`, and what fetch and exec do to a node |
| `SlotAllocator` | abstract: what a slot cache promises to those who load and run experts |
| `ExpertCache` | a specification: the life of each node between lock and unlock, over `CacheHandle` |
| `EvictionOrder` | `ExpertCache` and a history variable with the score each policy claims to rank by |
| `ExpertPipeline` | a specification: queues, workers, docks, main / fetch / exec threads, over the same `CacheHandle` |
| `EngineThreads` | start, sleep, wake and end of every thread: worker pool, fetch / exec / output, task pool, and the destructors |
| `DenseHooks` | the forward hooks, `AcquireTensor` / `ReleaseTensor` and the task pool's node locks |
| `OffloadStore` | offload directory: data file, index, name map, with a crash between any two steps |
| `BitPlanes` | three-section packing, the reads of each tier, unpacking on the CPU and, warp by warp, on the GPU |
| `ExpertRouting` | gates, dispatch and the sum of results, against `moe_infer` and, for the plain gate, the vLLM layer, which routes by itself |
| `CachePlanning` | `PlanCache` in exact arithmetic, and the slots the constructor makes of a plan |
| `LlamaCache` | the expert cache of the llama.cpp port, its two streams and `ggml_cuda_mul_mat_id` |
| `ProgressiveCache` | the vLLM port's cache of decoded experts |
| `VllmMethod`, `VllmPatch` | the two ways the code gets into vLLM: a quantisation method, a patched layer class |
| `MCExpertCache`, `MCEvictionOrder`, `MCExpertPipeline`, `MCParts` | constants, configurations and symmetry for TLC |
| `ExpertCache_proofs`, `ExpertCache_promises`, `ExpertPipeline_proofs`, `Engine_proofs`, `Weights_proofs`, `ExpertRouting_proofs`, `CachePlanning_proofs`, `Ports_proofs` | theorems, section 4 |

    SlotAllocator  ◄── PoolsKeepPromise (proved) ── ExpertCache
    ExpertCache    ◄── ImplementsCache (proved) ─── ExpertPipeline
    EvictionOrder  ──extends── ExpertCache ──extends── CacheHandle ──extends── MemoryPool

`ExpertCache` and `ExpertPipeline` both extend `CacheHandle`: the first leaves
open who calls the cache when, as long as each node is locked, staged, fetched,
run and unlocked in that order; the second has the real callers. The second is
proved to implement the first for every size, so what is proved of
`ExpertCache` holds of the threads of the program, too.

The other modules share no state with these or with one another: what
`ExpertPipeline` takes from `OffloadStore` is bytes that do not change while it
serves (`PublishedStays`), from `BitPlanes` that a decoded dock holds the
expert's weights, from `EngineThreads` that an operation in a queue is run. It
gives `ExpertRouting` one result per expert, in any order. `MCParts` puts the
ten of them into one specification only to check them in one run: each
behaviour is a behaviour of one of them.

### How the state corresponds to the code

* `gpuPool`, `smPool`: `slots_`, `node_to_slot_`, `free_slots_` of the two
  pools. `layer_to_pool` returns 0 for every layer, so there is one of each.
* `gpuMeta`, `smMeta`: the per-slot number of the policy (tokens, count, time,
  insertion time or mark). The policies keep it by slot, not by node.
* `node[n]`: `device`, `device_memory_ptr` (a slot, the dock, or null),
  `device_sm_ptr`, `lut_tier`, `last_decompress_tier`, `visit_count`.
* `locked`: nodes whose `mutex` is held. `aborted`: a FATAL log line, which
  calls `abort()`. `now`: the millisecond clock.
* `use`, `wanted` (`ExpertCache`): what the holder of the mutex is doing and
  whether the task is demanded or a prefetch. They are functions of the queues
  of `ExpertPipeline` (`UseOf`).
* `task[n]` (`ExpertPipeline`): the live `LUT_MoETask` of `n`. There is at most
  one because the mutex is held while it exists, and `TaskInOnePlace` checks it.
  Only an exception destroys a task and leaves the mutex held.
* `newQ`, `sched`, `readyQ`, `execQ`, `running`: `new_task_queue`,
  `scheduled_task_queue`, `ready_queue`, the exec queue, the task in
  `GPUExecFunc`. `pending`, `outputs`: `pending_`, `output_queue_`.
* `opQ`, `work`: operations queued in the two pools and taken by a worker;
  `live` is the task's preempt token at that moment.
* `dockOf`, `freeDocks`: `MemoryDock`. `good`, `weights`, `clobbered`: history
  of whose bytes the dock holds and what was decoded.
* `pc`: the line the main thread is at. `dozing` is the gap between evaluating
  `Wait`'s predicate and sleeping; `raised` is an exception that left
  `RegisterDockForNode` and unwound the main thread. The new queue is cleared by
  then and the unwinding destroys the scheduler's own queues (`Unwind`): the tasks
  not scheduled yet are gone. The one that asked for the dock stays scheduled,
  without operations.

The smaller modules:

* `EngineThreads`: `worker`, `thread`, `gpuThread` say where each thread is
  between its predicate and its sleep; `stop` is the set of flags that are set,
  `main` the destructor that runs, `buffers` whether the engine's buffers are
  still there, `onFreed` the operations that worked in them when they were not.
* `DenseHooks`: `ptr` is the data pointer of each tensor, `offload` and `idAt`
  are the two tables keyed by it, `heldNodes` the mutexes the thread holds.
* `OffloadStore`: `data`, `indexFile`, `mapFile` are on disk and survive a crash;
  the rest is a process. A torn index is one whose last entries are cut off.
* `BitPlanes`: `host` and `gpu` are bytes or "stale"; `held` is what a GPU
  thread has loaded, `warp` how far each warp is. `readAs`, `copiedAs` and `looked`
  are history: the tier at which each chunk was read and copied, and the one
  `SetDevice` saw.
* `CachePlanning`: a probability is kept as a weight w = u / `Unit`, so that
  p = w / (1 + w) = u / (`Unit` + u) and sums of products stay integers over a
  common denominator. `tried` says how far the loop over the ratios is.
* `LlamaCache`: `queue` has what is enqueued on each stream, `pinned` the one
  buffer, `comp` and `weights` the two buffers of each slot.
* `ProgressiveCache`: `entries` outlive `cache`, whose order is the dict's.
* `VllmMethod`: the list kept in the class is `cached`; an address stands for
  `id(topk_ids)`. `VllmPatch`: `class` counts the wrappers around vLLM's class,
  `run` has what each wrapper entered has saved and whether one has gone on without
  (`skipped`).

### Granularity

An action is one critical section, or a stretch of code that touches only state
no other thread can change meanwhile:

* `EnqueueExpert` is four steps: decide, scan the scheduled queue, scan the
  ready queue and read `device`, lock and insert. The queues move in between.
* The victim scan is atomic. It probes mutexes with `try_lock`; other threads
  only release mutexes during it.
* `ToWorkers` is atomic. Between its parts other threads only free docks and
  unlock other nodes; its tasks cannot become ready before it has submitted
  all operations, which `PendingOpsExact` reflects.
* The scheduler's cancellation loop holds the scheduled queue's mutex, so
  `WorkerFinish` is disabled while `pc = "cancel"`, and each cancelled task is
  a step of its own: fetch and exec run in between.
* An operation looks at its preempt token when it starts, works in a buffer of
  its own, and copies to the dock at its end. So its effect is one step at the
  end. A cancelled operation still in the queue returns without effect and is
  dropped at once; one that runs ends as `WorkerFinishLate`.
* The fetch thread does everything up to the push to the exec queue under the
  ready queue's mutex: one step.

### Abstractions

* The order of a dispatch's experts, and of tasks of one kind in the scheduler,
  is arbitrary: the code's orders are among those explored.
* `ProactiveDecision` compares an access count with two thresholds; the model
  chooses on which side the count falls. The predictor may name any experts of
  the next layer, up to `prefetcher_topk`.
* In `ExpertPipeline` bytes are abstracted to whose they are, and reads
  succeed. A failed one is logged by the code and counted as done, which
  `BitPlanes` has (`ReadFails`).
* `visit_count` is a field nobody on this path writes: a hit promotes nothing.
* `ExpertRouting` keeps of a row how often it contains which expert's answer to
  which token; weights are integers. The fit of the activation weights in
  `CachePlanning` is replaced by any weights it might return.

## 3. The runs

### Passing

| Run | Question and instance |
|---|---|
| `CachePolicies` | Do slots, node fields and mutexes stay in agreement; can an expert in use lose its slot; where can the process abort; does each ranking policy evict what it says? 2 GPU slots, 1 SM slot, 3 nodes under each of the five policies in turn; and, under the default policy, 2 other nodes of which one has its tier set at any moment, without its mutex. |
| `PipelineSafety` | All threads over three dispatches with prefetches between them. 3 nodes in 2 layers, 2 GPU slots, 1 SM slot, 3 docks, 2 compute workers and the I/O worker. |
| `PipelineLiveness` | Does each mutex get released and each dispatch get its results? 2 nodes in 1 layer, 1 slot of each kind, 2 dispatches, and 2 docks, so that some behaviours end with the dock exception. |
| `Parts` | The ten modules that share no state, each to the end of its own state space. |

Properties of `CachePolicies`:

* `GpuSlotsAgree`, `SmSlotsAgree`: no slot leaks and no pointer outlives a
  slot, whatever mix of evictions, cancellations and fetches went before.
* `NoSmOnGpu`: the assertion in `EnqueueExpert` (`expert_dispatcher.cpp:208`).
  It depends on every path that loads or drops a node.
* `RunsOnOwnWeights`: an expert that runs finds its own weights in its own slot,
  decoded at its tier, unless a caller sets the tier of that very expert.
* `PoolsKeepPromise`: each pool implements `SlotAllocator`: a slot changes hands
  only when its owner is not being loaded or run.
* `AbortsOnly`: of the FATAL lines in the modelled code, only these are
  reachable: a pool whose slots all belong to nodes in use, and the end of an
  EVICT task, which unregisters a slot the node does not have.
* `EvictsLowest`: a score that survives a change of owner would break it.

Of the pipeline:

* `ResultsMatch`, `TaskInOnePlace`: a prefetched task can move between queues
  while `EnqueueExpert` scans them; no expert is lost or served twice. After the
  exception of `RegisterDockForNode` it is otherwise: the experts of that dispatch
  that were not scheduled yet have no task any more, and their mutexes stay held.
  `TaskInOnePlace` says that they are the only ones.
* `MainNeverBlocks`: the main thread never finds the mutex of an expert it
  demands taken, nor, with two sparse layers or more, that of one it prefetches.
  Each prefetch still in flight is promoted, cancelled or fetched before its node
  is locked again. Scanning the queues in the other order would lose this. With
  one layer the "next" layer is the same, and a second round of prefetches finds
  the first still in flight.
* `PendingOpsExact`: the number of operations a task waits for and the
  operations submitted are computed in different functions; they agree.
* `DecodesOwnBytes`: what is decoded is the node's own bytes, except where an
  operation of a *cancelled* prefetch wrote a dock that had gone to another
  node. The exception happens: the model reaches it, since nothing makes a
  cancellation wait for running operations.
* `ImplementsCache`: each step of the pipeline is one of `ExpertCache`.
* `LocksReleased`, `DispatchAnswered`: liveness of the mutexes and of dispatches.
  After the dock exception the other threads still release each mutex but the
  *stranded* ones: those whose task was destroyed, and the scheduled one without
  operations (`Stranded`).

Of the parts:

* `OffloadStore`: whatever starts and crashes went before, the index names only
  bytes of the right tensor (`IndexNamesStoredData`); a process that is ready
  serves each tensor from them, except a dense tensor whose index entry a crash
  cut off, which the next start takes for stored (`ReadyServesModel`); once the
  name map is complete nothing changes the files (`PublishedStays`).
* `BitPlanes`: the sections determine the indices (`PlanesKeepIndices`). What is
  looked up is accounted for byte by byte, whatever tiers the readers saw and
  whichever reads failed (`LooksUpWhatWasRead`). After the 4-bit unpacking an
  index has its four low bits exactly if the byte that holds them was read, unless a
  warp loaded after a higher one had stored, which nothing in the kernel prevents.
  With one chunk the byte always was; with several it need not be: a tier reads the
  beginning of each chunk, whereas the low section is the beginning of the file, so
  that at tier 2 a chunk inside it is read only half. A byte copied as it is, is the
  packed one, or stale if it was not read. The 6-bit unpacking makes nothing of stale
  bytes in the whole groups of a chunk that was read for it.
* `EngineThreads`: operations still queued at the end are executed
  (`NoneDropped`); one that works in a buffer the engine's destructor has freed
  is a prefetch's (`FreedUnderPrefetchOnly`); the destructors return unless a
  thread sleeps whose flag was set without waking it (`CloseReturns`); whoever
  waits for demanded tasks gets them (`DemandMet`).
* `DenseHooks`: both pointer tables follow the tensors although the allocator
  uses addresses again (`PointersFollow`); a mutex is held exactly while tensors
  of its node are to be released, also after an exception in a forward
  (`HeldWhilePending`); a module that runs has its weights (`RunsOnWeights`).
* `ExpertRouting`: for results in any order, the block returns what `moe_infer`
  of the block it replaces returns (`SameAsReplaced`). The vLLM layer
  routes by itself, plain top-k of the scores (`VllmRows`): it returns the same where
  the model's gate is the greedy one and `routed_scaling_factor` is 1, and is
  compared there only; groups it ignores, and it does not scale. (`norm_topk_prob`
  is taken to be off, as it is by default.) Weight goes to the best of
  the best groups only (`LimitedToGroups`).
* `CachePlanning`: targets are probabilities that sum to K, and planning raises
  exactly if fewer than K experts were used (`TargetsSumToK`); for every split
  hits and misses add up to all choices of experts (`HitsAddUp`); the slots of a
  plan are useful, fit, and are the ones the constructor makes (`PlanHolds`).
* `LlamaCache`: a product finds the load of its expert that was last enqueued,
  neither one still on its way nor another expert's (`MultipliesItsLoad`).
* `ProgressiveCache`: `EvictsLru`, for any mix of storing, evicting and access.
* `VllmMethod`: a token misses an expert only where the router's ids lie at the
  address the layer before had its own at (`MissesOnlyReused`). The exception
  happens: the class keeps the `id()` of ids it does not keep alive, so the list
  of another layer may be taken for this one's.
* `VllmPatch`: however often the class was patched and whatever raised, between
  calls a layer has its own weights again; all its calls run with the same
  weights, but for one in which a clone failed, which the wrapper swallows to go on
  with the layer's own (`GoOn`); and a restore leaves vLLM's class (`PatchesUndone`). With a
  `lut_path`, the codebook trained on the first layer serves all layers.

### Disagreements between the code and what the repository says

Each of these runs checks one statement taken from the repository and finds the
behaviour of the code that contradicts it.

| Run | What happens |
|---|---|
| `LostWakeup` | `GPUExecFunc` decrements `pending_` and notifies without `pending_mutex_`. The notification can fall between `Wait`'s predicate and its sleep; `Wait` then sleeps for ever. |
| `LutNeverReady` | With `is_lut`, tasks count sign/mantissa reads that `ToWorkers` does not submit; they never become ready. |
| `DockLeak` | The inlined output processing does not give the dock back, as `OutputFunc` does. The docks of demanded experts stay taken; later `RegisterDockForNode` throws, even for a node that has one, because it tests the free list first. |
| `TierReload` | After a tier change, `SetDevice` on a node that is already on the GPU decodes into the pointers of a task that carries none. `program.md` says that the weights are loaded again and decoded with the new table. |
| `ResumeOffload` | After a crash while the offload directory is created, expert tensors are stored again under ids the index has; the start dies of "offloaded twice". Dense tensors are asked for first. |
| `TierDecode` | The file holds the packed sections at every tier, but at tier 0 nothing unpacks them before the lookup. (At tier 1 the unpacking in place writes over low nibbles it has still to read. At tier 2, with three chunks, half of a chunk of low nibbles is not read.) |
| `PinnedOverrun` | In the llama.cpp port a prefetch reads into the pinned buffer while the copy of an earlier one out of it is queued; two slots get the same expert's bytes. |
| `WrongScales` | In the vLLM method a counter of the method object says which layer's absmax to load, and each layer has an object of its own: all load the first layer's. |

### Bounds

* Slots fewer than nodes: every eviction path is taken with the smallest
  instance that has a choice of victims (two GPU slots). The nodes whose tier is
  set are two: they compete for the SM slot, and the interleavings with a third
  are more than TLC gets through; the theorems have no such bound.
* Tiers: an eviction raises a node's tier by one at most under the default
  policy and leaves it under the others, which do not look at it.
* `MaxTokens`, `MaxMeta`, `MaxNow` cap the numbers of the ranking policies; they
  leave room for ties, for orders that differ between policies, and for a slot
  to change owner more than once. A hit that would pass `MaxMeta` is disabled; a
  negative `MaxMeta` is no bound, which is what the pipeline has.
* `MaxRounds`: a prefetch needs a dispatch before it and one after it, and a
  cancelled one another that reuses its dock and slot: three.
* Two layers, of two nodes and of one (`Second`), so that prefetches are for
  another layer than the dispatch before them and for the same as the one after.
  The other runs of the pipeline have one layer: the prediction then ranges over
  the experts just run, and the next dispatch may ask for any of them.
* One chunk and one sign/mantissa read per node; two compute workers let an
  operation of a cancelled task outlive one of the next task of that dock.
* `WarmAt`, `HotAt` are the code's 10 and 50.
* `OffloadStore`: five tensors in two files, batches of two; a batch is stored because
  it is full, because its file ends and because a dense tensor comes; two
  crashes, so that a start after a crash crashes again.
* `BitPlanes`: sixteen indices in three chunks, as the chat script, the benchmarks and
  the tests have them (the default is five). The chunks are of six, six and four
  bytes: not whole groups, the last one shorter, one across the end of the low
  section. Two warps of four threads, so that warps overlap; one change of the tier.
* `EngineThreads`: two workers, one operation waited for and one prefetch: a
  worker sleeps while the other works, and a prefetch outlives the last wait.
* `DenseHooks`: three passes over two stages, one module with two tensors, one
  address more than tensors, so that each move reuses one.
* `ExpertRouting`: two tokens, four experts in two groups, scores with ties and
  zeros, a capacity of one. Each of the two gates of DeepSeek and the Switch
  router, a scaling factor of 1 and another. `CachePlanning`: four experts of which a token uses
  two, four layers, memories on both sides of what is feasible, an empty count, a
  prompt over the batch.
* `LlamaCache`: two layers of two experts for two slots, four calls: after
  the first two loads each evicts. `ProgressiveCache`: four keys, two entries.
* `VllmMethod`: two layers, three calls; `VllmPatch`: two layers, two patches.
* Node and worker symmetry is used in safety runs only, never for liveness. In
  `CachePolicies` it ranges over the nodes whose tiers nobody sets.
* `CHECK_DEADLOCK FALSE`: a behaviour ends with `abort()`, with an exception on
  the main thread, when the destructors return, or at a bound.

### Fairness

`Fairness` of `ExpertPipeline` is weak fairness of the main thread, of each
worker, of the fetch thread and of the exec thread: each runs a loop of its own
and no lock is held for ever by design. Nothing is assumed of `Dispatch` (the
caller may stop) nor of `SpuriousWake`, which a condition variable may do but
need not. `DispatchAnswered` is excused when the process aborts or an exception has
left the main thread; `LocksReleased` when it aborts and, after the exception, for
the `Stranded` nodes only.

`EngineThreads` has the same: weak fairness of each thread's own loop and of the
main thread once a destructor runs. When the destructors run, whether work is
submitted, and spurious wakeups are left open. `MCParts` states these for the
behaviours that are of `EngineThreads`; its other parts have safety only.

## 4. The proofs

Those about `ExpertCache` hold for any finite or infinite set of nodes, any
positive numbers of slots, each policy, each assignment of tier bounds and any
tiers a caller may set for any node. The assumptions are those named in
`MemoryPool`, `CacheHandle` and `ExpertCache`: null values are not values, slot
counts are positive, the policy is one of the five.

* `ExpertCache_proofs` begins with the lemmas about one pool: `EmptyPool` is
  consistent, popping and placing, evicting, and evicting then placing keep
  `PoolOK`, and each lemma says what the operation does to `slotOf`.
* `Invariance`, `Spec => []Inv`, where

      Inv == TypeOK /\ PoolsConsistent /\ LockAgrees
             /\ GpuSlotsAgree /\ SmSlotsAgree /\ NoSmOnGpu

  None of the parts is inductive alone. `NoSmOnGpu` needs to know that a node
  being fetched has its SM slot where its pointer says (`SmSlotsAgree`) or the
  unregistration in `GPUFetchFunc` would abort or leave the slot; the slot
  properties need the pools to be consistent, so that the node evicted from a
  slot is the one whose fields are reset; and they need `LockAgrees`, which
  makes the victim of an eviction an idle node.
* The argument goes by node. An action changes the fields of the node it is
  about and, when it evicts, of one victim; the invariant of every other node
  is carried over (`InvNodes`, `NodesInv`). Each action has its lemma; steps
  that end in `abort()` change nothing else (`AbortInv`).
* Corollaries: `Typed`, `PoolsStayConsistent`, `GpuSlotsStayRight`,
  `SmSlotsStayRight`, `NoSmCopyOnGpu`, and `AbortsOnlyThere`, the action
  property `AbortsOnly`.
* `ExpertCache_promises`: `PoolsImplementAllocator`, both pools implement
  `SlotAllocator`, with a slot's node as its owner and the nodes whose mutex is
  held as the busy ones. Each step of a node's holder, seen from one pool, is
  one of three (`HandsOver`): no slot changes hands, the node's own is given
  back, or one whose owner nobody holds becomes the node's; `Inv` supplies that
  the node has at most one slot and that a victim's mutex is free.
* Also there: `RunsOnTheRightWeights`, the invariant
  `RunsOnOwnWeights`, if `WarmAt` and `HotAt` are positive. `Inv` does not say
  what was decoded when; `DecodedInv` adds that a node on the GPU has a pointer
  and was last decoded at its tier, that a running node is on the GPU, and that
  `visit_count` is 0, without which a hit could promote a node in place. For a
  node whose tier a caller sets it claims the last two only.

* Also there, about `EvictionOrder`: `LowestGoes`, the action property
  `EvictsLowest`, for any numbers of nodes and slots. `OrderInv` adds
  `NumbersFollow` to `Inv`: the number the code keeps for a slot is the score of
  the node that owns it, which a victim's number surviving it would break.

Those about `ExpertPipeline` hold for finite sets of nodes and of parts of an
expert, any compute workers, any positive numbers of layers, docks and slots, each
policy, with and without planned pools and lookup tables (`PipelineAssumptions`):

* `ExpertPipeline_proofs`: `PipelineInvariance`, `Spec => []PipelineInv`, with

      PipelineInv == CP!Inv /\ Tasks /\ OpsCounted /\ DocksTyped

  `CP!Inv` is the cache's `Inv` with `use` and `wanted` computed from the queues.
  `Tasks` says that a mutex is held exactly while its node has a task, in one place,
  except those of the tasks the dock exception destroyed, which are held for ever by
  experts of the dispatch that are not on the GPU (`TaskInOnePlace`); how far the
  task of each place is; which operations are for it; what the main thread has in
  hand at each line; and that `pending_` is the number of experts of the dispatch
  without a result. `OpsCounted` says that a task's count is that of its operations
  left. The two halves need each other: a fetch or a cancellation does not abort
  because the pools are consistent, and they stay so because the queues never let
  two tasks of one node exist.
* `PipelineImplementsCache`: each step is a step of `ExpertCache` or leaves the
  cache as it is. `OnePlace`: `TaskInOnePlace`.
* Also there, each from `PipelineInv` and what is named:
  `PendingExact`, if `IsLut` is off (run `LutNeverReady` shows why);
  `DocksNeverShared`, from the tables of the docks and the dock each operation of
  a live task writes; `EachResultOnce`, from `Results`, an expert has one
  result exactly if it is no longer owed; `LocksAreFree`, from `OldFirst`,
  prefetches that were not hit precede in the ready queue whatever a dispatch
  demands, so that they are fetched before it is over, and `Orderly`, what is still
  to be prefetched is not in flight; `OwnBytesDecoded`, from `Bytes`, each part a
  task asked for is in its dock or has an operation under way; and
  `PipelineTypes`. That `MainNeverBlocks` needs a second layer for prefetches
  came out of the attempt to prove it without.

Those about `EngineThreads` hold for any workers and any operations, demanded
or not:

* `Engine_proofs`: `ThreadsInvariance`, with

      ThreadsInv == TypeInv /\ Kept /\ OnePlace /\ Counted

  `Kept`: what was submitted is queued, in a worker's hands or done, and a worker
  that left has left an empty queue behind, to which nothing is added. `OnePlace`:
  an operation is in one queue or one hand. `Counted`: `pending_` is the number of
  demanded operations the exec thread has not done, and 0 once a destructor runs.
  From these `NothingDropped`, if the pool has a worker, and
  `OnlyPrefetchesOnFreed`.

Those about `DenseHooks` hold for any modules, tensors, stages and addresses, if
each tensor is one module's, the weights lie outside the heap, each at a place of
its own, and there is room for all placeholders (`HooksAssumption`):

* `Engine_proofs`: `HooksInvariance`, whose invariant adds to the three
  properties where a tensor can be (`Placed`), which release was the last
  (`LastRelease`), that the tensors of a module are to be released all or none
  (`AllOrNone`), that a node in use has one to release (`InUse`), and which
  tensors a hook in the middle of its loop has brought (`Brought`). `AllOrNone` is
  what an exception in a forward puts at risk: the next call of that module finds
  all its tensors still acquired. From it `TablesFollow`, `LocksBalance`,
  `ForwardHasWeights`.

Those about `OffloadStore` hold for any number of tensors, any of them sparse,
any ends of files, any size of batches and any number of crashes:

* `Weights_proofs`: `Typed`, `IndexStaysRight`, `ReadyServes`,
  `PublishedForGood` follow from

      StoreInv == TypeInv /\ IndexNamesStoredData /\ Published /\ Unhurt /\ Serving

  `TypeInv` also says that ids agree: the id of a tensor is its place at each
  start. `Published` says that a process that creates the model has in memory
  what the index file says, and that none does once the name map is complete;
  `Unhurt`, that without a crash each tensor is stored once; `Serving`, that
  what was gone through is served or waits in a batch.

Those about `BitPlanes` hold for any number of weights that is a multiple of four,
the only ones the packing accepts, any 8-bit indices, any tiers and any size of the
warps (`PlanesAssumption`):

* `Weights_proofs`: `SectionsDetermine`, that is `PlanesKeepIndices`, from what each
  byte of the three sections is made of (`PackedBytes`, `PairsApart`).
* `AccountedFor`, that is `LooksUpWhatWasRead`, for any number of chunks. Its
  invariant is about each place of each buffer, with the chunk it is in
  (`ChunkPlaces`) and the tiers at which that chunk was read and copied: what was
  read of a buffer is the packed byte and the rest is stale (`ReadFits`), and so is
  the host's part; where it was unpacked to six bits the whole groups are not stale,
  because each makes four known indices of known bytes (`HostFits`, `GroupKnown`);
  and so is the GPU's (`GpuFits`). While its threads unpack four bits, and no warp was
  overtaken, a warp that has not loaded finds its part of the copy as it was unless
  its own or a higher one has stored, what it has loaded is that part, and what it has
  stored are the two nibbles (`Undisturbed`).

Those about `ExpertRouting` hold for any numbers of tokens, experts, groups and
choices, any scores that are natural numbers, ties included, any scaling factors,
and any order in which the results come in; with the group-limited gate the number
of groups need not even divide that of experts:

* `ExpertRouting_proofs`: `GateStaysInGroups`, that is `LimitedToGroups`, and
  `BlockAsReplaced`, that is `SameAsReplaced`, from `RoutingInv`: the gate has left
  each token it has come to with `TopK` choices of those `torch.topk` may give
  (`Chosen`), and while results are collected a token's row has the weights of its
  experts that have answered, and nothing else (`RowBut`). The rows of an expert's
  result are its tokens' because it has one for each, in order (`RowsOf`). For
  `moe_infer`, `CutOffCounts` says that the sums of the counts are the numbers of
  pairs of earlier experts, and `CutWithExpert` that in any order `argsort` may give,
  ties in whatever order, a pair is cut off with its own expert's. `PlainIsVllm`: the
  greedy gate's choices are ones that the vLLM layer may make and, times 1, weighted alike.

Those about `CachePlanning` hold for any traces whose prompts have the same layers,
any numbers of experts, layers and bytes, any weights and two steps or more
(`PlanningAssumption`). The program itself needs more experts than a token uses
(`SomeExpertIsLeft`): with as many, `scale_to_k` cuts them all and raises when it
indexes with an empty array of floats (`cache_planning.py:254`), which is not modelled:

* `CachePlanning_proofs`: `TargetIsDistribution`, that is `TargetsSumToK`, from
  `TargetInv`: the counts come highest first (`CountsDescend`: sorted per batch and
  layer, so their sums are), what was cut and what is left of k add up to k, what was
  cut was used, and while use is left something of k is (`CutInv`). The last is
  what keeps the loop from giving experts in use nothing: those whose share reaches
  1 cannot take more than what is left of k, and take all of it only if no other
  expert is used (`CutLeaves`).
* `PoolsCountSameChoices`, that is `HitsAddUp`, for every ratio that fits. With one more
  expert a choice has it or has not (`ChoicesOfOneMore`), which is the step of `dp`, of
  `b_dp` and, run from the top, of the pass over `output_distribution` (`ProbIsTable`);
  the choices among two disjoint sets are those of each, multiplied by how many
  fall into which (`ChoicesOfBoth`), which is what `np.convolve` adds up.
* `PlanIsKept`, that is `PlanHolds`, from `PlanInv`: what was appended are ratios that
  fit, and every such ratio tried was appended, since its total is positive
  (`TotalPositive`: at least `avgk` experts have a weight). That the code
  returns the last but one step when no ratio is 0.3 or more, whether or not it
  fits, does no harm: if one below 0.3 fits then so does one of two thirds
  (`LargerFits`), and the fallback is only taken for a plan that is infeasible.
  The constructor makes at least the slots of a plan because it rounds up
  what was rounded down (`MadeEnough`).

Those about `LlamaCache` hold for any numbers of layers, experts and slots, any
thresholds, and any number of calls:

* `Ports_proofs`: `LlamaInvariance` and `ProductsFindTheirLoad`, that is
  `MultipliesItsLoad`. The code never compares what a slot has with what it is to
  have; it relies on the order in which streams run and on events.
  `Paired` says that a queue is made of copies directly followed by their decoding,
  and of products; `Products`, that the last load into a slot that is queued before
  a product, or what the slot has, is for the product's expert; `KeysHold`, the same
  of a slot's key after all that is queued; `Prefetching`, that the
  prefetch stream only loads, into slots that are marked and for which the compute
  stream has nothing to do. The last is kept because a slot whose load was waited
  for is not on that stream (`Settled`) and because prefetches go there only while
  the compute stream is empty (`PrefetchesFirst`): it is, because the ids of the
  experts are copied back to the host first.

Those about the vLLM port hold for any layers, any depth of patching, any experts
and batches, and any size of the cache; `VllmMethod` has a layer at least, and 0
stands for the address of no list (`MethodAssumption`):

* `Ports_proofs`: `RestoredAsBefore`, that is `PatchesUndone`. Of the wrappers a call
  has entered, the outermost saved the layer's own weights and all others the
  decoded ones (`Stacked`), so that putting back in the opposite order ends with
  the layer's own; a routed layer is reached only through wrappers that swapped, or
  in a call that is recorded to have gone on without (`Entered`), so that all the other
  calls run with the same (`OneResult`).
* `MissesOnlyThere`, that is `MissesOnlyReused`: the list in the class was made for
  ids at the address of the last call's, and only there can it be taken for another's.
* `OldestMakesRoom`, the action property `EvictsLru`: `ProgressiveInvariance` says that
  an entry's stamp is the last access in the history and that the cached experts
  have entries, each once.

Only model-checked: liveness (`LocksReleased`, `DispatchAnswered`, `CloseReturns`,
`DemandMet`), which is beyond the proof system's backends. Every other property of
a run that passes is a theorem.
Induction over data is done by the least counterexample: `LowestExists` gives, of the
numbers for which a claim fails, the lowest. So the recursive functions of `BitPlanes`,
`ExpertRouting` and `CachePlanning` are shown to exist (`UnpackingExists`,
`FoldExists`, or by their solution) and what they compute is proved for every size;
`SetsGrow` is the same for finite sets, one element at a time.

## 5. The plan

1. Models: done, as far as section 6 allows.
2. Proofs about the cache, the pipeline, the threads' life, the hooks, the offload
   directory, the bit planes, the routing, the planning, the llama.cpp cache and the
   vLLM port: done. Liveness stays with TLC.

## 6. Not modelled

* `evaluation/`, `benchmark/`, conversion scripts: more than half of the Python
  code. Each script loads a model, computes floating-point statistics and prints
  them; no state outlives it and nothing runs beside it.
* Attention, norms, embeddings and generation of `modeling_deepseek.py`, which
  are the published model's; only its gate and `moe_infer` are modelled.
* GPU kernels but the unpacking of bit planes: they are data-parallel and their
  correctness is numerical. Training of codebooks and nearest-code encoding
  likewise.
* The class patches by which `model_offload.py` and `hooks.py` replace methods of
  PyTorch and Transformers while a model is built: installed once at start-up;
  `clean_up`, which would undo them, is never called.
* Unchecked writes and short reads of the offload file: `OffloadStore` lets a
  crash cut a write short, not a full disk.
* `predict_next_layer` of the vLLM cache, which changes nothing, and the chat
  script, which prints what one generating thread produces.
* `expert_module.cpp`, `cpu_ctrl.cpp`, logging and configuration: no state that
  a step of another component reads, except that a FATAL line aborts.
