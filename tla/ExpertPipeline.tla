--------------------------- MODULE ExpertPipeline ---------------------------
(***************************************************************************)
(* The dispatch of experts: dispatch_local (experts/expert_executor.py)    *)
(* drives ExpertDispatcher and TensorEngine on the main thread; a fetch    *)
(* thread and an exec thread serve the ready and the exec queue; compute   *)
(* workers and one I/O worker run the read operations of scheduled tasks.  *)
(*                                                                         *)
(*   main --newQ--> ToWorkers --opQ--> workers --readyQ--> fetch --execQ-->*)
(*   exec --outputs, pending--> main (Wait)                                *)
(*                                                                         *)
(* Only the main thread locks node mutexes, registers slots and docks, and *)
(* cancels; fetch and exec unlock.  A task exists for a node only while    *)
(* the node's mutex is held, so tasks are indexed by node.                 *)
(***************************************************************************)
EXTENDS CacheHandle

CONSTANTS
  LayerOf,         \* the sparse layer of each node
  NumLayers,       \* num_sparse_layers
  ExpOps, SmOps,   \* the chunk reads and the sign/mantissa reads of one node
  ComputeWorkers,  \* threads of compute_pool
  IoWorker,        \* the thread of IO_thread
  NumDocks,        \* docks of MemoryDock
  UsePoolPlanning, \* use_pool_planning
  IsLut,           \* config_ptr->is_lut
  TopK,            \* prefetcher_topk
  MaxRounds        \* bound: dispatches of one behaviour

ASSUME PipelineAssumptions ==
  /\ NumLayers \in Nat \ {0} /\ LayerOf \in [Nodes -> 0 .. NumLayers - 1]
  /\ IsFiniteSet(Nodes) /\ IsFiniteSet(ExpOps) /\ IsFiniteSet(SmOps)
  /\ ExpOps \cap SmOps = {} /\ ExpOps /= {}
  /\ IoWorker \notin ComputeWorkers
  /\ NumDocks \in Nat \ {0} /\ TopK \in Nat /\ MaxRounds \in Nat
  /\ UsePoolPlanning \in BOOLEAN /\ IsLut \in BOOLEAN

VARIABLES
  pc,        \* where the main thread is
  layer,     \* layer_idx of the current dispatch
  request,   \* the experts routed to in this dispatch
  todo,      \* those the current loop has not reached
  cur,       \* the expert EnqueueExpert is working on
  decision,  \* ProactiveDecision's answer for it
  task,      \* the live LUT_MoETask of each locked node
  newQ, sched, readyQ, execQ,   \* the four task queues
  running,   \* the node GPUExecFunc is executing
  opQ,       \* operations queued in the two pools
  work,      \* what each worker is running
  dockOf, freeDocks,   \* MemoryDock: node_to_dock_id_, free_dock_ids_ (LIFO)
  good,      \* the parts of n's bytes that are in n's dock
  weights,   \* the last decode of n used n's own bytes / somebody else's
  clobbered, \* nodes whose dock a cancelled operation has written
  pending,   \* pending_
  outputs,   \* results of n in output_queue_
  rounds     \* dispatches so far

mainVars == <<pc, layer, request, todo, cur, decision, rounds>>
taskVars == <<task, newQ, sched, readyQ, execQ, running>>
opVars   == <<opQ, work>>
dockVars == <<dockOf, freeDocks, good, weights, clobbered>>
waitVars == <<pending, outputs>>
vars == <<cacheVars, mainVars, taskVars, opVars, dockVars, waitVars>>

Workers == ComputeWorkers \cup {IoWorker}
NoOp    == [node |-> NoNode, part |-> NoNode, dock |-> 0, live |-> FALSE]
NoTask  == [state |-> "none", hit |-> FALSE, pend |-> 0, ptrs |-> "none"]

States == {"NORMAL", "SMCACHE", "EVICT", "PREFETCH"}
PCs == {"idle", "decide", "scanScheduled", "scanReady", "lock", "cancel",
        "typeI", "toWorkers", "wait", "dozing", "asleep", "prefetch", "submit",
        "raised"}

LayerNodes(l) == {n \in Nodes : LayerOf[n] = l}
InSeq(n, q)   == \E i \in 1 .. Len(q) : q[i] = n
SeqSet(q)     == {q[i] : i \in 1 .. Len(q)}
NeedsSm(n)    == node[n].sm = NoSlot
Resident(n)   == node[n].device = "cuda"

Init ==
  /\ CacheInit
  /\ pc = "idle" /\ layer = 0 /\ request = {} /\ todo = {} /\ cur = NoNode
  /\ decision = "NORMAL" /\ rounds = 0
  /\ task = [n \in Nodes |-> NoTask]
  /\ newQ = {} /\ sched = {} /\ readyQ = <<>> /\ execQ = <<>>
  /\ running = NoNode
  /\ opQ = {} /\ work = [w \in Workers |-> NoOp]
  /\ dockOf = [n \in Nodes |-> NoSlot]
  /\ freeDocks = [i \in 1 .. NumDocks |-> i - 1]
  /\ good = [n \in Nodes |-> {}] /\ weights = [n \in Nodes |-> "none"]
  /\ clobbered = {}
  /\ pending = 0 /\ outputs = [n \in Nodes |-> 0]

-----------------------------------------------------------------------------
(***************************************************************************)
(* The main thread: dispatch_local.  The model of each layer in turn asks  *)
(* for some experts of that layer; set_expected_queue sets pending_ first. *)
(***************************************************************************)
Dispatch ==
  /\ pc = "idle" /\ rounds < MaxRounds
  /\ \E R \in (SUBSET LayerNodes(layer)) \ {{}} :
       /\ request' = R /\ todo' = R
       /\ pending' = Cardinality(R)
  /\ rounds' = rounds + 1
  /\ pc' = "decide"
  /\ UNCHANGED <<layer, cur, decision, outputs>>
  /\ UNCHANGED <<cacheVars, taskVars, opVars, dockVars>>

\* ProactiveDecision; a rank stands for where count_up falls: below
\* Threshold_NORMAL, below Threshold_SMCACHE, or above.
ProactiveDecision(rank) ==
  IF ~UsePoolPlanning THEN "NORMAL"
  ELSE IF rank = "hot"
  THEN IF ~HasFree(gpuPool) /\ HasFree(smPool) THEN "SMCACHE" ELSE "NORMAL"
  ELSE IF HasFree(smPool) THEN "SMCACHE"
  ELSE IF HasFree(gpuPool) THEN "NORMAL"
  ELSE IF rank = "warm" THEN "SMCACHE" ELSE "EVICT"

EnqueueDecide ==
  /\ pc = "decide" /\ todo /= {}
  /\ \E n \in todo, rank \in {"hot", "warm", "cold"} :
       /\ cur' = n /\ todo' = todo \ {n}
       /\ decision' = ProactiveDecision(rank)
  /\ pc' = "scanScheduled"
  /\ UNCHANGED <<layer, request, rounds>>
  /\ UNCHANGED <<cacheVars, taskVars, opVars, dockVars, waitVars>>

\* A task found in a queue is promoted to a demanded one.
\* Mutant: the early return after the promotion is missing.
PromoteFallsThrough(n) ==
  /\ task' = [task EXCEPT ![n].state = "NORMAL", ![n].hit = TRUE]
  /\ UpdateOnHit(n, 1)
  /\ pc' = "scanReady"

Promote(n) ==
  /\ task' = [task EXCEPT ![n].state = "NORMAL", ![n].hit = TRUE]
  /\ UpdateOnHit(n, 1)
  /\ pc' = "decide"

EnqueueScanScheduled ==
  /\ pc = "scanScheduled"
  /\ IF cur \in sched
     THEN Promote(cur)
     ELSE pc' = "scanReady" /\ UNCHANGED <<cacheVars, task>>
  /\ UNCHANGED <<layer, request, todo, cur, decision, rounds>>
  /\ UNCHANGED <<newQ, sched, readyQ, execQ, running>>
  /\ UNCHANGED <<opVars, dockVars, waitVars>>

\* The ready queue, then the device, read before the node's mutex is taken.
EnqueueScanReady ==
  /\ pc = "scanReady"
  /\ IF InSeq(cur, readyQ)
     THEN Promote(cur)
     ELSE /\ pc' = "lock"
          /\ IF Resident(cur) THEN UpdateOnHit(cur, 1) ELSE UNCHANGED cacheVars
          /\ UNCHANGED task
  /\ UNCHANGED <<layer, request, todo, cur, decision, rounds>>
  /\ UNCHANGED <<newQ, sched, readyQ, execQ, running>>
  /\ UNCHANGED <<opVars, dockVars, waitVars>>

\* num_pending_operations counts one operation per chunk and, without an SM
\* pointer, one sign/mantissa read per tensor.
\* Mutants: the sign/mantissa reads are not counted; one too many is.
NumOpsNoSm(n)  == Cardinality(ExpOps)
NumOpsExtra(n) == Cardinality(ExpOps \cup SmOps) + 1

NumOps(n) == Cardinality(ExpOps) + (IF NeedsSm(n) THEN Cardinality(SmOps) ELSE 0)

NewTask(n, state) ==
  [state |-> state, hit |-> state /= "PREFETCH", pend |-> NumOps(n),
   ptrs |-> "none"]

\* node->mutex.lock() returns, and the task is built.
EnqueueLock ==
  /\ pc = "lock" /\ cur \notin locked
  /\ locked' = locked \cup {cur}
  /\ IF Resident(cur)
     THEN /\ task' = [task EXCEPT ![cur] = NewTask(cur, "NORMAL")]
          /\ readyQ' = Append(readyQ, cur)
          /\ UNCHANGED newQ
     ELSE /\ task' = [task EXCEPT ![cur] = NewTask(cur, decision)]
          /\ newQ' = newQ \cup {cur}
          /\ UNCHANGED readyQ
  /\ pc' = "decide"
  /\ UNCHANGED <<gpuPool, smPool, gpuMeta, smMeta, node, now, aborted>>
  /\ UNCHANGED <<layer, request, todo, cur, decision, rounds>>
  /\ UNCHANGED <<sched, execQ, running, opVars, dockVars, waitVars>>

-----------------------------------------------------------------------------
\* LUT_MoESchedulerFunc takes the scheduled queue's mutex for its first loop.
OpsSchedule ==
  /\ pc = "decide" /\ todo = {}
  /\ pc' = "cancel"
  /\ UNCHANGED <<layer, request, todo, cur, decision, rounds>>
  /\ UNCHANGED <<cacheVars, taskVars, opVars, dockVars, waitVars>>

\* MemoryDock::UnregisterDockForNode.  Mutant: the mapping stays.
FreeDockMapped(n) ==
  /\ UNCHANGED dockOf
  /\ freeDocks' = IF dockOf[n] = NoSlot THEN freeDocks
                  ELSE Append(freeDocks, dockOf[n])

FreeDock(n) ==
  /\ dockOf' = [dockOf EXCEPT ![n] = NoSlot]
  /\ freeDocks' = IF dockOf[n] = NoSlot THEN freeDocks
                  ELSE Append(freeDocks, dockOf[n])

\* A scheduled task nobody hit: set_stop, unregister_memory, erase.  Its queued
\* operations return at once when a worker takes them; those running go on.
CancelTask(n) ==
  /\ pc = "cancel" /\ n \in sched /\ ~task[n].hit
  /\ FreeDock(n)
  /\ UnregisterCacheSlotForNode(n)
  /\ locked' = IF aborted' THEN locked ELSE locked \ {n}
  /\ sched' = sched \ {n}
  /\ task' = [task EXCEPT ![n] = NoTask]
  /\ opQ' = {o \in opQ : o.node /= n}
  /\ work' = [w \in Workers |->
                IF work[w].node = n THEN [work[w] EXCEPT !.live = FALSE] ELSE work[w]]
  /\ UNCHANGED <<smPool, gpuMeta, smMeta, now, mainVars, waitVars>>
  /\ UNCHANGED <<newQ, readyQ, execQ, running, good, weights, clobbered>>

CancelDone ==
  /\ pc = "cancel" /\ \A n \in sched : task[n].hit
  /\ pc' = "typeI"
  /\ UNCHANGED <<layer, request, todo, cur, decision, rounds>>
  /\ UNCHANGED <<cacheVars, taskVars, opVars, dockVars, waitVars>>

(***************************************************************************)
(* ToWorkers: publish the task in the scheduled queue, take a dock (an     *)
(* exception unwinds the main thread if none is free), take slots by the   *)
(* state, submit the operations.  One step: between its parts the other    *)
(* threads only free docks and unlock nodes.                               *)
(***************************************************************************)
RegisterDock(n) ==
  IF dockOf[n] /= NoSlot
  THEN UNCHANGED <<dockOf, freeDocks>>
  ELSE /\ dockOf' = [dockOf EXCEPT ![n] = freeDocks[Len(freeDocks)]]
       /\ freeDocks' = SubSeq(freeDocks, 1, Len(freeDocks) - 1)

Staging(state) == CASE state = "EVICT"   -> "dock"
                    [] state = "SMCACHE" -> "sm"
                    [] state \in {"NORMAL", "PREFETCH"} -> "gpu"

\* Mutant: the SM parts are read even when the node has them.
SubmittedAll(n) == ExpOps \cup SmOps

Submitted(n) == ExpOps \cup (IF NeedsSm(n) /\ ~IsLut THEN SmOps ELSE {})

ToWorkers(n) ==
  LET how == Staging(task[n].state) IN
  /\ freeDocks /= <<>>
  /\ sched' = sched \cup {n}
  /\ RegisterDock(n)
  /\ CASE how = "dock" -> UNCHANGED cacheVars
       [] how = "sm"   -> RegisterSMCacheForNode(n)
       [] how = "gpu"  -> RegisterCacheSlotForNode(n)
  /\ task' = IF aborted' THEN task ELSE [task EXCEPT ![n].ptrs = how]
  /\ opQ' = opQ \cup {[node |-> n, part |-> p, dock |-> dockOf'[n], live |-> TRUE] :
                        p \in Submitted(n)}
  /\ good' = [good EXCEPT ![n] = {}]
  /\ clobbered' = clobbered \ {n}
  /\ UNCHANGED <<work, weights>>

NoDockLeft(n) ==
  /\ freeDocks = <<>>
  /\ sched' = sched \cup {n}
  /\ pc' = "raised"
  /\ UNCHANGED <<cacheVars, opVars, dockVars>>

\* new_task_queue is empty by then and the unwinding destroys TypeI_pq and
\* TypeII_pq: the tasks that were not scheduled yet are gone, their nodes' mutexes
\* stay locked.
Unwind(lost) ==
  /\ newQ' = {}
  /\ task' = [m \in Nodes |-> IF m \in lost THEN NoTask ELSE task[m]]

\* Type I tasks read their sign/mantissa part, Type II tasks have it in memory;
\* the first task of the loop is of Type I if there is one, then they alternate.
ScheduleOne(n) ==
  /\ pc \in {"typeI", "toWorkers"} /\ n \in newQ
  /\ pc = "typeI" /\ (\E m \in newQ : NeedsSm(m)) => NeedsSm(n)
  /\ \/ ToWorkers(n) /\ newQ' = newQ \ {n} /\ pc' = "toWorkers"
     \/ NoDockLeft(n) /\ Unwind(newQ \ {n})
  /\ UNCHANGED <<layer, request, todo, cur, decision, rounds>>
  /\ UNCHANGED <<readyQ, execQ, running, waitVars>>

ScheduleDone ==
  /\ pc \in {"typeI", "toWorkers"} /\ newQ = {}
  /\ pc' = "wait"
  /\ UNCHANGED <<layer, request, todo, cur, decision, rounds>>
  /\ UNCHANGED <<cacheVars, taskVars, opVars, dockVars, waitVars>>

-----------------------------------------------------------------------------
(***************************************************************************)
(* Wait.  The predicate is evaluated under pending_mutex_, which the exec  *)
(* thread never takes: a notification that falls between the evaluation    *)
(* and the sleep ("dozing") wakes nobody.                                  *)
(***************************************************************************)
NextLayer == (layer + 1) % NumLayers

WaitReturns ==
  /\ pc = "wait" /\ pending = 0
  /\ outputs' = [n \in Nodes |-> 0]
  /\ \E P \in SUBSET LayerNodes(NextLayer) :
       Cardinality(P) <= TopK /\ todo' = P
  /\ layer' = NextLayer
  /\ pc' = "prefetch"
  /\ UNCHANGED <<request, cur, decision, rounds, pending>>
  /\ UNCHANGED <<cacheVars, taskVars, opVars, dockVars>>

WaitMove(from, to) ==
  /\ pc = from /\ pc' = to
  /\ UNCHANGED <<layer, request, todo, cur, decision, rounds>>
  /\ UNCHANGED <<cacheVars, taskVars, opVars, dockVars, waitVars>>

WaitDoze      == pending /= 0 /\ WaitMove("wait", "dozing")
WaitSleep     == WaitMove("dozing", "asleep")
SpuriousWake  == WaitMove("asleep", "wait")

\* SubmitPrefetch for each predicted expert of the next layer: the mutex, then
\* the ready queue or the workers.
SubmitLock(n) ==
  /\ pc = "prefetch" /\ n \in todo \ locked
  /\ todo' = todo \ {n} /\ cur' = n
  /\ locked' = locked \cup {n}
  /\ task' = [task EXCEPT ![n] = NewTask(n, "PREFETCH")]
  /\ pc' = "submit"
  /\ UNCHANGED <<gpuPool, smPool, gpuMeta, smMeta, node, now, aborted>>
  /\ UNCHANGED <<layer, request, decision, rounds>>
  /\ UNCHANGED <<newQ, sched, readyQ, execQ, running, opVars, dockVars, waitVars>>

SubmitResident ==
  /\ pc = "submit" /\ Resident(cur)
  /\ readyQ' = Append(readyQ, cur)
  /\ pc' = "prefetch"
  /\ UNCHANGED <<layer, request, todo, cur, decision, rounds>>
  /\ UNCHANGED <<task, newQ, sched, execQ, running>>
  /\ UNCHANGED <<cacheVars, opVars, dockVars, waitVars>>

SubmitToWorkers ==
  /\ pc = "submit" /\ ~Resident(cur)
  /\ \/ ToWorkers(cur) /\ UNCHANGED newQ /\ pc' = "prefetch"
     \/ NoDockLeft(cur) /\ Unwind({})
  /\ UNCHANGED <<layer, request, todo, cur, decision, rounds>>
  /\ UNCHANGED <<readyQ, execQ, running, waitVars>>

SubmitDone ==
  /\ pc = "prefetch" /\ todo = {}
  /\ pc' = "idle"
  /\ UNCHANGED <<layer, request, todo, cur, decision, rounds>>
  /\ UNCHANGED <<cacheVars, taskVars, opVars, dockVars, waitVars>>

-----------------------------------------------------------------------------
(***************************************************************************)
(* The workers.  A worker looks at the preempt token once, when it takes   *)
(* the operation.  It reads and decompresses into a buffer of its own, so  *)
(* the operation's effect is its final copy into the dock (or SM slot).    *)
(***************************************************************************)
Pool(w) == IF w = IoWorker THEN SmOps ELSE ExpOps

WorkerStart(w) ==
  /\ work[w] = NoOp
  /\ \E o \in opQ : /\ o.part \in Pool(w)
                    /\ opQ' = opQ \ {o}
                    /\ work' = [work EXCEPT ![w] = o]
  /\ UNCHANGED <<cacheVars, mainVars, taskVars, dockVars, waitVars>>

\* on_operation_done, and task_ready_notify by the last operation; it needs the
\* scheduled queue's mutex, which the main thread keeps while it cancels.
WorkerFinish(w) ==
  LET o == work[w]  n == o.node  left == task[n].pend - 1 IN
  /\ o /= NoOp /\ o.live /\ pc /= "cancel"
  /\ good' = [good EXCEPT ![n] = @ \cup {o.part}]
  /\ task' = [task EXCEPT ![n].pend = left]
  /\ sched' = IF left = 0 THEN sched \ {n} ELSE sched
  /\ readyQ' = IF left = 0 THEN Append(readyQ, n) ELSE readyQ
  /\ work' = [work EXCEPT ![w] = NoOp]
  /\ UNCHANGED <<newQ, execQ, running, opQ, dockOf, freeDocks, weights, clobbered>>
  /\ UNCHANGED <<cacheVars, mainVars, waitVars>>

\* The operation of a cancelled task still copies its bytes, into a dock that
\* may be somebody else's by now, and finds no task to make ready.
UsesDockPart(m, p) ==
  p \in ExpOps \/ task[m].ptrs /= "sm"

WorkerFinishLate(w) ==
  LET o == work[w]
      hit == {m \in Nodes : /\ dockOf[m] = o.dock /\ m /= o.node
                            /\ UsesDockPart(m, o.part)}
  IN
  /\ o /= NoOp /\ ~o.live
  /\ good' = [m \in Nodes |-> IF m \in hit THEN good[m] \ {o.part} ELSE good[m]]
  /\ clobbered' = clobbered \cup hit
  /\ work' = [work EXCEPT ![w] = NoOp]
  /\ UNCHANGED <<opQ, dockOf, freeDocks, weights>>
  /\ UNCHANGED <<cacheVars, mainVars, taskVars, waitVars>>

-----------------------------------------------------------------------------
\* GPUFetchFunc: everything up to the push to the exec queue happens under
\* ready_queue_mutex.
\* Mutant: every task decodes into its dock.
FetchPtrDock(n) == DockMem

FetchPtr(n) == CASE task[n].ptrs = "none" -> NoMem
                 [] task[n].ptrs = "gpu"  -> gpuPool.slotOf[n]
                 [] task[n].ptrs \in {"sm", "dock"} -> DockMem

OwnBytes(n) ==
  ExpOps \subseteq good[n] /\ (IsLut \/ ~NeedsSm(n) \/ SmOps \subseteq good[n])

Fetch ==
  /\ readyQ /= <<>>
  /\ LET n == Head(readyQ) IN
       /\ FetchDevice(n, task[n].state, FetchPtr(n))
       /\ weights' = IF task[n].ptrs = "none" THEN weights
                     ELSE [weights EXCEPT ![n] = IF OwnBytes(n) THEN "own" ELSE "wrong"]
       /\ IF task[n].state = "PREFETCH"
          THEN /\ FreeDock(n)
               /\ locked' = locked \ {n}
               /\ task' = [task EXCEPT ![n] = NoTask]
               /\ UNCHANGED execQ
          ELSE /\ execQ' = Append(execQ, n)
               /\ UNCHANGED <<dockOf, freeDocks, locked, task>>
  /\ readyQ' = Tail(readyQ)
  /\ UNCHANGED <<gpuPool, gpuMeta, smMeta, now, mainVars, waitVars, opVars>>
  /\ UNCHANGED <<newQ, sched, running, good, clobbered>>

\* GPUExecFunc takes a task, multiplies, and finishes it inline.  The inline
\* copy of OutputFunc does not give the dock back.
ExecStart ==
  /\ running = NoNode /\ execQ /= <<>>
  /\ running' = Head(execQ) /\ execQ' = Tail(execQ)
  /\ UNCHANGED <<task, newQ, sched, readyQ>>
  /\ UNCHANGED <<cacheVars, mainVars, opVars, dockVars, waitVars>>

ExecFinish ==
  /\ running /= NoNode
  /\ FinishDevice(running, task[running].state)
  /\ IF aborted'
     THEN UNCHANGED <<locked, task, outputs, pending, pc, running>>
     ELSE /\ locked' = locked \ {running}
          /\ task' = [task EXCEPT ![running] = NoTask]
          /\ outputs' = [outputs EXCEPT ![running] = @ + 1]
          /\ pending' = pending - 1
          /\ pc' = IF pending' = 0 /\ pc = "asleep" THEN "wait" ELSE pc
          /\ running' = NoNode
  /\ UNCHANGED <<gpuMeta, smMeta, now, layer, request, todo, cur, decision, rounds>>
  /\ UNCHANGED <<newQ, sched, readyQ, execQ, opVars, dockVars>>

-----------------------------------------------------------------------------
MainStep ==
  \/ EnqueueDecide \/ EnqueueScanScheduled \/ EnqueueScanReady \/ EnqueueLock
  \/ OpsSchedule \/ CancelDone \/ ScheduleDone
  \/ WaitReturns \/ WaitDoze \/ WaitSleep
  \/ SubmitResident \/ SubmitToWorkers \/ SubmitDone
  \/ \E n \in Nodes : CancelTask(n) \/ ScheduleOne(n) \/ SubmitLock(n)

WorkerStep(w) == WorkerStart(w) \/ WorkerFinish(w) \/ WorkerFinishLate(w)

ExecStep == ExecStart \/ ExecFinish

Next ==
  /\ ~aborted
  /\ \/ Dispatch \/ MainStep \/ SpuriousWake
     \/ \E w \in Workers : WorkerStep(w)
     \/ Fetch \/ ExecStep

Spec == Init /\ [][Next]_vars

\* Every thread that can take a step eventually does.  Nothing obliges the
\* model to dispatch again, nor a condition variable to wake without cause.
Fairness ==
  /\ WF_vars(~aborted /\ MainStep)
  /\ \A w \in Workers : WF_vars(~aborted /\ WorkerStep(w))
  /\ WF_vars(~aborted /\ Fetch)
  /\ WF_vars(~aborted /\ ExecStep)

FairSpec == Spec /\ Fairness

-----------------------------------------------------------------------------
Ops(n) == {o \in opQ : o.node = n}
          \cup {work[w] : w \in {v \in Workers : work[v].node = n /\ work[v].live}}

\* Types: the one type invariant of the module.
TypeOK ==
  /\ CacheTypeOK
  /\ pc \in PCs /\ layer \in 0 .. NumLayers - 1
  /\ request \subseteq Nodes /\ todo \subseteq Nodes
  /\ cur \in Nodes \cup {NoNode} /\ decision \in States
  /\ task \in [Nodes -> [state : States \cup {"none"}, hit : BOOLEAN, pend : Nat,
                         ptrs : {"none", "gpu", "sm", "dock"}]]
  /\ newQ \subseteq Nodes /\ sched \subseteq Nodes
  /\ SeqSet(readyQ) \subseteq Nodes /\ SeqSet(execQ) \subseteq Nodes
  /\ running \in Nodes \cup {NoNode}
  /\ dockOf \in [Nodes -> 0 .. NumDocks - 1 \cup {NoSlot}]
  /\ good \in [Nodes -> SUBSET (ExpOps \cup SmOps)]
  /\ pending \in Nat /\ outputs \in [Nodes -> Nat] /\ rounds \in 0 .. MaxRounds

(***************************************************************************)
(* Safety.                                                                 *)
(***************************************************************************)
\* When Wait sees pending_ = 0 the output queue holds exactly one result for
\* every expert of the dispatch, and none for any other.
ResultsMatch ==
  pc = "wait" /\ pending = 0 =>
    \A n \in Nodes : outputs[n] = IF n \in request THEN 1 ELSE 0

\* A task holds its node's mutex and is in exactly one place: no task is lost between
\* queues, none is served twice.  A mutex is held without a task only after the dock
\* exception, for an expert of the dispatch that raised it: the tasks that were not
\* scheduled yet are then gone with their mutexes held, but no other task is.
Places(n) ==
  [new |-> n \in newQ, sched |-> n \in sched, ready |-> InSeq(n, readyQ),
   exec |-> InSeq(n, execQ), running |-> running = n,
   submit |-> pc = "submit" /\ cur = n]

HasTask(n) == task[n].state /= "none"

Unwound(n) == n \in locked /\ ~HasTask(n)

TaskInOnePlace == \A n \in Nodes :
  /\ HasTask(n) => n \in locked
  /\ Unwound(n) => pc = "raised" /\ n \in request /\ ~Resident(n)
  /\ HasTask(n) <=> (\E q \in DOMAIN Places(n) : Places(n)[q])
  /\ \A q, r \in DOMAIN Places(n) : Places(n)[q] /\ Places(n)[r] => q = r
  /\ \A q \in {readyQ, execQ} : \A i, j \in 1 .. Len(q) : q[i] = n /\ q[j] = n => i = j

\* The main thread never finds a node's mutex taken when it demands an expert: a
\* prefetch in flight is promoted or fetched by then, because a task moves from the
\* scheduled to the ready queue in the order the two are scanned.  Nor does it when it
\* prefetches one, if there are two sparse layers: the prefetches still in flight are
\* then of the layer that was just served, and those before them were fetched first.
MainNeverBlocks ==
  /\ pc = "lock" => cur \notin locked
  /\ NumLayers > 1 /\ pc = "prefetch" => todo \cap locked = {}

\* A scheduled task waits for exactly the operations that were submitted for it
\* and are not done, so the last of them, and no other, makes it ready.
PendingOpsExact == \A n \in Nodes :
  n \in sched /\ task[n].ptrs /= "none" => /\ task[n].pend = Cardinality(Ops(n))
                                          /\ Ops(n) /= {}

\* Docks: never shared, never both free and assigned, and every operation of a
\* live task writes the dock its node has.
DocksConsistent ==
  /\ \A m, n \in Nodes : dockOf[m] = dockOf[n] /\ dockOf[m] /= NoSlot => m = n
  /\ \A n \in Nodes : dockOf[n] \notin SeqSet(freeDocks)
  /\ \A i, j \in 1 .. Len(freeDocks) : freeDocks[i] = freeDocks[j] => i = j
  /\ \A n \in Nodes : \A o \in Ops(n) : o.dock = dockOf[n]

\* What is decoded for a node is the node's own bytes, unless an operation of a
\* cancelled prefetch wrote the dock after it had gone to this node.
DecodesOwnBytes == \A n \in Nodes :
  Resident(n) /\ weights[n] = "wrong" => n \in clobbered

\* The pipeline drives the cache as ExpertCache allows, so all that is shown of
\* ExpertCache, the proofs included, holds of it.
UseOf(n) ==
  IF n \notin locked THEN "idle"
  ELSE IF running = n \/ InSeq(n, execQ)
  THEN CASE task[n].state = "SMCACHE" -> "runSm"
         [] task[n].state = "EVICT"   -> "runDock"
         [] OTHER                     -> "run"
  ELSE IF task[n].ptrs = "none" THEN "held" ELSE task[n].ptrs

Cache == INSTANCE ExpertCache WITH
  use <- [n \in Nodes |-> UseOf(n)],
  wanted <- {n \in locked : task[n].state /= "PREFETCH"},
  UserTiers <- [n \in Nodes |-> {}], MaxTokens <- 1, MaxMeta <- -1, MaxNow <- 1

ImplementsCache == Cache!Spec

(***************************************************************************)
(* Liveness, under FairSpec.                                               *)
(***************************************************************************)
Stopped == aborted \/ pc = "raised"

\* Nobody is left to release these: the tasks the dock exception destroyed, and the
\* one it left in the scheduled queue without operations.
Stranded(n) ==
  /\ pc = "raised"
  /\ Unwound(n) \/ (n \in sched /\ task[n].ptrs = "none")

\* Every mutex that is taken for a task is released, by the fetch thread, the exec
\* thread or a cancellation, so no EnqueueExpert blocks for ever.  After the dock
\* exception the threads still release every mutex but the stranded ones.
LocksReleased == \A n \in Nodes :
  n \in locked ~> n \notin locked \/ aborted \/ Stranded(n)

\* Every dispatch gets all its results.
DispatchAnswered == (pc = "decide") ~> (pending = 0 \/ Stopped)

\* bindings.cpp:252, "Wait for all the experts to complete and collect the
\* result.": the call returns.
WaitCollects == (pc = "wait") ~> (pc = "prefetch" \/ Stopped)

\* expert_dispatcher.cpp:416-417: the inline output processing is "OutputFunc
\* logic", which returns the node's dock before it unlocks the node.
DocksReturned == \A n \in Nodes : n \notin locked => dockOf[n] = NoSlot
=============================================================================
