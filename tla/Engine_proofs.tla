--------------------------- MODULE Engine_proofs ----------------------------
(* What the tensor engine promises beside the caches.

   EngineThreads: for any workers and any operations, those still queued at the end
   of the process are executed before the pool's destructor returns, and none that
   somebody waits for works in a buffer that ~TensorEngine has freed.

   DenseHooks: for any modules, stages and addresses, the two pointer tables follow
   the tensors, a node's mutex is held exactly while tensors of it are to be
   released, and a module that runs has its weights.                           *)
EXTENDS EngineThreads, DenseHooks, FiniteSetTheorems, TLAPS

-----------------------------------------------------------------------------
PoolStopped == {"notify pool", "join pool", "closed"}
Closing == {"join dispatcher", "close handle", "notify tasks", "join tasks", "stop pool"}
             \cup PoolStopped

TypeInv ==
  /\ opQ \in SUBSET Ops
  /\ doing \in [Workers -> Ops \cup {None}]
  /\ worker \in [Workers -> {"idle", "asleep", "busy", "exited"}]
  /\ readyQ \in Seq(Ops) /\ execQ \in Seq(Ops) /\ pending \in Int
  /\ thread \in [DispatcherThreads -> {"head", "wait", "asleep", "busy", "exited"}]
  /\ gpuThread \in {"wait", "dozing", "asleep", "exited"}
  /\ stop \in SUBSET {"dispatcher", "tasks", "pool"}
  /\ buffers \in BOOLEAN
  /\ main \in {"run", "notify"} \cup Closing
  /\ submitted \in SUBSET Ops /\ finished \in SUBSET Ops /\ onFreed \in SUBSET Ops
  /\ \A w \in Workers : worker[w] = "busy" => doing[w] \in Ops

\* The operations workers have in hand.
Busy == {w \in Workers : worker[w] = "busy"}
InHand == {doing[w] : w \in Busy}

\* Nothing submitted is lost, and a worker leaves an empty queue behind which
\* nothing is added to any more.
Kept ==
  /\ submitted = opQ \cup InHand \cup finished
  /\ "pool" \in stop => main \in PoolStopped
  /\ \A w \in Workers : worker[w] = "exited" => "pool" \in stop /\ opQ = {}
  /\ main = "closed" => \A w \in Workers : worker[w] = "exited"
-----------------------------------------------------------------------------
Elements(q) == {q[i] : i \in 1..Len(q)}
Distinct(q) == \A i, j \in 1..Len(q) : q[i] = q[j] => i = j

\* An operation is in one place at most.
OnePlace ==
  /\ \A v, w \in Busy : doing[v] = doing[w] => v = w
  /\ Distinct(readyQ) /\ Distinct(execQ)
  /\ Elements(readyQ) \cap Elements(execQ) = {}
  /\ Elements(readyQ) \subseteq finished /\ Elements(execQ) \subseteq finished
  /\ opQ \cap InHand = {} /\ finished \cap opQ = {} /\ finished \cap InHand = {}

\* pending_ counts the demanded ones that have not left the exec thread.
Awaited == {op \in Demanded : op \in opQ \cup InHand \cup Elements(readyQ) \cup Elements(execQ)}
Counted ==
  /\ IsFiniteSet(submitted) /\ pending = Cardinality(Awaited)
  /\ Elements(execQ) \subseteq Demanded
  /\ main \in Closing => pending = 0
  /\ ~buffers => main \in {"stop pool"} \cup PoolStopped
  /\ onFreed \cap Demanded = {}

ThreadsInv == TypeInv /\ Kept /\ OnePlace /\ Counted
-----------------------------------------------------------------------------
\* ThreadsInit establishes the invariant.
LEMMA InitInv == ThreadsInit => ThreadsInv
<1> SUFFICES ASSUME ThreadsInit PROVE ThreadsInv
  OBVIOUS
<1> USE DEF ThreadsInit
<1>1. TypeInv
  BY DEF TypeInv, DispatcherThreads
<1>2. Busy = {} /\ InHand = {} /\ Elements(readyQ) = {} /\ Elements(execQ) = {}
  BY DEF Busy, InHand, Elements
<1>3. Kept
  BY <1>2 DEF Kept
<1>4. OnePlace
  BY <1>2 DEF OnePlace, Distinct
<1>5. Awaited = {} /\ IsFiniteSet({}) /\ Cardinality({}) = 0
  BY <1>2, FS_EmptySet DEF Awaited
<1>6. Counted
  BY <1>2, <1>5 DEF Counted, Closing, PoolStopped
<1> QED
  BY <1>1, <1>3, <1>4, <1>6 DEF ThreadsInv

\* What Append and Tail do to the elements of a queue, and to its being distinct.
LEMMA ElementsAppend ==
  ASSUME NEW S, NEW q \in Seq(S), NEW e \in S
  PROVE  /\ Append(q, e) \in Seq(S) /\ Elements(Append(q, e)) = Elements(q) \cup {e}
         /\ Distinct(q) /\ e \notin Elements(q) => Distinct(Append(q, e))
<1> DEFINE r == Append(q, e)
<1>1. /\ r \in Seq(S) /\ Len(r) = Len(q) + 1 /\ Len(q) \in Nat
      /\ \A i \in 1..Len(q) : r[i] = q[i]
      /\ r[Len(q) + 1] = e
  OBVIOUS
<1>2. 1..Len(r) = 1..Len(q) \cup {Len(q) + 1}
  BY <1>1
<1> HIDE DEF r
<1>3. Elements(r) = Elements(q) \cup {e}
  BY <1>1, <1>2 DEF Elements
<1>4. ASSUME Distinct(q), e \notin Elements(q) PROVE Distinct(r)
  <2> SUFFICES ASSUME NEW i \in 1..Len(r), NEW j \in 1..Len(r), r[i] = r[j] PROVE i = j
    BY DEF Distinct
  <2>1. \A m \in 1..Len(q) : r[m] # e
    BY <1>1, <1>4 DEF Elements
  <2> QED
    BY <1>1, <1>2, <1>4, <2>1 DEF Distinct
<1> QED
  BY <1>1, <1>3, <1>4 DEF r

\* Taking the head of a queue takes one element, once if each is there once.
LEMMA ElementsTail ==
  ASSUME NEW S, NEW q \in Seq(S), q # <<>>
  PROVE  /\ Tail(q) \in Seq(S) /\ Head(q) \in S
         /\ Elements(q) = {Head(q)} \cup Elements(Tail(q))
         /\ Distinct(q) => Distinct(Tail(q)) /\ Head(q) \notin Elements(Tail(q))
<1> DEFINE r == Tail(q)
<1>1. /\ r \in Seq(S) /\ Len(q) \in Nat \ {0} /\ Len(r) = Len(q) - 1
      /\ Head(q) = q[1] /\ q[1] \in S
      /\ \A i \in 1..Len(r) : r[i] = q[i + 1]
  OBVIOUS
<1> HIDE DEF r
<1>2. Elements(q) = {q[1]} \cup Elements(r)
  <2>1. ASSUME NEW i \in 1..Len(q), i # 1 PROVE q[i] \in Elements(r)
    <3>1. i - 1 \in 1..Len(r) /\ (i - 1) + 1 = i
      BY <1>1, <2>1
    <3>2. r[i - 1] = q[i]
      BY <1>1, <3>1
    <3> QED
      BY <3>1, <3>2 DEF Elements
  <2>2. ASSUME NEW i \in 1..Len(r) PROVE r[i] \in Elements(q)
    BY <1>1, <2>2 DEF Elements
  <2>3. q[1] \in Elements(q)
    BY <1>1 DEF Elements
  <2>4. ASSUME NEW e \in Elements(q) PROVE e \in {q[1]} \cup Elements(r)
    BY <2>1, <2>4 DEF Elements
  <2>5. ASSUME NEW e \in Elements(r) PROVE e \in Elements(q)
    BY <2>2, <2>5 DEF Elements
  <2> QED
    BY <2>3, <2>4, <2>5
<1>3. ASSUME Distinct(q) PROVE Distinct(r) /\ q[1] \notin Elements(r)
  <2>1. \A i \in 1..Len(r) : i + 1 \in 1..Len(q) /\ 1 \in 1..Len(q) /\ i + 1 # 1
    BY <1>1
  <2>2. Distinct(r)
    <3> SUFFICES ASSUME NEW i \in 1..Len(r), NEW j \in 1..Len(r), r[i] = r[j] PROVE i = j
      BY DEF Distinct
    <3>1. i + 1 = j + 1
      BY <1>1, <1>3, <2>1 DEF Distinct
    <3> QED
      BY <3>1, <1>1
  <2>3. q[1] \notin Elements(r)
    BY <1>1, <1>3, <2>1 DEF Distinct, Elements
  <2> QED
    BY <2>2, <2>3
<1> QED
  BY <1>1, <1>2, <1>3 DEF r

\* A worker that changes neither its operation nor whether it is busy.
LEMMA InHandKept ==
  ASSUME doing' = doing,
         \A w \in Workers : worker'[w] = "busy" <=> worker[w] = "busy"
  PROVE  Busy' = Busy /\ InHand' = InHand
BY DEF Busy, InHand
-----------------------------------------------------------------------------
\* Every step keeps the types.
LEMMA TypeStep == TypeInv /\ [ThreadsNext]_threadsVars => TypeInv'
<1> SUFFICES ASSUME TypeInv, [ThreadsNext]_threadsVars PROVE TypeInv'
  OBVIOUS
<1> USE DEF TypeInv, Closing, PoolStopped
<1>0. {"fetch", "exec", "output"} \subseteq DispatcherThreads
  BY DEF DispatcherThreads
<1>1. ASSUME NEW op \in Ops, AddTask(op) PROVE TypeInv'
  BY <1>1 DEF AddTask
<1>2. CASE NotifyOne
  BY <1>2 DEF NotifyOne
<1>3. ASSUME NEW w \in Workers, WorkerTakes(w) PROVE TypeInv'
  BY <1>3 DEF WorkerTakes
<1>4. ASSUME NEW w \in Workers, WorkerExits(w) PROVE TypeInv'
  BY <1>4 DEF WorkerExits
<1>5. ASSUME NEW w \in Workers, WorkerSleeps(w) PROVE TypeInv'
  BY <1>5 DEF WorkerSleeps
<1>6. ASSUME NEW w \in Workers, WorkerFinishes(w) PROVE TypeInv'
  <2>1. doing[w] \in Ops /\ readyQ' \in Seq(Ops)
    BY <1>6, ElementsAppend DEF WorkerFinishes
  <2> QED
    BY <1>6, <2>1 DEF WorkerFinishes, WakesFetch
<1>7. ASSUME NEW t \in DispatcherThreads, LooksAtFlag(t) \/ FallsAsleep(t)
      PROVE  TypeInv'
  <2>1. thread' \in [DispatcherThreads -> {"head", "wait", "asleep", "busy", "exited"}]
    BY <1>7 DEF LooksAtFlag, FallsAsleep
  <2> QED
    BY <1>7, <2>1 DEF LooksAtFlag, FallsAsleep
<1>8. CASE OutputEnds
  BY <1>0, <1>8 DEF OutputEnds
<1>9. CASE Fetch
  <2>1. readyQ' \in Seq(Ops) /\ Head(readyQ) \in Ops
    BY <1>9, ElementsTail DEF Fetch
  <2>2. execQ' \in Seq(Ops)
    <3>1. Append(execQ, Head(readyQ)) \in Seq(Ops)
      BY <2>1, ElementsAppend
    <3> QED
      BY <1>9, <3>1 DEF Fetch
  <2>3. thread' \in [DispatcherThreads -> {"head", "wait", "asleep", "busy", "exited"}]
    BY <1>0, <1>9 DEF Fetch
  <2> QED
    BY <1>9, <2>1, <2>2, <2>3 DEF Fetch
<1>10. CASE Exec
  <2>1. execQ' \in Seq(Ops)
    BY <1>10, ElementsTail DEF Exec
  <2>2. thread' \in [DispatcherThreads -> {"head", "wait", "asleep", "busy", "exited"}]
    BY <1>0, <1>10 DEF Exec
  <2>3. pending' \in Int
    <3>1. pending \in Int /\ pending' = pending - 1
      BY <1>10 DEF Exec
    <3> HIDE DEF TypeInv
    <3> QED
      BY <3>1
  <2> QED
    BY <1>10, <2>1, <2>2, <2>3 DEF Exec
<1>11. CASE GpuLooks \/ GpuSleeps
  BY <1>11 DEF GpuLooks, GpuSleeps
<1>12. CASE SpuriousWake
  BY <1>12 DEF SpuriousWake
<1>13. CASE CloseDispatcher \/ DispatcherJoined \/ CloseTasks \/ NotifyTasks
  BY <1>13 DEF CloseDispatcher, DispatcherJoined, CloseTasks, NotifyTasks, Goes
<1>14. CASE FreeBuffers \/ StopPool \/ PoolJoined
  BY <1>14 DEF FreeBuffers, StopPool, PoolJoined, Goes
<1>15. CASE NotifyPool
  BY <1>15 DEF NotifyPool, WakesAll, Woken, Goes
<1>16. CASE UNCHANGED threadsVars
  BY <1>16 DEF threadsVars
<1> QED
  BY <1>1, <1>2, <1>3, <1>4, <1>5, <1>6, <1>7, <1>8, <1>9, <1>10, <1>11, <1>12,
     <1>13, <1>14, <1>15, <1>16 DEF ThreadsNext, Main, Worker, Dispatcher, Gpu
-----------------------------------------------------------------------------
\* Taking an operation puts it in hand; finishing it lays it down.
LEMMA HandTakes ==
  ASSUME TypeInv, NEW w \in Workers, NEW op \in Ops, worker[w] = "idle",
         worker' = [worker EXCEPT ![w] = "busy"], doing' = [doing EXCEPT ![w] = op]
  PROVE  /\ Busy' = Busy \cup {w} /\ w \notin Busy /\ InHand' = InHand \cup {op}
         /\ doing'[w] = op /\ \A v \in Busy : doing'[v] = doing[v]
<1>1. Busy' = Busy \cup {w} /\ w \notin Busy
  BY DEF Busy, TypeInv
<1>2. doing'[w] = op /\ \A v \in Busy : doing'[v] = doing[v]
  BY <1>1 DEF Busy, TypeInv
<1>3. InHand' = InHand \cup {op}
  BY <1>1, <1>2 DEF InHand
<1> QED
  BY <1>1, <1>2, <1>3

\* A worker that is done lays down the operation it had.
LEMMA HandLaysDown ==
  ASSUME TypeInv, NEW w \in Workers, WorkerFinishes(w)
  PROVE  /\ Busy' = Busy \ {w} /\ w \in Busy /\ \A v \in Busy' : doing'[v] = doing[v]
         /\ InHand = InHand' \cup {doing[w]} /\ doing[w] \in Ops
         /\ OnePlace => doing[w] \notin InHand'
<1>1. Busy' = Busy \ {w} /\ w \in Busy
  BY DEF Busy, TypeInv, WorkerFinishes
<1>2. doing[w] \in Ops /\ \A v \in Busy' : doing'[v] = doing[v]
  BY <1>1 DEF Busy, TypeInv, WorkerFinishes
<1>3. InHand = InHand' \cup {doing[w]}
  BY <1>1, <1>2 DEF InHand
<1>4. OnePlace => doing[w] \notin InHand'
  BY <1>1, <1>2 DEF InHand, OnePlace
<1> QED
  BY <1>1, <1>2, <1>3, <1>4

\* Actions that neither take nor finish an operation.
LEMMA HandStill ==
  ASSUME TypeInv,
         \/ \E op \in Ops : AddTask(op)
         \/ \E w \in Workers : WorkerExits(w) \/ WorkerSleeps(w)
         \/ \E t \in DispatcherThreads : Dispatcher(t)
         \/ CloseDispatcher \/ Main \/ Gpu \/ SpuriousWake \/ UNCHANGED threadsVars
  PROVE  Busy' = Busy /\ InHand' = InHand
         /\ \A w \in Workers : worker[w] = "exited" => worker'[w] = "exited"
<1> SUFFICES /\ doing' = doing
             /\ \A w \in Workers : /\ worker'[w] = "busy" <=> worker[w] = "busy"
                                   /\ worker[w] = "exited" => worker'[w] = "exited"
  BY InHandKept
<1> USE DEF TypeInv
<1>1. ASSUME NEW op \in Ops, AddTask(op) PROVE doing' = doing /\ worker' = worker
  BY <1>1 DEF AddTask
<1>2. CASE \E w \in Workers : WorkerExits(w) \/ WorkerSleeps(w)
  BY <1>2 DEF WorkerExits, WorkerSleeps
<1>3. ASSUME NEW t \in DispatcherThreads, Dispatcher(t)
      PROVE  doing' = doing /\ worker' = worker
  BY <1>3 DEF Dispatcher, LooksAtFlag, FallsAsleep, OutputEnds, Fetch, Exec
<1>4. CASE NotifyOne
  BY <1>4 DEF NotifyOne
<1>5. CASE NotifyPool
  BY <1>5 DEF NotifyPool, WakesAll, Woken, Goes
<1>6. CASE \/ CloseDispatcher \/ DispatcherJoined \/ CloseTasks \/ NotifyTasks
           \/ FreeBuffers \/ StopPool \/ PoolJoined
  BY <1>6 DEF CloseDispatcher, DispatcherJoined, CloseTasks, NotifyTasks, FreeBuffers,
              StopPool, PoolJoined, Goes
<1>7. CASE Gpu
  BY <1>7 DEF Gpu, GpuLooks, GpuSleeps
<1>8. CASE SpuriousWake
  BY <1>8 DEF SpuriousWake
<1>9. CASE UNCHANGED threadsVars
  BY <1>9 DEF threadsVars
<1> QED
  BY <1>1, <1>2, <1>3, <1>4, <1>5, <1>6, <1>7, <1>8, <1>9 DEF Main

\* No operation is lost, and the workers leave an empty queue behind.
LEMMA KeptStep == TypeInv /\ Kept /\ [ThreadsNext]_threadsVars => Kept'
<1> SUFFICES ASSUME TypeInv, Kept, [ThreadsNext]_threadsVars PROVE Kept'
  OBVIOUS
<1>1. ASSUME NEW op \in Ops, AddTask(op) PROVE Kept'
  <2>1. InHand' = InHand /\ worker' = worker
    BY <1>1, HandStill DEF AddTask
  <2>2. "pool" \notin stop
    BY <1>1 DEF AddTask, Kept, PoolStopped
  <2> QED
    BY <1>1, <2>1, <2>2 DEF AddTask, Kept, PoolStopped
<1>2. ASSUME NEW w \in Workers, WorkerTakes(w) PROVE Kept'
  <2>1. PICK op \in opQ : opQ' = opQ \ {op} /\ doing' = [doing EXCEPT ![w] = op]
    BY <1>2 DEF WorkerTakes
  <2>2. InHand' = InHand \cup {op}
    BY <1>2, <2>1, HandTakes DEF WorkerTakes, TypeInv
  <2>3. \A v \in Workers : worker[v] # "exited" /\ worker'[v] # "exited"
    BY <1>2, <2>1 DEF WorkerTakes, Kept, TypeInv
  <2> QED
    BY <1>2, <2>1, <2>2, <2>3 DEF WorkerTakes, Kept
<1>3. ASSUME NEW w \in Workers, WorkerExits(w) PROVE Kept'
  <2>1. InHand' = InHand
    BY <1>3, HandStill
  <2>2. \A v \in Workers : worker'[v] = "exited" => "pool" \in stop /\ opQ = {}
    BY <1>3 DEF WorkerExits, ExitsDrained, Kept, TypeInv
  <2> QED
    BY <1>3, <2>1, <2>2 DEF WorkerExits, Kept, TypeInv
<1>4. ASSUME NEW w \in Workers, WorkerSleeps(w) PROVE Kept'
  <2>1. InHand' = InHand
    BY <1>4, HandStill
  <2> QED
    BY <1>4, <2>1 DEF WorkerSleeps, Kept, TypeInv
<1>5. ASSUME NEW w \in Workers, WorkerFinishes(w) PROVE Kept'
  <2>1. InHand = InHand' \cup {doing[w]}
    BY <1>5, HandLaysDown
  <2>2. \A v \in Workers : worker'[v] = "exited" <=> worker[v] = "exited"
    BY <1>5 DEF WorkerFinishes, TypeInv
  <2> QED
    BY <1>5, <2>1, <2>2 DEF WorkerFinishes, Kept
<1>6. ASSUME NEW t \in DispatcherThreads, Dispatcher(t) PROVE Kept'
  <2>1. InHand' = InHand
    BY <1>6, HandStill
  <2>2. UNCHANGED <<opQ, worker, stop, main, submitted, finished>>
    BY <1>6 DEF Dispatcher, LooksAtFlag, FallsAsleep, OutputEnds, Fetch, Exec
  <2> QED
    BY <2>1, <2>2 DEF Kept
<1>7. CASE NotifyOne
  <2>1. InHand' = InHand
    BY <1>7, HandStill DEF Main
  <2>2. \A v \in Workers : worker'[v] = "exited" <=> worker[v] = "exited"
    BY <1>7 DEF NotifyOne, TypeInv
  <2> QED
    BY <1>7, <2>1, <2>2 DEF NotifyOne, Kept, PoolStopped
<1>8. CASE CloseDispatcher \/ DispatcherJoined \/ CloseTasks \/ NotifyTasks \/ FreeBuffers
  <2>1. InHand' = InHand
    BY <1>8, HandStill DEF Main
  <2>2. /\ "pool" \notin stop /\ "pool" \notin stop' /\ main' # "closed"
        /\ UNCHANGED <<opQ, worker, submitted, finished>>
    BY <1>8 DEF CloseDispatcher, DispatcherJoined, CloseTasks, NotifyTasks, FreeBuffers,
                Goes, Kept, PoolStopped
  <2> QED
    BY <2>1, <2>2 DEF Kept
<1>9. CASE StopPool \/ PoolJoined
  <2>1. InHand' = InHand
    BY <1>9, HandStill DEF Main
  <2> QED
    BY <1>9, <2>1 DEF StopPool, PoolJoined, Goes, Kept, PoolStopped
<1>10. CASE NotifyPool
  <2>1. InHand' = InHand
    BY <1>10, HandStill DEF Main
  <2>2. \A v \in Workers : worker'[v] = "exited" <=> worker[v] = "exited"
    BY <1>10 DEF NotifyPool, WakesAll, Woken, Goes, TypeInv
  <2> QED
    BY <1>10, <2>1, <2>2 DEF NotifyPool, Goes, Kept, PoolStopped
<1>11. CASE Gpu \/ UNCHANGED threadsVars
  <2>1. InHand' = InHand
    BY <1>11, HandStill
  <2> QED
    BY <1>11, <2>1 DEF Gpu, GpuLooks, GpuSleeps, Kept, threadsVars
<1>12. CASE SpuriousWake
  <2>1. InHand' = InHand
    BY <1>12, HandStill
  <2>2. \A v \in Workers : worker'[v] = "exited" <=> worker[v] = "exited"
    BY <1>12 DEF SpuriousWake, TypeInv
  <2> QED
    BY <1>12, <2>1, <2>2 DEF SpuriousWake, Kept
<1> QED
  BY <1>1, <1>2, <1>3, <1>4, <1>5, <1>6, <1>7, <1>8, <1>9, <1>10, <1>11, <1>12
     DEF ThreadsNext, Main, Worker
-----------------------------------------------------------------------------
\* An operation goes from place to place.
LEMMA PlaceStep ==
  TypeInv /\ Kept /\ OnePlace /\ [ThreadsNext]_threadsVars => OnePlace'
<1> SUFFICES ASSUME TypeInv, Kept, OnePlace, [ThreadsNext]_threadsVars PROVE OnePlace'
  OBVIOUS
<1>1. ASSUME NEW op \in Ops, AddTask(op) PROVE OnePlace'
  <2>1. InHand' = InHand /\ Busy' = Busy
    BY <1>1, HandStill
  <2>2. op \notin submitted /\ opQ' = opQ \cup {op}
        /\ UNCHANGED <<doing, readyQ, execQ, finished>>
    BY <1>1 DEF AddTask
  <2>3. op \notin InHand /\ op \notin finished
    BY <2>2 DEF Kept
  <2> QED
    BY <2>1, <2>2, <2>3 DEF OnePlace, Elements, Distinct
<1>2. ASSUME NEW w \in Workers, WorkerTakes(w) PROVE OnePlace'
  <2>1. PICK op \in opQ : opQ' = opQ \ {op} /\ doing' = [doing EXCEPT ![w] = op]
    BY <1>2 DEF WorkerTakes
  <2>2. /\ Busy' = Busy \cup {w} /\ w \notin Busy /\ InHand' = InHand \cup {op}
        /\ doing'[w] = op /\ \A v \in Busy : doing'[v] = doing[v]
    BY <1>2, <2>1, HandTakes DEF WorkerTakes, TypeInv
  <2>3. op \notin InHand /\ op \notin finished
    BY <2>1 DEF OnePlace
  <2>4. \A v \in Busy : doing[v] # op
    BY <2>3 DEF InHand
  <2>5. \A u, v \in Busy' : doing'[u] = doing'[v] => u = v
    BY <2>2, <2>4 DEF OnePlace
  <2>6. UNCHANGED <<readyQ, execQ, finished>>
    BY <1>2 DEF WorkerTakes
  <2> QED
    BY <2>1, <2>2, <2>3, <2>5, <2>6 DEF OnePlace, Elements, Distinct
<1>3. ASSUME NEW w \in Workers, WorkerFinishes(w) PROVE OnePlace'
  <2>1. /\ Busy' = Busy \ {w} /\ w \in Busy /\ \A v \in Busy' : doing'[v] = doing[v]
        /\ InHand = InHand' \cup {doing[w]} /\ doing[w] \in Ops /\ doing[w] \notin InHand'
    BY <1>3, HandLaysDown
  <2>2. /\ readyQ' = Append(readyQ, doing[w]) /\ finished' = finished \cup {doing[w]}
        /\ UNCHANGED <<opQ, execQ>>
    BY <1>3 DEF WorkerFinishes
  <2>3. doing[w] \notin Elements(readyQ) /\ doing[w] \notin Elements(execQ)
    BY <2>1 DEF OnePlace
  <2>4. Elements(readyQ') = Elements(readyQ) \cup {doing[w]} /\ Distinct(readyQ')
    BY <2>1, <2>2, <2>3, ElementsAppend DEF OnePlace, TypeInv
  <2>5. Elements(execQ') = Elements(execQ) /\ Distinct(execQ')
    BY <2>2 DEF OnePlace
  <2>6. \A u, v \in Busy' : doing'[u] = doing'[v] => u = v
    BY <2>1 DEF OnePlace
  <2>7. opQ \cap InHand' = {} /\ finished' \cap opQ = {} /\ finished' \cap InHand' = {}
    BY <2>1, <2>2 DEF OnePlace
  <2>8. /\ Elements(readyQ') \cap Elements(execQ') = {}
        /\ Elements(readyQ') \subseteq finished' /\ Elements(execQ') \subseteq finished'
    BY <2>2, <2>3, <2>4, <2>5 DEF OnePlace
  <2> QED
    BY <2>2, <2>4, <2>5, <2>6, <2>7, <2>8 DEF OnePlace, Elements, Distinct
<1>4. CASE Fetch
  <2>1. InHand' = InHand /\ Busy' = Busy
    BY <1>4, HandStill DEF Dispatcher, DispatcherThreads
  <2>2. readyQ # <<>> /\ readyQ' = Tail(readyQ) /\ UNCHANGED <<opQ, doing, finished>>
    BY <1>4 DEF Fetch
  <2>3. /\ Elements(readyQ) = {Head(readyQ)} \cup Elements(readyQ')
        /\ Distinct(readyQ') /\ Head(readyQ) \notin Elements(readyQ') /\ Head(readyQ) \in Ops
    BY <2>2, ElementsTail DEF OnePlace, TypeInv
  <2>4. Head(readyQ) \notin Elements(execQ)
    BY <2>3 DEF OnePlace
  <2>5. /\ Distinct(execQ')
        /\ \/ Elements(execQ') = Elements(execQ)
           \/ Elements(execQ') = Elements(execQ) \cup {Head(readyQ)}
    <3>1. CASE execQ' = execQ
      BY <3>1 DEF OnePlace
    <3>2. CASE execQ' = Append(execQ, Head(readyQ))
      BY <3>2, <2>3, <2>4, ElementsAppend DEF OnePlace, TypeInv
    <3> QED
      BY <1>4, <3>1, <3>2 DEF Fetch
  <2>6. /\ Elements(readyQ') \cap Elements(execQ') = {}
        /\ Elements(readyQ') \subseteq finished /\ Elements(execQ') \subseteq finished
    BY <2>3, <2>5 DEF OnePlace
  <2> QED
    BY <2>1, <2>2, <2>3, <2>5, <2>6 DEF OnePlace, Elements, Distinct
<1>5. CASE Exec
  <2>1. InHand' = InHand /\ Busy' = Busy
    BY <1>5, HandStill DEF Dispatcher, DispatcherThreads
  <2>2. execQ # <<>> /\ execQ' = Tail(execQ) /\ UNCHANGED <<opQ, doing, readyQ, finished>>
    BY <1>5 DEF Exec
  <2>3. Elements(execQ') \subseteq Elements(execQ) /\ Distinct(execQ')
    BY <2>2, ElementsTail DEF OnePlace, TypeInv
  <2>4. Distinct(readyQ') /\ Elements(readyQ') = Elements(readyQ)
    BY <2>2 DEF OnePlace
  <2>5. /\ Elements(readyQ') \cap Elements(execQ') = {}
        /\ Elements(readyQ') \subseteq finished' /\ Elements(execQ') \subseteq finished'
    BY <2>2, <2>3, <2>4 DEF OnePlace
  <2> QED
    BY <2>1, <2>2, <2>3, <2>4, <2>5 DEF OnePlace, Elements, Distinct
<1>6. ASSUME /\ UNCHANGED <<opQ, doing, readyQ, execQ, finished>>
             /\ Busy' = Busy /\ InHand' = InHand
      PROVE  OnePlace'
  <2>1. /\ Elements(readyQ') = Elements(readyQ) /\ Elements(execQ') = Elements(execQ)
        /\ Distinct(readyQ') = Distinct(readyQ) /\ Distinct(execQ') = Distinct(execQ)
    BY <1>6
  <2> QED BY <1>6, <2>1 DEF OnePlace
<1>7. CASE \E w \in Workers : WorkerExits(w) \/ WorkerSleeps(w)
  BY <1>6, <1>7, HandStill DEF WorkerExits, WorkerSleeps
<1>8. CASE CloseDispatcher \/ Main \/ Gpu \/ SpuriousWake \/ UNCHANGED threadsVars
  <2>1. UNCHANGED <<opQ, doing, readyQ, execQ, finished>>
    BY <1>8 DEF CloseDispatcher, Main, Gpu, SpuriousWake, threadsVars, NotifyOne,
                DispatcherJoined, CloseTasks, NotifyTasks, FreeBuffers, StopPool, NotifyPool, PoolJoined,
                GpuLooks, GpuSleeps, Goes
  <2> QED
    BY <1>6, <1>8, <2>1, HandStill
<1>9. ASSUME NEW t \in DispatcherThreads, LooksAtFlag(t) \/ FallsAsleep(t) PROVE OnePlace'
  <2>1. UNCHANGED <<opQ, doing, readyQ, execQ, finished>>
    BY <1>9 DEF LooksAtFlag, FallsAsleep
  <2> QED
    BY <1>6, <1>9, <2>1, HandStill DEF Dispatcher
<1>10. CASE OutputEnds
  <2>1. UNCHANGED <<opQ, doing, readyQ, execQ, finished>>
    BY <1>10 DEF OutputEnds
  <2> QED
    BY <1>6, <1>10, <2>1, HandStill DEF Dispatcher, DispatcherThreads
<1> QED
  BY <1>1, <1>2, <1>3, <1>4, <1>5, <1>7, <1>8, <1>9, <1>10
     DEF ThreadsNext, Worker, Dispatcher

\* pending_ follows the demanded operations to the end of the exec thread.
LEMMA CountedStep ==
  TypeInv /\ Kept /\ OnePlace /\ Counted /\ [ThreadsNext]_threadsVars => Counted'
<1> SUFFICES ASSUME TypeInv, Kept, OnePlace, Counted, [ThreadsNext]_threadsVars
             PROVE  Counted'
  OBVIOUS
<1>a. IsFiniteSet(Awaited) /\ Awaited \subseteq submitted
  <2>1. Awaited \subseteq submitted
    BY DEF Awaited, Kept, OnePlace
  <2> QED
    BY <2>1, FS_Subset DEF Counted
<1>1. ASSUME NEW op \in Ops, AddTask(op) PROVE Counted'
  <2>1. InHand' = InHand
    BY <1>1, HandStill
  <2>2. /\ op \notin submitted /\ opQ' = opQ \cup {op} /\ submitted' = submitted \cup {op}
        /\ main = "run" /\ main' = "notify" /\ UNCHANGED <<readyQ, execQ, buffers, onFreed>>
    BY <1>1 DEF AddTask
  <2>3. IsFiniteSet(submitted')
    BY <2>2, FS_AddElement DEF Counted
  <2>4. pending' = Cardinality(Awaited')
    <3>1. CASE op \in Demanded
      <4>1. Awaited' = Awaited \cup {op} /\ op \notin Awaited
        BY <1>a, <2>1, <2>2, <3>1 DEF Awaited, Elements
      <4>2. Cardinality(Awaited') = Cardinality(Awaited) + 1
        BY <1>a, <4>1, FS_AddElement
      <4>3. pending' = pending + 1
        BY <1>1, <3>1 DEF AddTask
      <4> QED
        BY <4>2, <4>3 DEF Counted
    <3>2. CASE op \notin Demanded
      <4>1. Awaited' = Awaited
        BY <2>1, <2>2, <3>2 DEF Awaited, Elements
      <4>2. pending \in Int /\ pending' = pending + 0
        BY <1>1, <3>2 DEF AddTask, TypeInv
      <4>3. pending' = pending
        BY <4>2
      <4> QED
        BY <4>1, <4>3 DEF Counted
    <3> QED
      BY <3>1, <3>2
  <2>5. main' \notin Closing /\ buffers
    BY <2>2 DEF Counted, Closing, PoolStopped
  <2> QED
    BY <2>2, <2>3, <2>4, <2>5 DEF Counted, Elements
<1>2. ASSUME NEW w \in Workers, WorkerTakes(w) PROVE Counted'
  <2>1. PICK op \in opQ : opQ' = opQ \ {op} /\ doing' = [doing EXCEPT ![w] = op]
    BY <1>2 DEF WorkerTakes
  <2>2. InHand' = InHand \cup {op}
    BY <1>2, <2>1, HandTakes DEF WorkerTakes, TypeInv
  <2>3. Awaited' = Awaited
    BY <1>2, <2>1, <2>2 DEF Awaited, Elements, WorkerTakes
  <2> QED
    BY <1>2, <2>3 DEF Counted, Elements, WorkerTakes
<1>3. ASSUME NEW w \in Workers, WorkerFinishes(w) PROVE Counted'
  <2>1. InHand = InHand' \cup {doing[w]} /\ doing[w] \in Ops
    BY <1>3, HandLaysDown
  <2>2. readyQ' = Append(readyQ, doing[w])
        /\ UNCHANGED <<opQ, execQ, submitted, pending, main, buffers>>
    BY <1>3 DEF WorkerFinishes
  <2>3. Elements(readyQ') = Elements(readyQ) \cup {doing[w]}
    BY <2>1, <2>2, ElementsAppend DEF TypeInv
  <2>4. Awaited' = Awaited
    BY <2>1, <2>2, <2>3 DEF Awaited
  <2>5. ASSUME ~buffers PROVE doing[w] \notin Demanded
    <3>1. main \in Closing
      BY <2>5 DEF Counted, Closing
    <3>2. Awaited = {}
      BY <1>a, <3>1, FS_EmptySet DEF Counted
    <3> QED
      BY <2>1, <3>2 DEF Awaited
  <2>6. onFreed' \cap Demanded = {}
    BY <1>3, <2>5 DEF WorkerFinishes, Counted
  <2> QED
    BY <2>2, <2>4, <2>6 DEF Counted, Elements
<1>4. CASE Fetch
  <2>1. InHand' = InHand
    BY <1>4, HandStill DEF Dispatcher, DispatcherThreads
  <2>2. /\ readyQ # <<>> /\ readyQ' = Tail(readyQ)
        /\ UNCHANGED <<opQ, submitted, pending, main, buffers, onFreed>>
    BY <1>4 DEF Fetch
  <2>3. Elements(readyQ) = {Head(readyQ)} \cup Elements(readyQ') /\ Head(readyQ) \in Ops
    BY <2>2, ElementsTail DEF TypeInv
  <2>4. CASE Head(readyQ) \in Demanded
    <3>1. Elements(execQ') = Elements(execQ) \cup {Head(readyQ)}
      <4>1. execQ' = Append(execQ, Head(readyQ))
        BY <1>4, <2>4 DEF Fetch
      <4> QED
        BY <4>1, <2>3, ElementsAppend DEF TypeInv
    <3>2. Awaited' = Awaited
      BY <2>1, <2>2, <2>3, <3>1 DEF Awaited
    <3> QED
      BY <2>2, <2>4, <3>1, <3>2 DEF Counted
  <2>5. CASE Head(readyQ) \notin Demanded
    <3>1. execQ' = execQ
      BY <1>4, <2>5 DEF Fetch
    <3>2. Awaited' = Awaited
      BY <2>1, <2>2, <2>3, <2>5, <3>1 DEF Awaited
    <3> QED
      BY <2>2, <3>1, <3>2 DEF Counted
  <2> QED
    BY <2>4, <2>5
<1>5. CASE Exec
  <2>1. InHand' = InHand
    BY <1>5, HandStill DEF Dispatcher, DispatcherThreads
  <2>2. /\ execQ # <<>> /\ execQ' = Tail(execQ) /\ pending' = pending - 1
        /\ UNCHANGED <<opQ, readyQ, submitted, main, buffers, onFreed>>
    BY <1>5 DEF Exec
  <2>3. /\ Elements(execQ) = {Head(execQ)} \cup Elements(execQ')
        /\ Head(execQ) \notin Elements(execQ')
    BY <2>2, ElementsTail DEF TypeInv, OnePlace
  <2>4. Head(execQ) \in Demanded /\ Head(execQ) \in Awaited
    BY <2>3 DEF Counted, Awaited
  <2>5. Awaited' = Awaited \ {Head(execQ)}
    BY <2>1, <2>2, <2>3 DEF Awaited, OnePlace
  <2>6. Cardinality(Awaited') = Cardinality(Awaited) - 1
    BY <1>a, <2>4, <2>5, FS_RemoveElement
  <2>7. main \notin Closing
    <3>1. Cardinality(Awaited) # 0
      BY <1>a, <2>4, FS_EmptySet
    <3> QED
      BY <3>1 DEF Counted
  <2>8. Elements(execQ') \subseteq Demanded
    BY <2>3 DEF Counted
  <2>9. pending' = Cardinality(Awaited')
    BY <2>2, <2>6 DEF Counted
  <2> QED
    BY <2>2, <2>7, <2>8, <2>9 DEF Counted
<1>6. ASSUME /\ UNCHANGED <<opQ, readyQ, execQ, submitted, pending, onFreed>>
             /\ InHand' = InHand
             /\ main' \in Closing => pending = 0
             /\ ~buffers' => main' \in {"stop pool"} \cup PoolStopped
      PROVE  Counted'
  <2>1. Awaited' = Awaited
    BY <1>6 DEF Awaited, Elements
  <2> QED
    BY <1>6, <2>1 DEF Counted, Elements
<1>7. CASE \E w \in Workers : WorkerExits(w) \/ WorkerSleeps(w)
  <2>1. UNCHANGED <<opQ, readyQ, execQ, submitted, pending, onFreed, main, buffers>>
    BY <1>7 DEF WorkerExits, WorkerSleeps
  <2> QED
    BY <1>6, <1>7, <2>1, HandStill DEF Counted
<1>8. CASE Main \/ CloseDispatcher
  <2>1. UNCHANGED <<opQ, readyQ, execQ, submitted, pending, onFreed>> /\ InHand' = InHand
    <3>1. InHand' = InHand
      BY <1>8, HandStill
    <3> QED
      BY <1>8, <3>1 DEF CloseDispatcher, Main, NotifyOne, DispatcherJoined, CloseTasks,
        NotifyTasks, FreeBuffers, StopPool, NotifyPool, PoolJoined, Goes
  <2>2. CASE NotifyOne
    BY <1>6, <2>1, <2>2 DEF NotifyOne, Counted, Closing, PoolStopped
  <2>3. CASE CloseDispatcher \/ CloseTasks
    <3>1. pending = 0 /\ buffers' = buffers /\ main \notin {"stop pool"} \cup PoolStopped
      BY <2>3 DEF CloseDispatcher, CloseTasks, Answered, Goes, Counted, Closing, PoolStopped
    <3> QED
      BY <1>6, <2>1, <3>1 DEF Counted
  <2>4. CASE DispatcherJoined \/ NotifyTasks \/ FreeBuffers \/ StopPool \/ NotifyPool
             \/ PoolJoined
    <3>1. pending = 0
      BY <2>4 DEF DispatcherJoined, NotifyTasks, FreeBuffers, StopPool, NotifyPool,
        PoolJoined, Goes, Counted, Closing, PoolStopped
    <3>2. ~buffers' => main' \in {"stop pool"} \cup PoolStopped
      BY <2>4 DEF DispatcherJoined, NotifyTasks, FreeBuffers, StopPool, NotifyPool,
        PoolJoined, Goes, Counted, PoolStopped
    <3> QED
      BY <1>6, <2>1, <3>1, <3>2
  <2> QED
    BY <1>8, <2>2, <2>3, <2>4 DEF Main
<1>9. CASE Gpu \/ SpuriousWake \/ UNCHANGED threadsVars
  <2>1. UNCHANGED <<opQ, readyQ, execQ, submitted, pending, onFreed, main, buffers>>
    BY <1>9 DEF Gpu, GpuLooks, GpuSleeps, SpuriousWake, threadsVars
  <2> QED
    BY <1>6, <1>9, <2>1, HandStill DEF Counted
<1>10. ASSUME NEW t \in DispatcherThreads,
              LooksAtFlag(t) \/ FallsAsleep(t) \/ (t = "output" /\ OutputEnds)
       PROVE  Counted'
  <2>1. UNCHANGED <<opQ, readyQ, execQ, submitted, pending, onFreed, main, buffers>>
    BY <1>10 DEF LooksAtFlag, FallsAsleep, OutputEnds
  <2> QED
    BY <1>6, <1>10, <2>1, HandStill DEF Counted, Dispatcher
<1> QED
  BY <1>1, <1>2, <1>3, <1>4, <1>5, <1>7, <1>8, <1>9, <1>10
     DEF ThreadsNext, Worker, Dispatcher
-----------------------------------------------------------------------------
\* The inductive invariant holds in every reachable state, for any workers and any
\* operations.
THEOREM ThreadsInvariance == ThreadsSpec => []ThreadsInv
<1>1. ThreadsInv /\ [ThreadsNext]_threadsVars => ThreadsInv'
  BY TypeStep, KeptStep, PlaceStep, CountedStep DEF ThreadsInv
<1> QED
  BY <1>1, InitInv, PTL DEF ThreadsSpec

\* If the pool has a worker, operations still queued when its destructor runs are
\* executed before that returns.
THEOREM NothingDropped == ASSUME Workers # {} PROVE ThreadsSpec => []NoneDropped
<1>1. ThreadsInv => NoneDropped
  <2> SUFFICES ASSUME ThreadsInv, main = "closed" PROVE finished = submitted
    BY DEF NoneDropped
  <2>1. opQ = {}
    BY DEF ThreadsInv, Kept
  <2>2. InHand = {}
    BY DEF ThreadsInv, Kept, InHand, Busy
  <2> QED
    BY <2>1, <2>2 DEF ThreadsInv, Kept
<1> QED
  BY <1>1, ThreadsInvariance, PTL

\* What works in a buffer ~TensorEngine has freed is an operation of a prefetch.
THEOREM OnlyPrefetchesOnFreed == ThreadsSpec => []FreedUnderPrefetchOnly
<1>1. ThreadsInv => FreedUnderPrefetchOnly
  BY DEF ThreadsInv, Counted, FreedUnderPrefetchOnly
<1> QED
  BY <1>1, ThreadsInvariance, PTL

-----------------------------------------------------------------------------
TensorsIn(m) == {TensorsOf[m][j] : j \in DOMAIN TensorsOf[m]}

HooksTypes ==
  /\ ptr \in [DenseTensors -> Heap \cup Range(WeightsAt)]
  /\ toRelease \in [Nodes -> SUBSET DenseTensors]
  /\ heldNodes \in SUBSET Nodes /\ inExec \in SUBSET Nodes
  /\ leaf \in Leaves /\ k \in DOMAIN TensorsOf[leaf]
  /\ phase \in {"pre", "forward", "post", "called"}
  /\ phase \in {"forward", "called"} => k = 1

\* No two tensors are at one address: each is at a placeholder or at its weights.
Placed == /\ IsInjective(ptr)
          /\ \A t \in DenseTensors : ptr[t] \in Heap \/ ptr[t] = WeightsAt[t]

\* The last release was of the last layer; the first is of layer 0.
LastRelease ==
  \/ lastNode = lastLayer /\ lastNode \in Nodes
  \/ /\ lastNode = NoNode /\ lastLayer = 0 /\ LayerOf[leaf] = 0
     /\ phase # "called" /\ (phase = "post" => k = 1)

\* The tensors of a module are to be released all or none; while its hooks release
\* them, those still ahead or none.
AllOrNone ==
  /\ \A m \in Leaves : m # leaf \/ phase # "post" =>
       \/ TensorsIn(m) \subseteq toRelease[LayerOf[m]]
       \/ TensorsIn(m) \cap toRelease[LayerOf[m]] = {}
  /\ phase = "post" =>
       \/ TensorsIn(leaf) \cap toRelease[LayerOf[leaf]]
            = {TensorsOf[leaf][j] : j \in k..Len(TensorsOf[leaf])}
       \/ TensorsIn(leaf) \cap toRelease[LayerOf[leaf]] = {}

\* From the first tensor acquired to the last released its node has one to release.
InUse == phase \in {"forward", "post"} \/ (phase = "pre" /\ k # 1)
           => toRelease[LayerOf[leaf]] # {}

\* The hook before the forward has brought the weights of the tensors it is past.
Brought == phase = "pre" => \A j \in 1..(k - 1) :
             ptr[TensorsOf[leaf][j]] = WeightsAt[TensorsOf[leaf][j]]

HooksInv == /\ HooksTypes /\ Placed /\ LastRelease /\ AllOrNone /\ InUse /\ Brought
            /\ PointersFollow /\ HeldWhilePending /\ RunsOnWeights
-----------------------------------------------------------------------------
\* What the assumptions say of one module and of its node.
LEMMA ModuleFacts ==
  ASSUME NEW m \in Leaves
  PROVE  /\ Len(TensorsOf[m]) \in Nat \ {0} /\ DOMAIN TensorsOf[m] = 1..Len(TensorsOf[m])
         /\ \A j \in DOMAIN TensorsOf[m] : TensorsOf[m][j] \in DenseTensors
         /\ LayerOf[m] \in Nodes /\ LayerOf[m] \in Nat
         /\ TensorsIn(m) \subseteq NodeTensors(LayerOf[m]) /\ TensorsIn(m) # {}
         /\ \A j \in DOMAIN TensorsOf[m] : NodeOf(TensorsOf[m][j]) = LayerOf[m]
<1>1. TensorsOf[m] \in Seq(DenseTensors) /\ TensorsOf[m] # <<>>
  BY HooksAssumption DEF HooksAssumption
<1>2. Len(TensorsOf[m]) \in Nat \ {0} /\ DOMAIN TensorsOf[m] = 1..Len(TensorsOf[m])
      /\ \A j \in DOMAIN TensorsOf[m] : TensorsOf[m][j] \in DenseTensors
  BY <1>1
<1>3. LayerOf[m] \in Nodes /\ LayerOf[m] \in Nat
  BY HooksAssumption DEF HooksAssumption, Nodes
<1>4. ASSUME NEW j \in DOMAIN TensorsOf[m] PROVE NodeOf(TensorsOf[m][j]) = LayerOf[m]
  <2> DEFINE P(o) == \E i \in DOMAIN TensorsOf[o] : TensorsOf[o][i] = TensorsOf[m][j]
  <2>1. \A o \in Leaves : P(o) <=> o = m
    BY <1>4, HooksAssumption DEF HooksAssumption
  <2>2. (CHOOSE o \in Leaves : P(o)) = m
    BY <2>1
  <2> QED
    BY <2>2 DEF NodeOf
<1>5. TensorsIn(m) \subseteq NodeTensors(LayerOf[m])
  BY <1>2, <1>4 DEF TensorsIn, NodeTensors
<1>6. TensorsOf[m][1] \in TensorsIn(m)
  BY <1>2 DEF TensorsIn
<1> QED
  BY <1>2, <1>3, <1>4, <1>5, <1>6

\* Every stage of the modules has tensors of its own.
LEMMA NodeFacts ==
  /\ Nodes \subseteq Nat /\ NoNode \notin Nodes
  /\ \A n \in Nodes : NodeTensors(n) # {} /\ NodeTensors(n) \subseteq DenseTensors
<1>1. ASSUME NEW n \in Nodes PROVE n \in Nat /\ NodeTensors(n) # {}
  <2>1. PICK m \in Leaves : n = LayerOf[m]
    BY DEF Nodes
  <2> QED
    BY <2>1, ModuleFacts
<1> QED
  BY <1>1 DEF NoNode, NodeTensors

\* The inverse of an injective table.
LEMMA InverseFacts ==
  ASSUME NEW f, IsInjective(f)
  PROVE  /\ DOMAIN AntiFunction(f) = Range(f)
         /\ \A t \in DOMAIN f : f[t] \in Range(f) /\ AntiFunction(f)[f[t]] = t
<1> DEFINE h == AntiFunction(f)
<1>1. h = [a \in Range(f) |-> CHOOSE s \in DOMAIN f : a \in Range(f) => f[s] = a]
  BY DEF AntiFunction, Inverse
<1>2. ASSUME NEW t \in DOMAIN f PROVE f[t] \in Range(f) /\ h[f[t]] = t
  <2>1. f[t] \in Range(f)
    BY DEF Range
  <2>2. h[f[t]] = CHOOSE s \in DOMAIN f : f[t] \in Range(f) => f[s] = f[t]
    BY <1>1, <2>1
  <2>3. h[f[t]] \in DOMAIN f /\ f[h[f[t]]] = f[t]
    BY <2>1, <2>2
  <2> QED
    BY <2>1, <2>3 DEF IsInjective
<1>3. DOMAIN h = Range(f)
  BY <1>1
<1> QED
  BY <1>2, <1>3

\* A table that leads back from each address is the inverse.
LEMMA InverseUnique ==
  ASSUME NEW f, IsInjective(f), NEW g, g = [a \in DOMAIN g |-> g[a]], DOMAIN g = Range(f),
         \A t \in DOMAIN f : g[f[t]] = t
  PROVE  g = AntiFunction(f)
<1> DEFINE h == AntiFunction(f)
<1>1. h = [a \in DOMAIN h |-> h[a]]
  BY DEF AntiFunction, Inverse
<1>2. DOMAIN h = Range(f) /\ \A t \in DOMAIN f : h[f[t]] = t
  BY InverseFacts
<1> HIDE DEF h
<1>3. \A a \in Range(f) : g[a] = h[a]
  BY <1>2 DEF Range
<1>4. g = h
  BY <1>1, <1>2, <1>3
<1> QED
  BY <1>4 DEF h

\* A tensor moves to an address no other tensor has, and both tables follow.
LEMMA MoveFollows ==
  ASSUME HooksTypes, Placed, PointersFollow, NEW t \in DenseTensors,
         NEW a \in Heap \cup Range(WeightsAt), a \notin Range(ptr) \/ a = ptr[t],
         a \in Heap \/ a = WeightsAt[t],
         ptr' = [ptr EXCEPT ![t] = a], idAt' = Moved(ptr[t], a),
         offload' = (offload \ {ptr[t]}) \cup {a}
  PROVE  PointersFollow' /\ Placed' /\ ptr' \in [DenseTensors -> Heap \cup Range(WeightsAt)]
         /\ ptr'[t] = a /\ \A u \in DenseTensors : u # t => ptr'[u] = ptr[u]
<1>1. /\ ptr \in [DenseTensors -> Heap \cup Range(WeightsAt)] /\ IsInjective(ptr)
      /\ DOMAIN ptr = DenseTensors
  BY DEF HooksTypes, Placed
<1>2. /\ ptr' \in [DenseTensors -> Heap \cup Range(WeightsAt)] /\ ptr'[t] = a
      /\ \A u \in DenseTensors : u # t => ptr'[u] = ptr[u]
  BY <1>1
<1>3. \A u \in DenseTensors : u # t => ptr[u] # a /\ ptr[u] # ptr[t]
  <2> SUFFICES ASSUME NEW u \in DenseTensors, u # t PROVE ptr[u] # a /\ ptr[u] # ptr[t]
    OBVIOUS
  <2>1. ptr[u] # ptr[t]
    BY <1>1 DEF IsInjective
  <2>2. ptr[u] \in Range(ptr)
    BY <1>1 DEF Range
  <2> QED
    BY <2>1, <2>2
<1>4. IsInjective(ptr')
  BY <1>1, <1>2, <1>3 DEF IsInjective
<1>5. Placed'
  BY <1>2, <1>4 DEF Placed
<1>6. Range(ptr') = (Range(ptr) \ {ptr[t]}) \cup {a}
  <2>1. DOMAIN ptr' = DenseTensors
    BY <1>2
  <2>2. ASSUME NEW b \in Range(ptr') PROVE b \in (Range(ptr) \ {ptr[t]}) \cup {a}
    <3>1. PICK u \in DenseTensors : b = ptr'[u]
      BY <2>1, <2>2 DEF Range
    <3> QED
      BY <1>1, <1>2, <1>3, <3>1 DEF Range
  <2>3. ASSUME NEW b \in Range(ptr), b # ptr[t] PROVE b \in Range(ptr')
    <3>1. PICK u \in DenseTensors : b = ptr[u]
      BY <1>1 DEF Range
    <3>2. u # t /\ ptr'[u] = b
      BY <1>2, <2>3, <3>1
    <3> QED
      BY <2>1, <3>2 DEF Range
  <2>4. a \in Range(ptr')
    BY <1>2, <2>1 DEF Range
  <2> QED
    BY <2>2, <2>3, <2>4
<1>7. /\ DOMAIN idAt = Range(ptr)
      /\ \A u \in DenseTensors : idAt[ptr[u]] = u /\ ptr[u] \in Range(ptr)
  BY <1>1, InverseFacts DEF PointersFollow
<1>8. /\ idAt' = [b \in DOMAIN idAt' |-> idAt'[b]] /\ DOMAIN idAt' = Range(ptr')
      /\ \A u \in DenseTensors : idAt'[ptr'[u]] = u
  <2> DEFINE others == Range(ptr) \ {ptr[t]}
  <2>1. idAt' = [b \in others \cup {a} |-> IF b \in others THEN idAt[b] ELSE idAt[ptr[t]]]
    BY <1>7 DEF Moved
  <2>2. a \notin others
    OBVIOUS
  <2>3. \A u \in DenseTensors : u # t => ptr[u] \in others
    BY <1>3, <1>7
  <2>4. idAt'[a] = t
    BY <1>7, <2>1, <2>2
  <2>5. \A u \in DenseTensors : u # t => idAt'[ptr[u]] = u
    BY <1>7, <2>1, <2>3
  <2>6. DOMAIN idAt' = others \cup {a} /\ idAt' = [b \in DOMAIN idAt' |-> idAt'[b]]
    BY <2>1
  <2> QED
    BY <1>2, <1>6, <2>4, <2>5, <2>6
<1>9. idAt' = AntiFunction(ptr')
  <2> DEFINE p == ptr'
             g == idAt'
  <2>1. DOMAIN p = DenseTensors /\ IsInjective(p)
    BY <1>2, <1>4
  <2>2. /\ g = [b \in DOMAIN g |-> g[b]] /\ DOMAIN g = Range(p)
        /\ \A u \in DenseTensors : g[p[u]] = u
    BY <1>8
  <2> HIDE DEF p, g
  <2>3. g = AntiFunction(p)
    BY <2>1, <2>2, InverseUnique
  <2> QED
    BY <2>3 DEF p, g
<1>10. offload' = Range(ptr')
  BY <1>6 DEF PointersFollow
<1> QED
  BY <1>2, <1>5, <1>9, <1>10 DEF PointersFollow
-----------------------------------------------------------------------------
\* Init establishes the invariant: no tensor is acquired, no two share an address.
LEMMA HooksStart == HooksInit => HooksInv
<1> SUFFICES ASSUME HooksInit PROVE HooksInv
  OBVIOUS
<1>1. ptr \in [DenseTensors -> Heap] /\ IsInjective(ptr) /\ DOMAIN ptr = DenseTensors
  BY HooksAssumption DEF HooksInit, HooksAssumption
<1>2. leaf \in Leaves /\ LayerOf[leaf] = 0 /\ k = 1 /\ phase = "pre"
      /\ toRelease = [n \in Nodes |-> {}] /\ heldNodes = {} /\ inExec = {}
      /\ lastNode = NoNode /\ lastLayer = 0 /\ fault = "none"
  BY DEF HooksInit
<1>3. 1 \in DOMAIN TensorsOf[leaf]
  BY <1>2, ModuleFacts
<1>4. HooksTypes
  BY <1>1, <1>2, <1>3 DEF HooksTypes
<1>5. Placed /\ LastRelease /\ InUse /\ Brought /\ RunsOnWeights
  BY <1>1, <1>2 DEF Placed, LastRelease, InUse, Brought, RunsOnWeights
<1>6. AllOrNone
  BY <1>2, ModuleFacts DEF AllOrNone
<1>7. PointersFollow
  BY DEF HooksInit, PointersFollow
<1>8. HeldWhilePending
  BY <1>2 DEF HeldWhilePending
<1> QED
  BY <1>4, <1>5, <1>6, <1>7, <1>8 DEF HooksInv

\* The first tensor of a node that is acquired locks it, and all are to be released.
LEMMA Acquired ==
  ASSUME HooksTypes, HeldWhilePending, NEW n \in Nodes, Acquire(n)
  PROVE  /\ toRelease' \in [Nodes -> SUBSET DenseTensors]
         /\ heldNodes' \in SUBSET Nodes /\ inExec' \in SUBSET Nodes
         /\ toRelease'[n] = (IF toRelease[n] = {} THEN NodeTensors(n) ELSE toRelease[n])
         /\ toRelease'[n] # {}
         /\ \A x \in Nodes : x # n => toRelease'[x] = toRelease[x]
         /\ HeldWhilePending'
<1>1. CASE toRelease[n] = {}
  <2>1. /\ toRelease' = [toRelease EXCEPT ![n] = NodeTensors(n)]
        /\ heldNodes' = heldNodes \cup {n} /\ inExec' = inExec \cup {n}
        /\ fault' = IF n \in heldNodes THEN "locks twice" ELSE fault
    BY <1>1 DEF Acquire, Locks
  <2>2. NodeTensors(n) # {} /\ NodeTensors(n) \in SUBSET DenseTensors
    BY NodeFacts
  <2>3. fault' = "none"
    BY <1>1, <2>1 DEF HeldWhilePending
  <2>4. /\ toRelease' \in [Nodes -> SUBSET DenseTensors] /\ toRelease'[n] = NodeTensors(n)
        /\ \A x \in Nodes : x # n => toRelease'[x] = toRelease[x]
    BY <2>1, <2>2 DEF HooksTypes
  <2> QED
    BY <1>1, <2>1, <2>2, <2>3, <2>4 DEF HooksTypes, HeldWhilePending
<1>2. CASE toRelease[n] # {}
  BY <1>2 DEF Acquire, HeldWhilePending, HooksTypes
<1> QED
  BY <1>1, <1>2

\* A release takes one tensor off its node, and may let go of the last node.
LEMMA Released ==
  ASSUME HooksTypes, LastRelease, HeldWhilePending, phase = "post",
         NEW n \in Nodes, n = LayerOf[leaf], toRelease[n] # {}, NEW t, Release(n, t)
  PROVE  /\ toRelease' \in [Nodes -> SUBSET DenseTensors]
         /\ heldNodes' \in SUBSET Nodes /\ inExec' \in SUBSET Nodes
         /\ toRelease'[n] = toRelease[n] \ {t}
         /\ \A x \in Nodes : x # n => toRelease'[x] = toRelease[x] \/ toRelease'[x] = {}
         /\ lastNode' = n /\ lastLayer' = n
         /\ HeldWhilePending'
<1> DEFINE p1 == IF Forced(n) THEN [toRelease EXCEPT ![lastNode] = {}] ELSE toRelease
           h1 == IF Forced(n) THEN heldNodes \ {lastNode} ELSE heldNodes
           e1 == IF Forced(n) THEN inExec \ {lastNode} ELSE inExec
           p2 == [p1 EXCEPT ![n] = @ \ {t}]
<1>1. /\ toRelease' = p2 /\ lastNode' = n /\ lastLayer' = n
      /\ heldNodes' = (IF p2[n] = {} THEN h1 \ {n} ELSE h1)
      /\ inExec' = (IF p2[n] = {} THEN e1 \ {n} ELSE e1)
      /\ fault' = CASE n # lastLayer /\ lastNode = NoNode -> "no last node"
                    [] Forced(n) /\ lastNode \notin heldNodes -> "unlocks twice"
                    [] p2[n] = {} /\ n \notin h1 -> "unlocks twice"
                    [] OTHER -> fault
  BY DEF Release, ForcedHeld
<1>2. ~(n # lastLayer /\ lastNode = NoNode)
  BY NodeFacts DEF LastRelease
<1>3. ASSUME Forced(n)
      PROVE  /\ lastNode \in Nodes /\ lastNode # n /\ lastNode \in heldNodes
  BY <1>3 DEF Forced, LastRelease, HeldWhilePending
<1>4. /\ p1 \in [Nodes -> SUBSET DenseTensors] /\ p1[n] = toRelease[n]
      /\ \A x \in Nodes : x # n => p1[x] = toRelease[x] \/ p1[x] = {}
      /\ \A x \in Nodes : (x \in h1 <=> p1[x] # {}) /\ (x \in h1 <=> x \in e1)
      /\ h1 \in SUBSET Nodes /\ e1 \in SUBSET Nodes
  BY <1>3 DEF HooksTypes, HeldWhilePending
<1> HIDE DEF p1, h1, e1
<1>5. n \in h1
  BY <1>4
<1>6. fault' = "none"
  <2>1. fault = "none"
    BY DEF HeldWhilePending
  <2> QED
    BY <1>1, <1>2, <1>3, <1>5, <2>1
<1>7. /\ p2 \in [Nodes -> SUBSET DenseTensors] /\ p2[n] = toRelease[n] \ {t}
      /\ \A x \in Nodes : x # n => p2[x] = p1[x]
  BY <1>4
<1> HIDE DEF p2
<1>8. \A x \in Nodes : /\ x \in heldNodes' <=> toRelease'[x] # {}
                       /\ x \in heldNodes' <=> x \in inExec'
  BY <1>1, <1>4, <1>5, <1>7
<1>9. heldNodes' \in SUBSET Nodes /\ inExec' \in SUBSET Nodes
  BY <1>1, <1>4
<1> QED
  BY <1>1, <1>4, <1>6, <1>7, <1>8, <1>9 DEF HeldWhilePending

\* What the hook is at: a tensor of the module called, whose pointer the engine knows.
LEMMA CurrentFacts ==
  ASSUME HooksInv
  PROVE  /\ Current \in DenseTensors /\ Current \in TensorsIn(leaf)
         /\ NodeOf(Current) = LayerOf[leaf]
         /\ ptr[Current] \in offload /\ ptr[Current] \in DOMAIN idAt
         /\ idAt[ptr[Current]] = Current
<1>1. leaf \in Leaves /\ k \in DOMAIN TensorsOf[leaf]
  BY DEF HooksInv, HooksTypes
<1>2. /\ Current \in DenseTensors /\ Current \in TensorsIn(leaf)
      /\ NodeOf(Current) = LayerOf[leaf]
  BY <1>1, ModuleFacts DEF Current, TensorsIn
<1>3. DOMAIN ptr = DenseTensors /\ IsInjective(ptr)
  BY DEF HooksInv, HooksTypes, Placed
<1>4. /\ DOMAIN idAt = Range(ptr) /\ offload = Range(ptr)
      /\ \A t \in DenseTensors : ptr[t] \in Range(ptr) /\ idAt[ptr[t]] = t
  BY <1>3, InverseFacts DEF HooksInv, PointersFollow
<1> QED
  BY <1>2, <1>4

\* Distinct places in a module's list have distinct tensors, and no two modules share one.
LEMMA OwnTensors ==
  ASSUME NEW m \in Leaves, NEW o \in Leaves,
         NEW i \in DOMAIN TensorsOf[m], NEW j \in DOMAIN TensorsOf[o],
         TensorsOf[m][i] = TensorsOf[o][j]
  PROVE  m = o /\ i = j
BY HooksAssumption DEF HooksAssumption

\* The hook before the forward.
LEMMA PreStep == HooksInv /\ phase = "pre" /\ HookStep => HooksInv'
<1> SUFFICES ASSUME HooksInv, phase = "pre", HookStep PROVE HooksInv'
  OBVIOUS
<1> DEFINE t == Current
           n == LayerOf[leaf]
<1>1. /\ leaf \in Leaves /\ k \in 1..Len(TensorsOf[leaf]) /\ Len(TensorsOf[leaf]) \in Nat \ {0}
      /\ DOMAIN TensorsOf[leaf] = 1..Len(TensorsOf[leaf])
      /\ n \in Nodes /\ TensorsIn(leaf) \subseteq NodeTensors(n)
  BY ModuleFacts DEF HooksInv, HooksTypes
<1>2. /\ t \in DenseTensors /\ t \in TensorsIn(leaf) /\ NodeOf(t) = n /\ ptr[t] \in offload
      /\ ptr[t] \in DOMAIN idAt /\ idAt[ptr[t]] = t
  BY CurrentFacts
<1>3. /\ Begin(t) /\ UNCHANGED <<leaf, layer, passes>>
      /\ IF k < Len(TensorsOf[leaf]) THEN k' = k + 1 /\ phase' = "pre"
                                     ELSE k' = 1 /\ phase' = "forward"
  BY DEF HookStep
<1>4. /\ Acquire(n) /\ ptr' = [ptr EXCEPT ![t] = WeightsAt[t]]
      /\ idAt' = Moved(ptr[t], ptr'[t]) /\ offload' = (offload \ {ptr[t]}) \cup {ptr'[t]}
      /\ UNCHANGED <<lastNode, lastLayer>>
  BY <1>2, <1>3 DEF Begin
<1> HIDE DEF t, n
<1>5. ptr \in [DenseTensors -> Heap \cup Range(WeightsAt)] /\ DOMAIN WeightsAt = DenseTensors
  BY HooksAssumption DEF HooksInv, HooksTypes, HooksAssumption
<1>6. ptr'[t] = WeightsAt[t] /\ WeightsAt[t] \in Range(WeightsAt)
  BY <1>2, <1>4, <1>5 DEF Range
<1>7. WeightsAt[t] \notin Range(ptr) \/ WeightsAt[t] = ptr[t]
  <2> SUFFICES ASSUME NEW u \in DenseTensors, ptr[u] = WeightsAt[t] PROVE u = t
    BY <1>5 DEF Range
  <2>1. ptr[u] \notin Heap
    BY <1>6, HooksAssumption DEF HooksAssumption
  <2>2. WeightsAt[u] = WeightsAt[t]
    BY <2>1 DEF HooksInv, Placed
  <2> QED
    BY <1>2, <1>5, <2>2, HooksAssumption DEF HooksAssumption, IsInjective
<1>8. /\ PointersFollow' /\ Placed' /\ ptr' \in [DenseTensors -> Heap \cup Range(WeightsAt)]
      /\ \A u \in DenseTensors : u # t => ptr'[u] = ptr[u]
  BY <1>2, <1>4, <1>6, <1>7, MoveFollows DEF HooksInv
<1>9. /\ toRelease' \in [Nodes -> SUBSET DenseTensors]
      /\ heldNodes' \in SUBSET Nodes /\ inExec' \in SUBSET Nodes
      /\ toRelease'[n] = (IF toRelease[n] = {} THEN NodeTensors(n) ELSE toRelease[n])
      /\ toRelease'[n] # {}
      /\ \A x \in Nodes : x # n => toRelease'[x] = toRelease[x]
      /\ HeldWhilePending'
  BY <1>1, <1>4, Acquired DEF HooksInv
<1>10. /\ k' \in DOMAIN TensorsOf[leaf] /\ phase' \in {"pre", "forward"}
       /\ phase' = "forward" => k' = 1 /\ k = Len(TensorsOf[leaf])
       /\ phase' = "pre" => k' = k + 1
  BY <1>1, <1>3
<1>11. HooksTypes'
  BY <1>1, <1>3, <1>8, <1>9, <1>10 DEF HooksTypes
<1>12. LastRelease'
  BY <1>3, <1>4, <1>10 DEF HooksInv, LastRelease
<1>13. AllOrNone'
  <2> SUFFICES ASSUME NEW m \in Leaves
               PROVE  \/ TensorsIn(m) \subseteq toRelease'[LayerOf[m]]
                      \/ TensorsIn(m) \cap toRelease'[LayerOf[m]] = {}
    BY <1>10 DEF AllOrNone, TensorsIn
  <2>1. \/ TensorsIn(m) \subseteq toRelease[LayerOf[m]]
        \/ TensorsIn(m) \cap toRelease[LayerOf[m]] = {}
    BY DEF HooksInv, AllOrNone
  <2>2. LayerOf[m] \in Nodes /\ TensorsIn(m) \subseteq NodeTensors(LayerOf[m])
    BY ModuleFacts
  <2> QED
    BY <1>9, <2>1, <2>2
<1>14. InUse'
  BY <1>3, <1>9, <1>10 DEF InUse, n
<1>15. \A j \in 1..k : ptr'[TensorsOf[leaf][j]] = WeightsAt[TensorsOf[leaf][j]]
  <2> SUFFICES ASSUME NEW j \in 1..k
               PROVE  ptr'[TensorsOf[leaf][j]] = WeightsAt[TensorsOf[leaf][j]]
    OBVIOUS
  <2>1. CASE TensorsOf[leaf][j] = t
    BY <1>6, <2>1
  <2>2. CASE TensorsOf[leaf][j] # t
    <3>1. j # k /\ j \in 1..(k - 1) /\ j \in 1..Len(TensorsOf[leaf])
      BY <1>1, <2>2 DEF t, Current
    <3>2. ptr[TensorsOf[leaf][j]] = WeightsAt[TensorsOf[leaf][j]]
      BY <3>1 DEF HooksInv, Brought
    <3>3. TensorsOf[leaf][j] \in DenseTensors
      BY <1>1, <3>1, ModuleFacts
    <3> QED
      BY <1>8, <2>2, <3>2, <3>3
  <2> QED
    BY <2>1, <2>2
<1>16. Brought'
  <2> SUFFICES ASSUME phase' = "pre", NEW j \in 1..(k' - 1)
               PROVE  ptr'[TensorsOf[leaf][j]] = WeightsAt[TensorsOf[leaf][j]]
    BY <1>3 DEF Brought
  <2>1. j \in 1..k
    BY <1>1, <1>10
  <2> QED
    BY <1>15, <2>1
<1>17. RunsOnWeights'
  BY <1>1, <1>3, <1>10, <1>15 DEF RunsOnWeights
<1> QED
  BY <1>8, <1>9, <1>11, <1>12, <1>13, <1>14, <1>16, <1>17 DEF HooksInv

\* The hook after the forward.
LEMMA PostStep == HooksInv /\ phase = "post" /\ HookStep => HooksInv'
<1> SUFFICES ASSUME HooksInv, phase = "post", HookStep PROVE HooksInv'
  OBVIOUS
<1> DEFINE t == Current
           n == LayerOf[leaf]
           own == TensorsIn(leaf)
           Ahead(i) == {TensorsOf[leaf][j] : j \in i..Len(TensorsOf[leaf])}
<1>1. /\ leaf \in Leaves /\ k \in 1..Len(TensorsOf[leaf]) /\ Len(TensorsOf[leaf]) \in Nat \ {0}
      /\ DOMAIN TensorsOf[leaf] = 1..Len(TensorsOf[leaf]) /\ n \in Nodes
  BY ModuleFacts DEF HooksInv, HooksTypes
<1>2. /\ t \in DenseTensors /\ t \in own /\ NodeOf(t) = n /\ ptr[t] \in offload
      /\ ptr[t] \in DOMAIN idAt /\ idAt[ptr[t]] = t
  BY CurrentFacts
<1>3. /\ End(t) /\ UNCHANGED <<leaf, layer, passes>>
      /\ IF k < Len(TensorsOf[leaf]) THEN k' = k + 1 /\ phase' = "post"
                                     ELSE k' = 1 /\ phase' = "called"
  BY DEF HookStep
<1>4. Release(n, t)
  BY <1>2, <1>3 DEF End
<1>5. PICK a \in Heap \ Range(ptr) :
        /\ ptr' = [ptr EXCEPT ![t] = a] /\ idAt' = Moved(ptr[t], a)
        /\ offload' = (offload \ {ptr[t]}) \cup {a}
  BY <1>2, <1>3 DEF End, Readded
<1>6. t = TensorsOf[leaf][k]
  BY DEF Current
<1> HIDE DEF t, n
<1>7. /\ PointersFollow' /\ Placed' /\ ptr' \in [DenseTensors -> Heap \cup Range(WeightsAt)]
  BY <1>2, <1>5, MoveFollows DEF HooksInv
<1>8. /\ toRelease' \in [Nodes -> SUBSET DenseTensors]
      /\ heldNodes' \in SUBSET Nodes /\ inExec' \in SUBSET Nodes
      /\ toRelease'[n] = toRelease[n] \ {t}
      /\ \A x \in Nodes : x # n => toRelease'[x] = toRelease[x] \/ toRelease'[x] = {}
      /\ lastNode' = n /\ lastLayer' = n /\ HeldWhilePending'
  <2>1. toRelease[n] # {} /\ n = LayerOf[leaf]
    BY DEF HooksInv, InUse, n
  <2> QED
    BY <1>1, <1>4, <2>1, Released DEF HooksInv
<1>9. /\ k' \in DOMAIN TensorsOf[leaf] /\ phase' \in {"post", "called"}
      /\ phase' = "called" => k' = 1 /\ k = Len(TensorsOf[leaf])
      /\ phase' = "post" => k' = k + 1
  BY <1>1, <1>3
<1>10. HooksTypes' /\ Brought' /\ RunsOnWeights'
  BY <1>1, <1>3, <1>7, <1>8, <1>9 DEF HooksTypes, Brought, RunsOnWeights
<1>11. LastRelease'
  BY <1>1, <1>8 DEF LastRelease
<1>12. Ahead(k) \ {t} = Ahead(k + 1)
  <2>1. ASSUME NEW j \in k..Len(TensorsOf[leaf]), TensorsOf[leaf][j] # t
        PROVE  TensorsOf[leaf][j] \in Ahead(k + 1)
    <3>1. j \in (k + 1)..Len(TensorsOf[leaf])
      BY <1>1, <1>6, <2>1
    <3> QED
      BY <3>1
  <2>2. ASSUME NEW j \in (k + 1)..Len(TensorsOf[leaf])
        PROVE  TensorsOf[leaf][j] \in Ahead(k) \ {t}
    <3>1. j \in k..Len(TensorsOf[leaf]) /\ j \in 1..Len(TensorsOf[leaf]) /\ j # k
      BY <1>1
    <3>2. TensorsOf[leaf][j] # t
      BY <1>1, <1>6, <3>1, OwnTensors
    <3> QED
      BY <3>1, <3>2
  <2> QED
    BY <2>1, <2>2
<1>13. \/ own \cap toRelease[n] = Ahead(k)
       \/ own \cap toRelease[n] = {}
  BY DEF HooksInv, AllOrNone, n
<1>14. \/ own \cap toRelease'[n] = Ahead(k + 1)
       \/ own \cap toRelease'[n] = {}
  BY <1>8, <1>12, <1>13
<1>15. phase' = "called" => own \cap toRelease'[n] = {}
  <2> SUFFICES ASSUME k = Len(TensorsOf[leaf]) PROVE Ahead(k + 1) = {}
    BY <1>9, <1>14
  <2> QED
    BY <1>1
<1>16. AllOrNone'
  <2>1. phase' = "post" => \/ own \cap toRelease'[n] = Ahead(k')
                           \/ own \cap toRelease'[n] = {}
    BY <1>9, <1>14
  <2>2. ASSUME NEW m \in Leaves, m # leaf \/ phase' # "post"
        PROVE  \/ TensorsIn(m) \subseteq toRelease'[LayerOf[m]]
               \/ TensorsIn(m) \cap toRelease'[LayerOf[m]] = {}
    <3>1. CASE m = leaf
      BY <1>9, <1>15, <2>2, <3>1 DEF n
    <3>2. CASE m # leaf
      <4>1. \/ TensorsIn(m) \subseteq toRelease[LayerOf[m]]
            \/ TensorsIn(m) \cap toRelease[LayerOf[m]] = {}
        BY <3>2 DEF HooksInv, AllOrNone
      <4>2. t \notin TensorsIn(m)
        BY <1>1, <1>6, <3>2, OwnTensors DEF TensorsIn
      <4>3. LayerOf[m] \in Nodes
        BY ModuleFacts
      <4>4. \/ toRelease'[LayerOf[m]] = {}
            \/ toRelease'[LayerOf[m]] = toRelease[LayerOf[m]]
            \/ toRelease'[LayerOf[m]] = toRelease[LayerOf[m]] \ {t}
        BY <1>8, <4>3
      <4> QED
        BY <4>1, <4>2, <4>4
    <3> QED
      BY <3>1, <3>2
  <2>3. leaf' = leaf
    BY <1>3
  <2>4. phase' = "post" =>
          \/ own \cap toRelease'[n]
               = {TensorsOf[leaf][j] : j \in k'..Len(TensorsOf[leaf])}
          \/ own \cap toRelease'[n] = {}
    BY <2>1
  <2> HIDE DEF own, Ahead
  <2>5. \A m \in Leaves : m # leaf' \/ phase' # "post" =>
          \/ TensorsIn(m) \subseteq toRelease'[LayerOf[m]]
          \/ TensorsIn(m) \cap toRelease'[LayerOf[m]] = {}
    BY <2>2, <2>3
  <2>6. phase' = "post" =>
          \/ TensorsIn(leaf') \cap toRelease'[LayerOf[leaf']]
               = {TensorsOf[leaf'][j] : j \in k'..Len(TensorsOf[leaf'])}
          \/ TensorsIn(leaf') \cap toRelease'[LayerOf[leaf']] = {}
    BY <2>3, <2>4 DEF own, n
  <2> QED
    BY <2>5, <2>6 DEF AllOrNone
<1>17. InUse'
  <2> SUFFICES ASSUME phase' = "post" PROVE toRelease'[n] # {}
    BY <1>3, <1>9 DEF InUse, n
  <2>1. CASE own \cap toRelease[n] = Ahead(k)
    <3>1. k + 1 \in (k + 1)..Len(TensorsOf[leaf])
      BY <1>1, <1>9
    <3>2. TensorsOf[leaf][k + 1] \in Ahead(k + 1)
      BY <3>1
    <3>3. Ahead(k + 1) \subseteq toRelease'[n]
      BY <1>8, <1>12, <2>1
    <3> QED
      BY <3>2, <3>3
  <2>2. CASE own \cap toRelease[n] = {}
    <3>1. toRelease[n] # {}
      BY DEF HooksInv, InUse, n
    <3> QED
      BY <1>2, <1>8, <2>2, <3>1
  <2> QED
    BY <1>13, <2>1, <2>2
<1> QED
  BY <1>7, <1>8, <1>10, <1>11, <1>16, <1>17 DEF HooksInv

\* The module's own forward.
LEMMA ForwardStep == HooksInv /\ Forward => HooksInv'
<1> SUFFICES ASSUME HooksInv, Forward PROVE HooksInv'
  OBVIOUS
<1>1. phase = "forward" /\ phase' = "post" /\ UNCHANGED <<engine, leaf, k, layer, passes>>
  BY DEF Forward
<1>2. k = 1 /\ leaf \in Leaves
  BY <1>1 DEF HooksInv, HooksTypes
<1>3. DOMAIN TensorsOf[leaf] = 1..Len(TensorsOf[leaf])
  BY <1>2, ModuleFacts
<1>4. UNCHANGED <<ptr, offload, idAt, toRelease, heldNodes, inExec, lastNode, lastLayer, fault>>
  BY <1>1 DEF engine
<1>5. AllOrNone'
  <2>1. \/ TensorsIn(leaf) \subseteq toRelease[LayerOf[leaf]]
        \/ TensorsIn(leaf) \cap toRelease[LayerOf[leaf]] = {}
    BY <1>1, <1>2 DEF HooksInv, AllOrNone
  <2>2. TensorsIn(leaf) = {TensorsOf[leaf][j] : j \in 1..Len(TensorsOf[leaf])}
    BY <1>3 DEF TensorsIn
  <2>3. \/ TensorsIn(leaf) \cap toRelease[LayerOf[leaf]]
             = {TensorsOf[leaf][j] : j \in 1..Len(TensorsOf[leaf])}
        \/ TensorsIn(leaf) \cap toRelease[LayerOf[leaf]] = {}
    BY <2>1, <2>2
  <2>4. \A m \in Leaves : \/ TensorsIn(m) \subseteq toRelease[LayerOf[m]]
                         \/ TensorsIn(m) \cap toRelease[LayerOf[m]] = {}
    BY <1>1 DEF HooksInv, AllOrNone
  <2>5. leaf' = leaf /\ k' = 1 /\ toRelease' = toRelease
    BY <1>1, <1>2, <1>4
  <2>6. \/ TensorsIn(leaf') \cap toRelease'[LayerOf[leaf']]
             = {TensorsOf[leaf'][j] : j \in k'..Len(TensorsOf[leaf'])}
        \/ TensorsIn(leaf') \cap toRelease'[LayerOf[leaf']] = {}
    BY <2>3, <2>5
  <2>7. \A m \in Leaves : \/ TensorsIn(m) \subseteq toRelease'[LayerOf[m]]
                         \/ TensorsIn(m) \cap toRelease'[LayerOf[m]] = {}
    BY <2>4, <2>5
  <2> QED
    BY <2>6, <2>7 DEF AllOrNone
<1>6. HooksTypes' /\ Placed' /\ LastRelease' /\ InUse' /\ Brought' /\ RunsOnWeights'
  BY <1>1, <1>2, <1>4 DEF HooksInv, HooksTypes, Placed, LastRelease, InUse, Brought, RunsOnWeights
<1>7. PointersFollow' /\ HeldWhilePending'
  BY <1>4 DEF HooksInv, PointersFollow, HeldWhilePending
<1> QED
  BY <1>5, <1>6, <1>7 DEF HooksInv

\* The next module of a pass, or the first of a new one.
LEMMA NextModule ==
  ASSUME HooksInv, phase \in {"called", "forward"}, phase' = "pre", k' = 1,
         leaf' \in Leaves, UNCHANGED engine,
         phase = "called" \/ LayerOf[leaf'] = 0
  PROVE  HooksInv'
<1>1. UNCHANGED <<ptr, offload, idAt, toRelease, heldNodes, inExec, lastNode, lastLayer, fault>>
  BY DEF engine
<1>2. 1 \in DOMAIN TensorsOf[leaf']
  <2> DEFINE m == leaf'
  <2>1. m \in Leaves
    OBVIOUS
  <2> HIDE DEF m
  <2>2. 1 \in DOMAIN TensorsOf[m]
    BY <2>1, ModuleFacts
  <2> QED
    BY <2>2 DEF m
<1>3. HooksTypes' /\ Placed'
  BY <1>1, <1>2 DEF HooksInv, HooksTypes, Placed
<1>4. LastRelease' /\ InUse' /\ Brought' /\ RunsOnWeights'
  BY <1>1 DEF HooksInv, LastRelease, InUse, Brought, RunsOnWeights
<1>5. AllOrNone'
  BY <1>1 DEF HooksInv, AllOrNone, TensorsIn
<1>6. PointersFollow' /\ HeldWhilePending'
  BY <1>1 DEF HooksInv, PointersFollow, HeldWhilePending
<1> QED
  BY <1>3, <1>4, <1>5, <1>6 DEF HooksInv
-----------------------------------------------------------------------------
\* The inductive invariant holds in every reachable state, for any modules.
THEOREM HooksInvariance == HooksSpec => []HooksInv
<1>1. ASSUME HooksInv, [HooksNext]_hooksVars PROVE HooksInv'
  <2>1. CASE HookStep
    BY <1>1, <2>1, PreStep, PostStep DEF HookStep
  <2>2. CASE Forward
    BY <1>1, <2>2, ForwardStep
  <2>3. CASE Call
    <3>1. phase = "called" /\ phase' = "pre" /\ UNCHANGED engine /\ k' = k
          /\ leaf' \in Leaves
      BY <2>3 DEF Call
    <3>2. k' = 1
      BY <1>1, <3>1 DEF HooksInv, HooksTypes
    <3> QED
      BY <1>1, <3>1, <3>2, NextModule
  <2>4. CASE NewPass
    <3>1. /\ phase \in {"called", "forward"} /\ phase' = "pre" /\ k' = 1
          /\ leaf' \in Leaves /\ LayerOf[leaf'] = 0 /\ UNCHANGED engine
      BY <2>4 DEF NewPass
    <3> QED
      BY <1>1, <3>1, NextModule
  <2>5. CASE UNCHANGED hooksVars
    <3>1. UNCHANGED <<ptr, offload, idAt, toRelease, heldNodes, inExec, lastNode,
                      lastLayer, fault, leaf, k, phase>>
      BY <2>5 DEF hooksVars, engine
    <3>2. HooksTypes' /\ Placed' /\ LastRelease'
      BY <1>1, <3>1 DEF HooksInv, HooksTypes, Placed, LastRelease
    <3>3. PointersFollow' /\ HeldWhilePending'
      BY <1>1, <3>1 DEF HooksInv, PointersFollow, HeldWhilePending
    <3>4. AllOrNone'
      BY <1>1, <3>1 DEF HooksInv, AllOrNone
    <3>5. InUse' /\ Brought' /\ RunsOnWeights'
      BY <1>1, <3>1 DEF HooksInv, InUse, Brought, RunsOnWeights
    <3> QED
      BY <3>2, <3>3, <3>4, <3>5 DEF HooksInv
  <2> QED
    BY <1>1, <2>1, <2>2, <2>3, <2>4, <2>5 DEF HooksNext
<1> QED
  BY <1>1, HooksStart, PTL DEF HooksSpec

\* The hooks' set and the engine's map are those of the tensors' pointers, whatever
\* addresses the allocator uses again.
THEOREM TablesFollow == HooksSpec => []PointersFollow
<1>1. HooksInv => PointersFollow
  BY DEF HooksInv
<1> QED
  BY <1>1, HooksInvariance, PTL

\* AcquireTensor and ReleaseTensor lock and unlock a node's mutex in turn, also when a
\* forward raised in between.
THEOREM LocksBalance == HooksSpec => []HeldWhilePending
<1>1. HooksInv => HeldWhilePending
  BY DEF HooksInv
<1> QED
  BY <1>1, HooksInvariance, PTL

\* A dense module's forward finds the weights of its tensors in place.
THEOREM ForwardHasWeights == HooksSpec => []RunsOnWeights
<1>1. HooksInv => RunsOnWeights
  BY DEF HooksInv
<1> QED
  BY <1>1, HooksInvariance, PTL
=============================================================================
