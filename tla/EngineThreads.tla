--------------------------- MODULE EngineThreads ---------------------------
(* The life of the threads: the engine's worker pool, the dispatcher's fetch,
   exec and output threads, the task pool's GPU thread, and how the destructors
   end them. A task is one operation here; ExpertPipeline has the rest of it.

   The destructors run on the main thread, the dispatcher's first or not at all:
   which of them Python collects is not the program's choice.                 *)
EXTENDS Integers, Sequences, FiniteSets

CONSTANTS Workers,   \* the compute pool's threads
          Ops,       \* operations the main thread submits
          Demanded   \* those of them it waits for; the others are prefetches

DispatcherThreads == {"fetch", "exec", "output"}
None == "none"

VARIABLES
  opQ,      \* task_queue
  doing,    \* the operation of each worker
  worker,   \* "idle", "asleep", "busy" or "exited"
  readyQ, execQ,
  pending,  \* pending_
  thread,   \* each dispatcher thread: "head" of its loop, "wait" at its predicate,
            \* "asleep", "busy" or "exited"
  gpuThread,      \* the GPU thread, also "dozing": between its predicate and its sleep
  stop,     \* which stop flags are set: "dispatcher", "tasks", "pool"
  buffers,  \* the workers' compressed_buffer is allocated
  main,       \* what the main thread is at
  submitted, finished, onFreed  \* history
threadsVars == <<opQ, doing, worker, readyQ, execQ, pending, thread, gpuThread, stop,
                 buffers, main, submitted, finished, onFreed>>

ThreadsInit ==
  /\ opQ = {} /\ doing = [w \in Workers |-> None]
  /\ worker = [w \in Workers |-> "idle"]
  /\ readyQ = <<>> /\ execQ = <<>> /\ pending = 0
  /\ thread = [t \in DispatcherThreads |-> "head"] /\ gpuThread = "wait"
  /\ stop = {} /\ buffers = TRUE /\ main = "run"
  /\ submitted = {} /\ finished = {} /\ onFreed = {}

Woken(f) == [x \in DOMAIN f |-> IF f[x] = "asleep" THEN "idle" ELSE f[x]]
-----------------------------------------------------------------------------
\* The pool. The queue and the flag change under queue_mutex, under which a
\* worker goes from its predicate to sleep.
AddTask(op) ==
  /\ main = "run" /\ op \notin submitted
  /\ submitted' = submitted \cup {op} /\ opQ' = opQ \cup {op}
  /\ pending' = pending + IF op \in Demanded THEN 1 ELSE 0
  /\ main' = "notify"
  /\ UNCHANGED <<doing, worker, readyQ, execQ, thread, gpuThread, stop, buffers,
                 finished, onFreed>>

NotifyOne ==
  /\ main = "notify" /\ main' = "run"
  /\ \/ \E w \in Workers : worker[w] = "asleep" /\ worker' = [worker EXCEPT ![w] = "idle"]
     \/ (\A w \in Workers : worker[w] # "asleep") /\ UNCHANGED worker
  /\ UNCHANGED <<opQ, doing, readyQ, execQ, pending, thread, gpuThread, stop, buffers,
                 submitted, finished, onFreed>>

WorkerTakes(w) ==
  /\ worker[w] = "idle" /\ worker' = [worker EXCEPT ![w] = "busy"]
  /\ \E op \in opQ : opQ' = opQ \ {op} /\ doing' = [doing EXCEPT ![w] = op]
  /\ UNCHANGED <<readyQ, execQ, pending, thread, gpuThread, stop, buffers, main,
                 submitted, finished, onFreed>>

\* a bug: the flag is looked at first, so what is queued is dropped
ExitsAtOnce == "pool" \in stop
ExitsDrained == "pool" \in stop /\ opQ = {}
WorkerExits(w) ==
  /\ worker[w] = "idle" /\ ExitsDrained
  /\ worker' = [worker EXCEPT ![w] = "exited"]
  /\ UNCHANGED <<opQ, doing, readyQ, execQ, pending, thread, gpuThread, stop, buffers,
                 main, submitted, finished, onFreed>>
WorkerSleeps(w) ==
  /\ worker[w] = "idle" /\ opQ = {} /\ "pool" \notin stop
  /\ worker' = [worker EXCEPT ![w] = "asleep"]
  /\ UNCHANGED <<opQ, doing, readyQ, execQ, pending, thread, gpuThread, stop, buffers,
                 main, submitted, finished, onFreed>>

\* execute, with task_ready_notify: it decompresses in the worker's buffer.
WakesNobody == thread   \* a bug: task_ready_notify does not notify
WakesFetch == IF thread["fetch"] = "asleep" THEN [thread EXCEPT !["fetch"] = "wait"]
                                            ELSE thread
WorkerFinishes(w) ==
  /\ worker[w] = "busy" /\ worker' = [worker EXCEPT ![w] = "idle"]
  /\ readyQ' = Append(readyQ, doing[w]) /\ thread' = WakesFetch
  /\ finished' = finished \cup {doing[w]}
  /\ onFreed' = IF buffers THEN onFreed ELSE onFreed \cup {doing[w]}
  /\ doing' = [doing EXCEPT ![w] = None]
  /\ UNCHANGED <<opQ, execQ, pending, gpuThread, stop, buffers, main, submitted>>
-----------------------------------------------------------------------------
\* The dispatcher's threads read the flag at the head of their loops only; of
\* their predicates only the output thread's looks at it, and its queue is never
\* filled.
LooksAtFlag(t) ==
  /\ thread[t] = "head"
  /\ thread' = [thread EXCEPT ![t] = IF "dispatcher" \in stop THEN "exited" ELSE "wait"]
  /\ UNCHANGED <<opQ, doing, worker, readyQ, execQ, pending, gpuThread, stop, buffers,
                 main, submitted, finished, onFreed>>

Input(t) == CASE t = "fetch" -> readyQ [] t = "exec" -> execQ [] t = "output" -> <<>>
Satisfied(t) == Input(t) # <<>> \/ (t = "output" /\ "dispatcher" \in stop)
FallsAsleep(t) ==
  /\ thread[t] = "wait" /\ ~Satisfied(t)
  /\ thread' = [thread EXCEPT ![t] = "asleep"]
  /\ UNCHANGED <<opQ, doing, worker, readyQ, execQ, pending, gpuThread, stop, buffers,
                 main, submitted, finished, onFreed>>
OutputEnds ==
  /\ thread["output"] = "wait" /\ Satisfied("output")
  /\ thread' = [thread EXCEPT !["output"] = "exited"]
  /\ UNCHANGED <<opQ, doing, worker, readyQ, execQ, pending, gpuThread, stop, buffers,
                 main, submitted, finished, onFreed>>

\* A prefetch ends in the fetch thread, a demanded task in the exec thread.
Fetch ==
  /\ thread["fetch"] = "wait" /\ readyQ # <<>> /\ readyQ' = Tail(readyQ)
  /\ IF Head(readyQ) \in Demanded
       THEN /\ execQ' = Append(execQ, Head(readyQ))
            /\ thread' = [thread EXCEPT !["fetch"] = "head",
                            !["exec"] = IF @ = "asleep" THEN "wait" ELSE @]
       ELSE execQ' = execQ /\ thread' = [thread EXCEPT !["fetch"] = "head"]
  /\ UNCHANGED <<opQ, doing, worker, pending, gpuThread, stop, buffers, main,
                 submitted, finished, onFreed>>
Exec ==
  /\ thread["exec"] = "wait" /\ execQ # <<>> /\ execQ' = Tail(execQ)
  /\ pending' = pending - 1 /\ thread' = [thread EXCEPT !["exec"] = "head"]
  /\ UNCHANGED <<opQ, doing, worker, readyQ, gpuThread, stop, buffers, main,
                 submitted, finished, onFreed>>

\* No task ever reaches the GPU thread: dense nodes are on the GPU from the start.
GpuLooks ==
  /\ gpuThread = "wait" /\ gpuThread' = IF "tasks" \in stop THEN "exited" ELSE "dozing"
  /\ UNCHANGED <<opQ, doing, worker, readyQ, execQ, pending, thread, stop, buffers,
                 main, submitted, finished, onFreed>>
GpuSleeps ==
  /\ gpuThread = "dozing" /\ gpuThread' = "asleep"
  /\ UNCHANGED <<opQ, doing, worker, readyQ, execQ, pending, thread, stop, buffers,
                 main, submitted, finished, onFreed>>

SpuriousWake ==
  /\ \/ /\ \E t \in DispatcherThreads : thread[t] = "asleep"
                                     /\ thread' = [thread EXCEPT ![t] = "wait"]
        /\ UNCHANGED <<worker, gpuThread>>
     \/ gpuThread = "asleep" /\ gpuThread' = "wait" /\ UNCHANGED <<worker, thread>>
     \/ /\ \E w \in Workers : worker[w] = "asleep"
                           /\ worker' = [worker EXCEPT ![w] = "idle"]
        /\ UNCHANGED <<thread, gpuThread>>
  /\ UNCHANGED <<opQ, doing, readyQ, execQ, pending, stop, buffers, main, submitted,
                 finished, onFreed>>
-----------------------------------------------------------------------------
\* The main thread ends once it has its results; a prefetch may still be running.
AnsweredAny == TRUE   \* a bug: it does not wait
Answered == pending = 0

Goes(from, to, flags) ==
  /\ main = from /\ main' = to /\ stop' = stop \cup flags
  /\ UNCHANGED <<opQ, doing, readyQ, execQ, pending, thread, submitted, finished,
                 onFreed>>

\* ~ExpertDispatcher sets the flag and joins. Nobody is notified.
CloseDispatcher ==
  /\ Answered /\ Goes("run", "join dispatcher", {"dispatcher"})
  /\ UNCHANGED <<worker, gpuThread, buffers>>
DispatcherJoined ==
  /\ \A t \in DispatcherThreads : thread[t] = "exited"
  /\ Goes("join dispatcher", "close handle", {})
  /\ UNCHANGED <<worker, gpuThread, buffers>>

\* CleanUpResources: ~LUT_MoETaskPool sets its flag without the mutex, then
\* notifies, then joins.
CloseTasks ==
  /\ \/ Answered /\ Goes("run", "notify tasks", {"tasks"})
     \/ Goes("close handle", "notify tasks", {"tasks"})
  /\ UNCHANGED <<worker, gpuThread, buffers>>
NotifyTasks ==
  /\ Goes("notify tasks", "join tasks", {})
  /\ gpuThread' = (IF gpuThread = "asleep" THEN "wait" ELSE gpuThread)
  /\ UNCHANGED <<worker, buffers>>

\* Then ~TensorEngine: its body frees the buffers, its members' destructors stop
\* the pools.
FreeBuffers ==
  /\ gpuThread = "exited" /\ Goes("join tasks", "stop pool", {})
  /\ buffers' = FALSE /\ UNCHANGED <<worker, gpuThread>>
WakesOne == LET w == CHOOSE w \in Workers : TRUE IN    \* a bug: notify_one
            [worker EXCEPT ![w] = IF @ = "asleep" THEN "idle" ELSE @]
WakesAll == Woken(worker)
StopPool ==
  /\ Goes("stop pool", "notify pool", {"pool"})
  /\ UNCHANGED <<worker, gpuThread, buffers>>
NotifyPool ==
  /\ Goes("notify pool", "join pool", {}) /\ worker' = WakesAll
  /\ UNCHANGED <<gpuThread, buffers>>
PoolJoined ==
  /\ \A w \in Workers : worker[w] = "exited"
  /\ Goes("join pool", "closed", {})
  /\ UNCHANGED <<worker, gpuThread, buffers>>

Main == \/ NotifyOne \/ DispatcherJoined \/ CloseTasks \/ NotifyTasks
        \/ FreeBuffers \/ StopPool \/ NotifyPool \/ PoolJoined
Worker(w) == WorkerTakes(w) \/ WorkerExits(w) \/ WorkerSleeps(w) \/ WorkerFinishes(w)
Dispatcher(t) == \/ LooksAtFlag(t) \/ FallsAsleep(t) \/ (t = "output" /\ OutputEnds)
                 \/ (t = "fetch" /\ Fetch) \/ (t = "exec" /\ Exec)
Gpu == GpuLooks \/ GpuSleeps
ThreadsNext == \/ \E op \in Ops : AddTask(op)
               \/ CloseDispatcher \/ Main \/ Gpu \/ SpuriousWake
               \/ \E w \in Workers : Worker(w)
               \/ \E t \in DispatcherThreads : Dispatcher(t)

ThreadsFairness ==
  /\ WF_threadsVars(main # "run" /\ Main) /\ WF_threadsVars(Gpu)
  /\ \A w \in Workers : WF_threadsVars(Worker(w))
  /\ \A t \in DispatcherThreads : WF_threadsVars(Dispatcher(t))
ThreadsSpec == ThreadsInit /\ [][ThreadsNext]_threadsVars /\ ThreadsFairness
-----------------------------------------------------------------------------
\* An operation that works in a freed buffer is one of a prefetch: what the main
\* thread waited for has ended before the engine's destructor begins.
FreedUnderPrefetchOnly == onFreed \cap Demanded = {}

\* When the destructors have returned each submitted operation was executed.
NoneDropped == main = "closed" => finished = submitted

\* A thread that sleeps although its owner has set its stop flag and notified.
SleepsForGood ==
  \/ "dispatcher" \in stop /\ \E t \in DispatcherThreads : thread[t] = "asleep"
  \/ main = "join tasks" /\ gpuThread \in {"dozing", "asleep"}

\* The destructors return, unless a dispatcher thread slept when its flag was set
\* or the GPU thread was between its predicate and its sleep.
CloseReturns == (main \notin {"run", "notify"}) ~> (main = "closed" \/ SleepsForGood)

\* Whoever waits for its demanded tasks gets them all.
DemandMet == (pending > 0) ~> (pending = 0 \/ main \notin {"run", "notify"})
=============================================================================
