-------------------------- MODULE InMemoryTaskQueue --------------------------
(***************************************************************************)
(* The in-memory task queue of src/workdir/contract/queue: an array of     *)
(* executor functions and the counter `running`.  enqueue and the finally  *)
(* block of executeNext each call executeNext once.                        *)
(*                                                                         *)
(* executeNext has a single await, on the function it starts.  Everything  *)
(* from an enqueue, or from the end of a function, to the next await is    *)
(* therefore one step.  A decorated function never rejects (lines 51-63),  *)
(* so there is one way to settle.                                          *)
(*                                                                         *)
(* The operators work on a value of the queue's state, so that modules     *)
(* that use the queue can apply them to their own variable.                *)
(***************************************************************************)
EXTENDS Integers, Sequences, FiniteSets

CONSTANTS Fns,              \* the executor functions callers enqueue
          MaxConcurrency,   \* config.maxConcurrency after init
          NaN               \* what the unary + makes of an option that is
                            \* no number: running >= NaN is always false

ASSUME MaxConcurrencyAssumption == MaxConcurrency \in Nat \/ MaxConcurrency = NaN
ASSUME NaNAssumption == NaN \notin Nat

VARIABLE taskQueue   \* [queue, running, executing]: the module's two variables
                     \* and the functions that nextTask() has started

EmptyQueue == [queue |-> <<>>, running |-> 0, executing |-> {}]

Saturated(s) == MaxConcurrency # NaN /\ s.running >= MaxConcurrency

Queued(s) == {s.queue[i] : i \in DOMAIN s.queue}

\* Mutants of ExecuteNext: no test of the load; the newest function first.
ExecuteNextUnbounded(s) ==
  IF s.queue = <<>> THEN s
  ELSE [queue     |-> Tail(s.queue),
        running   |-> s.running + 1,
        executing |-> s.executing \cup {Head(s.queue)}]
ExecuteNextLifo(s) ==
  IF Saturated(s) \/ s.queue = <<>> THEN s
  ELSE [queue     |-> SubSeq(s.queue, 1, Len(s.queue) - 1),
        running   |-> s.running + 1,
        executing |-> s.executing \cup {s.queue[Len(s.queue)]}]

\* executeNext up to its await: the state after it starts a function, or s.
ExecuteNext(s) ==
  IF Saturated(s) \/ s.queue = <<>> THEN s
  ELSE [queue     |-> Tail(s.queue),
        running   |-> s.running + 1,
        executing |-> s.executing \cup {Head(s.queue)}]

\* Mutant of Enqueued: only the finally block looks for work.
EnqueuedPassively(s, f) == [s EXCEPT !.queue = Append(@, f)]

\* enqueue(taskId, f).
Enqueued(s, f) == ExecuteNext([s EXCEPT !.queue = Append(@, f)])

\* Calls of enqueue for the functions fs, one after the other with nothing in
\* between: each of them starts the head of the line while there is room.
EnqueuedAll(s, fs) ==
  LET line == s.queue \o fs
      k == IF MaxConcurrency = NaN \/ s.running + Len(fs) <= MaxConcurrency
             THEN Len(fs)
             ELSE IF Saturated(s) THEN 0 ELSE MaxConcurrency - s.running
  IN  [queue     |-> SubSeq(line, k + 1, Len(line)),
       running   |-> s.running + k,
       executing |-> s.executing \cup {line[i] : i \in 1 .. k}]

\* Mutants of Settled: the finally block counts down twice, or it forgets one
\* of its two statements.
SettledTwice(s, f) ==
  ExecuteNext([s EXCEPT !.executing = @ \ {f}, !.running = @ - 2])
SettledIdle(s, f) == [s EXCEPT !.executing = @ \ {f}, !.running = @ - 1]

\* f settled: the finally block of the executeNext that started it.
Settled(s, f) ==
  ExecuteNext([s EXCEPT !.executing = @ \ {f}, !.running = @ - 1])

-----------------------------------------------------------------------------
Init == taskQueue = EmptyQueue

\* Every executor function is a closure of its own: none is enqueued while
\* it is still queued or executing.
Enqueue(f) ==
  /\ f \notin Queued(taskQueue) \cup taskQueue.executing
  /\ taskQueue' = Enqueued(taskQueue, f)

Settle(f) ==
  /\ f \in taskQueue.executing
  /\ taskQueue' = Settled(taskQueue, f)

Next == \E f \in Fns : Enqueue(f) \/ Settle(f)

Spec == Init /\ [][Next]_taskQueue

\* Executor functions end: a run waits for its container, and containers that
\* never exit are what the ttl limitation is for.
FairSpec == Spec /\ \A f \in Fns : WF_taskQueue(Settle(f))

-----------------------------------------------------------------------------
\* Type invariant of the queue's state.
QueueState == [queue : Seq(Fns), running : Nat, executing : SUBSET Fns]
TypeOK == taskQueue \in QueueState

\* A function is at one place of the line, and not in it once it was started:
\* no function is started twice.
NothingTwice ==
  /\ \A i, j \in DOMAIN taskQueue.queue :
       taskQueue.queue[i] = taskQueue.queue[j] => i = j
  /\ Queued(taskQueue) \cap taskQueue.executing = {}

\* The counter never drifts from what really executes, whichever way enqueues
\* and ends interleave (lines 22-49).
RunningCountsExecuting == taskQueue.running = Cardinality(taskQueue.executing)

\* executeNext starts one function per event; that is enough: nothing waits
\* while there is room for it.
WorkConserving == taskQueue.queue # <<>> => Saturated(taskQueue)

\* Never more than maxConcurrency functions at once.
ConcurrencyBound ==
  MaxConcurrency # NaN => Cardinality(taskQueue.executing) <= MaxConcurrency

\* The queue implements the abstract executor: FIFO, bounded, work-conserving.
Executor == INSTANCE FifoExecutor
              WITH Jobs <- Fns, Capacity <- MaxConcurrency,
                   waiting <- taskQueue.queue, active <- taskQueue.executing
ImplementsExecutor == Executor!Spec

\* Every function that was enqueued is started at last, although others keep
\* being enqueued.
EveryQueuedStarts ==
  \A f \in Fns : f \in Queued(taskQueue) ~> f \in taskQueue.executing
=============================================================================
