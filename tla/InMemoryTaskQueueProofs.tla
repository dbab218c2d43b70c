------------------------ MODULE InMemoryTaskQueueProofs ------------------------
(***************************************************************************)
(* The queue is correct for every set of functions and every concurrency.  *)
(* The heart is Balanced, a predicate on the state s between two events:   *)
(* the counter counts what executes, it has not passed the maximum, and a  *)
(* function waits only when the maximum is reached.  That last part is     *)
(* what makes one executeNext per event enough, and it needs the other     *)
(* two: a saturated queue has room for exactly one function after an end.  *)
(*                                                                         *)
(* Serve is the shape of every event: the first k of the line start.  With *)
(* it, EnqueuedAll is proved to be the loop of enqueue it stands for, one  *)
(* function at a time (EnqueuedAllNone, EnqueuedAllAppend), and to keep    *)
(* the balance.                                                            *)
(***************************************************************************)
EXTENDS InMemoryTaskQueue, FiniteSetTheorems, SequenceTheorems, TLAPS

OnceEach(s) ==
  /\ \A i, j \in DOMAIN s.queue : s.queue[i] = s.queue[j] => i = j
  /\ Queued(s) \cap s.executing = {}

\* What holds of s even between the two halves of an event.
Sound(s) ==
  /\ s \in QueueState
  /\ OnceEach(s)
  /\ IsFiniteSet(s.executing)
  /\ s.running = Cardinality(s.executing)
  /\ MaxConcurrency # NaN => s.running <= MaxConcurrency

Balanced(s) == Sound(s) /\ (s.queue # <<>> => Saturated(s))

\* executeNext starts the head of the queue, or leaves s alone.
LEMMA ExecuteNextSound ==
  ASSUME NEW s, Sound(s)
  PROVE  Sound(ExecuteNext(s))
<1>1. CASE Saturated(s) \/ s.queue = <<>>
  BY <1>1 DEF ExecuteNext
<1>2. CASE ~Saturated(s) /\ s.queue # <<>>
  <2> DEFINE h == Head(s.queue)
             t == ExecuteNext(s)
  <2>1. /\ s.queue \in Seq(Fns)
        /\ s.running \in Nat
        /\ s.executing \subseteq Fns
    BY DEF Sound, QueueState
  <2>2. t = [queue |-> Tail(s.queue), running |-> s.running + 1,
             executing |-> s.executing \cup {h}]
    BY <1>2 DEF ExecuteNext
  <2>3. /\ h = s.queue[1]
        /\ 1 \in DOMAIN s.queue
        /\ h \in Fns
        /\ Tail(s.queue) \in Seq(Fns)
        /\ \A i \in DOMAIN Tail(s.queue) :
             /\ i + 1 \in DOMAIN s.queue
             /\ i + 1 # 1
             /\ Tail(s.queue)[i] = s.queue[i + 1]
    BY <1>2, <2>1
  <2>4. t \in QueueState
    BY <2>1, <2>2, <2>3 DEF QueueState
  <2>5. h \notin s.executing
    BY <2>3 DEF Sound, OnceEach, Queued
  <2>6. OnceEach(t)
    <3>1. \A i, j \in DOMAIN t.queue : t.queue[i] = t.queue[j] => i = j
      BY <2>1, <2>2, <2>3 DEF Sound, OnceEach
    <3>2. \A i \in DOMAIN t.queue : t.queue[i] # h /\ t.queue[i] \notin s.executing
      BY <2>1, <2>2, <2>3 DEF Sound, OnceEach, Queued
    <3>3. Queued(t) \cap t.executing = {}
      BY <2>2, <3>2 DEF Queued
    <3> QED BY <3>1, <3>3 DEF OnceEach
  <2>7. /\ IsFiniteSet(t.executing)
        /\ Cardinality(t.executing) = Cardinality(s.executing) + 1
    BY <2>2, <2>5, FS_AddElement DEF Sound
  <2>8. MaxConcurrency # NaN => t.running <= MaxConcurrency
    BY <1>2, <2>1, <2>2, MaxConcurrencyAssumption DEF Saturated
  <2> QED BY <2>2, <2>4, <2>6, <2>7, <2>8 DEF Sound
<1> QED BY <1>1, <1>2

\* An enqueue keeps the balance: there was room only if nothing waited, and
\* then f itself is started.
LEMMA EnqueuedBalanced ==
  ASSUME NEW s, Balanced(s), NEW f \in Fns, f \notin Queued(s) \cup s.executing
  PROVE  Balanced(Enqueued(s, f))
<1> DEFINE u == [s EXCEPT !.queue = Append(@, f)]
           t == Enqueued(s, f)
<1>1. /\ s \in QueueState /\ u \in QueueState
      /\ u.queue = Append(s.queue, f)
      /\ u.running = s.running
      /\ u.executing = s.executing
      /\ s.queue \in Seq(Fns)
  BY DEF Balanced, Sound, QueueState
<1>2. /\ DOMAIN u.queue = 1 .. Len(s.queue) + 1
      /\ \A i \in 1 .. Len(s.queue) : u.queue[i] = s.queue[i]
      /\ u.queue[Len(s.queue) + 1] = f
      /\ DOMAIN s.queue = 1 .. Len(s.queue)
      /\ Len(s.queue) \in Nat
  BY <1>1
<1>3. Sound(u)
  <2>1. \A i \in DOMAIN s.queue : s.queue[i] # f
    BY DEF Queued
  <2>2. \A i, j \in DOMAIN u.queue : u.queue[i] = u.queue[j] => i = j
    BY <1>2, <2>1 DEF Balanced, Sound, OnceEach
  <2>3. Queued(u) \subseteq Queued(s) \cup {f}
    BY <1>2 DEF Queued
  <2>4. Queued(u) \cap u.executing = {}
    BY <1>1, <2>3 DEF Balanced, Sound, OnceEach
  <2> QED BY <1>1, <2>2, <2>4 DEF Balanced, Sound, OnceEach
<1>4. t = ExecuteNext(u)
  BY DEF Enqueued
<1>5. Sound(t)
  BY <1>3, <1>4, ExecuteNextSound
<1>6. t.queue # <<>> => Saturated(t)
  <2>1. CASE Saturated(s)
    BY <2>1, <1>1, <1>4 DEF ExecuteNext, Saturated
  <2>2. CASE ~Saturated(s)
    <3>1. s.queue = <<>>
      BY <2>2 DEF Balanced
    <3>2. u.queue = <<f>> /\ ~Saturated(u)
      BY <2>2, <3>1, <1>1 DEF Saturated
    <3>3. t.queue = Tail(<<f>>)
      BY <3>2, <1>4 DEF ExecuteNext
    <3> QED BY <3>3
  <2> QED BY <2>1, <2>2
<1> QED BY <1>5, <1>6 DEF Balanced

\* So does an end: if something waits, the maximum was reached, so there is
\* room for one function, executeNext starts it, and the maximum is reached.
LEMMA SettledBalanced ==
  ASSUME NEW s, Balanced(s), NEW f \in s.executing
  PROVE  Balanced(Settled(s, f))
<1> DEFINE u == [s EXCEPT !.executing = @ \ {f}, !.running = @ - 1]
           t == Settled(s, f)
<1>1. /\ s.queue \in Seq(Fns)
      /\ s.running \in Nat
      /\ s.executing \subseteq Fns
      /\ IsFiniteSet(s.executing)
      /\ s.running = Cardinality(s.executing)
      /\ MaxConcurrency # NaN => s.running <= MaxConcurrency
  BY DEF Balanced, Sound, QueueState
<1>2. /\ u.queue = s.queue
      /\ u.running = s.running - 1
      /\ u.executing = s.executing \ {f}
  BY DEF Balanced, Sound, QueueState
<1>3. /\ IsFiniteSet(u.executing)
      /\ Cardinality(u.executing) = s.running - 1
      /\ u \in QueueState
  <2>1. /\ IsFiniteSet(s.executing \ {f})
        /\ Cardinality(s.executing \ {f}) = Cardinality(s.executing) - 1
    BY <1>1, FS_RemoveElement
  <2>2. Cardinality(s.executing \ {f}) \in Nat
    BY <2>1, FS_CardinalityType
  <2>3. s.running - 1 \in Nat
    BY <1>1, <2>1, <2>2
  <2> QED BY <1>1, <1>2, <2>1, <2>3 DEF Balanced, Sound, QueueState
<1>4. Sound(u)
  BY <1>1, <1>2, <1>3, MaxConcurrencyAssumption
     DEF Balanced, Sound, QueueState, OnceEach, Queued
<1>5. t = ExecuteNext(u)
  BY DEF Settled
<1>6. t.queue # <<>> => Saturated(t)
  <2>1. CASE s.queue = <<>>
    BY <2>1, <1>2, <1>5 DEF ExecuteNext
  <2>2. CASE s.queue # <<>>
    <3>1. MaxConcurrency # NaN /\ s.running = MaxConcurrency
      BY <2>2, <1>1, MaxConcurrencyAssumption DEF Balanced, Saturated
    <3>2. ~Saturated(u)
      BY <3>1, <1>1, <1>2 DEF Saturated
    <3>3. t.running = u.running + 1
      BY <2>2, <3>2, <1>2, <1>5 DEF ExecuteNext
    <3>4. t.running = MaxConcurrency
      BY <3>1, <3>3, <1>1, <1>2
    <3> QED BY <3>1, <3>4, <1>1 DEF Saturated
  <2> QED BY <2>1, <2>2
<1> QED BY <1>4, <1>5, <1>6, ExecuteNextSound DEF Balanced

LEMMA EmptyBalanced == Balanced(EmptyQueue)
<1>1. EmptyQueue \in QueueState
  BY DEF EmptyQueue, QueueState
<1>2. OnceEach(EmptyQueue)
  BY DEF EmptyQueue, OnceEach, Queued
<1> QED BY <1>1, <1>2, FS_EmptySet, MaxConcurrencyAssumption
        DEF Balanced, Sound, EmptyQueue

\* Init and every step keep the balance.
LEMMA QueueInv == Spec => []Balanced(taskQueue)
<1>1. Init => Balanced(taskQueue)
  BY EmptyBalanced DEF Init
<1>2. Balanced(taskQueue) /\ [Next]_taskQueue => Balanced(taskQueue)'
  <2> SUFFICES ASSUME Balanced(taskQueue), [Next]_taskQueue
               PROVE  Balanced(taskQueue')
    BY DEF Balanced, Sound, OnceEach, Queued, Saturated
  <2>1. ASSUME NEW f \in Fns, Enqueue(f)
        PROVE  Balanced(taskQueue')
    BY <2>1, EnqueuedBalanced DEF Enqueue
  <2>2. ASSUME NEW f \in Fns, Settle(f)
        PROVE  Balanced(taskQueue')
    BY <2>2, SettledBalanced DEF Settle
  <2>3. CASE UNCHANGED taskQueue
    BY <2>3
  <2> QED BY <2>1, <2>2, <2>3 DEF Next
<1> QED BY <1>1, <1>2, PTL DEF Spec

\* The module's type invariant, for every set of functions and concurrency.
THEOREM QueueTypeCorrect == Spec => []TypeOK
<1>1. Balanced(taskQueue) => TypeOK
  BY DEF Balanced, Sound, TypeOK
<1> QED BY <1>1, QueueInv, PTL

\* No function is in the line twice, or in it after it was started.
THEOREM QueueStartsOnce == Spec => []NothingTwice
<1>1. Balanced(taskQueue) => NothingTwice
  BY DEF Balanced, Sound, OnceEach, NothingTwice
<1> QED BY <1>1, QueueInv, PTL

\* `running` always equals the number of functions that execute.
THEOREM QueueCounterExact == Spec => []RunningCountsExecuting
<1>1. Balanced(taskQueue) => RunningCountsExecuting
  BY DEF Balanced, Sound, RunningCountsExecuting
<1> QED BY <1>1, QueueInv, PTL

\* No function waits while the queue may start one.
THEOREM QueueWorkConserving == Spec => []WorkConserving
<1>1. Balanced(taskQueue) => WorkConserving
  BY DEF Balanced, WorkConserving
<1> QED BY <1>1, QueueInv, PTL

\* Never more than maxConcurrency functions execute.
THEOREM QueueBounded == Spec => []ConcurrencyBound
<1>1. Balanced(taskQueue) => ConcurrencyBound
  BY DEF Balanced, Sound, ConcurrencyBound
<1> QED BY <1>1, QueueInv, PTL

-----------------------------------------------------------------------------
\* One executeNext is all that the abstract Fill asks for: k = 1 when it
\* starts the head of the queue, k = 0 when it leaves the state alone.
LEMMA ExecuteNextFills ==
  ASSUME NEW u, u.queue \in Seq(Fns),
         taskQueue' = ExecuteNext(u), Balanced(taskQueue')
  PROVE  Executor!Fill(u.queue, u.executing)
<1> DEFINE q == u.queue
           t == taskQueue'
           Moves(k) == /\ t.queue = SubSeq(q, k + 1, Len(q))
                       /\ t.executing = u.executing \cup {q[i] : i \in 1 .. k}
<1>1. /\ Len(q) \in Nat
      /\ MaxConcurrency # NaN => Cardinality(t.executing) <= MaxConcurrency
      /\ t.queue = <<>> \/ (MaxConcurrency # NaN /\ Cardinality(t.executing) = MaxConcurrency)
  <2>1. MaxConcurrency # NaN => MaxConcurrency \in Nat
    BY MaxConcurrencyAssumption
  <2>2. t.running \in Nat
    BY DEF Balanced, Sound, QueueState
  <2> QED BY <2>1, <2>2 DEF Balanced, Sound, Saturated
<1>2. ASSUME Saturated(u) \/ q = <<>>
      PROVE  \E k \in 0 .. Len(q) : Moves(k)
  <2>1. t.queue = q /\ t.executing = u.executing
    BY <1>2 DEF ExecuteNext
  <2>2. q = SubSeq(q, 0 + 1, Len(q))
    BY <1>1
  <2>3. u.executing = u.executing \cup {q[i] : i \in 1 .. 0}
    OBVIOUS
  <2>4. 0 \in 0 .. Len(q)
    BY <1>1
  <2> QED BY <2>1, <2>2, <2>3, <2>4
<1>3. ASSUME ~Saturated(u) /\ q # <<>>
      PROVE  \E k \in 0 .. Len(q) : Moves(k)
  <2>1. t.queue = Tail(q) /\ t.executing = u.executing \cup {Head(q)}
    BY <1>3 DEF ExecuteNext
  <2>2. Tail(q) = SubSeq(q, 1 + 1, Len(q))
    BY <1>1, <1>3
  <2>3. Head(q) = q[1] /\ 1 \in 0 .. Len(q)
    BY <1>1, <1>3
  <2>4. {q[i] : i \in 1 .. 1} = {Head(q)}
    BY <2>3
  <2> QED BY <2>1, <2>2, <2>3, <2>4
<1>4. \E k \in 0 .. Len(q) : Moves(k)
  BY <1>2, <1>3
<1>5. Executor!Cardinality(t.executing) = Cardinality(t.executing)
  BY DEF Executor!Cardinality, Cardinality
<1> QED BY <1>1, <1>4, <1>5 DEF Executor!Fill

\* The queue implements the abstract executor: jobs start in the order of
\* submission, as many as the capacity allows and as soon as it allows them.
THEOREM QueueImplementsExecutor == Spec => ImplementsExecutor
<1>1. Init => Executor!Init
  BY DEF Init, EmptyQueue, Executor!Init
<1>2. ASSUME Balanced(taskQueue), [Next]_taskQueue
      PROVE  [Executor!Next]_(Executor!fifoVars)
  <2>0. taskQueue.queue \in Seq(Fns)
    BY <1>2 DEF Balanced, Sound, QueueState
  <2>1. ASSUME NEW f \in Fns, Enqueue(f)
        PROVE  Executor!Submit(f)
    <3> DEFINE u == [taskQueue EXCEPT !.queue = Append(@, f)]
    <3>1. /\ u.queue = Append(taskQueue.queue, f)
          /\ u.executing = taskQueue.executing
      BY <1>2 DEF Balanced, Sound, QueueState
    <3>2. u.queue \in Seq(Fns)
      BY <3>1, <2>0
    <3>3. taskQueue' = ExecuteNext(u)
      BY <2>1 DEF Enqueue, Enqueued
    <3>4. Balanced(taskQueue')
      BY <1>2, <2>1, EnqueuedBalanced DEF Enqueue
    <3>5. Executor!Fill(u.queue, u.executing)
      BY <3>2, <3>3, <3>4, ExecuteNextFills
    <3> QED BY <3>1, <3>5 DEF Executor!Submit
  <2>2. ASSUME NEW f \in Fns, Settle(f)
        PROVE  Executor!Complete(f)
    <3> DEFINE u == [taskQueue EXCEPT !.executing = @ \ {f}, !.running = @ - 1]
    <3>1. /\ u.queue = taskQueue.queue
          /\ u.executing = taskQueue.executing \ {f}
      BY <1>2 DEF Balanced, Sound, QueueState
    <3>2. taskQueue' = ExecuteNext(u)
      BY <2>2 DEF Settle, Settled
    <3>3. Balanced(taskQueue')
      BY <1>2, <2>2, SettledBalanced DEF Settle
    <3>4. Executor!Fill(u.queue, u.executing)
      BY <2>0, <3>1, <3>2, <3>3, ExecuteNextFills
    <3> QED BY <2>2, <3>1, <3>4 DEF Settle, Executor!Complete
  <2>3. CASE UNCHANGED taskQueue
    BY <2>3 DEF Executor!fifoVars
  <2> QED BY <1>2, <2>1, <2>2, <2>3 DEF Next, Executor!Next
<1> QED BY <1>1, <1>2, QueueInv, PTL DEF Spec, ImplementsExecutor, Executor!Spec

-----------------------------------------------------------------------------
\* Every event of the queue has this shape: the first k of the line start, on
\* top of what executes already.
Serve(line, k, base, n) ==
  [queue     |-> SubSeq(line, k + 1, Len(line)),
   running   |-> n + k,
   executing |-> base \cup {line[i] : i \in 1 .. k}]

\* What a line and those of it that start look like.
LEMMA ServeParts ==
  ASSUME NEW S, NEW line \in Seq(S), NEW k \in 0 .. Len(line), NEW base, NEW n
  PROVE  /\ Serve(line, k, base, n).queue \in Seq(S)
         /\ Len(Serve(line, k, base, n).queue) = Len(line) - k
         /\ \A i \in 1 .. Len(line) - k : Serve(line, k, base, n).queue[i] = line[k + i]
         /\ Serve(line, k, base, n).executing = base \cup {line[i] : i \in 1 .. k}
         /\ Serve(line, k, base, n).running = n + k
<1> DEFINE w == SubSeq(line, k + 1, Len(line))
<1>1. Len(line) \in Nat /\ \A i \in 1 .. Len(line) : line[i] \in S
  OBVIOUS
<1>2. \A i \in k + 1 .. Len(line) : line[i] \in S
  BY <1>1
<1>3. k + 1 \in Int /\ Len(line) \in Int
  BY <1>1
<1>4. /\ w \in Seq(S)
      /\ Len(w) = IF k + 1 <= Len(line) THEN Len(line) - (k + 1) + 1 ELSE 0
      /\ \A i \in 1 .. Len(line) - (k + 1) + 1 : w[i] = line[k + 1 + i - 1]
  BY <1>2, <1>3, SubSeqProperties
<1>5. /\ Serve(line, k, base, n).queue = w
      /\ Serve(line, k, base, n).executing = base \cup {line[i] : i \in 1 .. k}
      /\ Serve(line, k, base, n).running = n + k
  BY DEF Serve
<1> HIDE DEF w
<1>6. Len(w) = Len(line) - k
  BY <1>1, <1>4
<1>7. \A i \in 1 .. Len(line) - k : w[i] = line[k + i]
  BY <1>1, <1>4
<1> QED BY <1>4, <1>5, <1>6, <1>7

\* One more in the line, one more that starts.
LEMMA ServeAppend ==
  ASSUME NEW S, NEW line \in Seq(S), NEW k \in 0 .. Len(line), NEW base, NEW n, NEW f \in S
  PROVE  /\ Append(Serve(line, k, base, n).queue, f) = Serve(Append(line, f), k, base, n).queue
         /\ Serve(line, k, base, n).executing = Serve(Append(line, f), k, base, n).executing
<1> DEFINE w == Serve(line, k, base, n).queue
           v == Serve(Append(line, f), k, base, n).queue
<1>1. /\ Append(line, f) \in Seq(S) /\ Len(Append(line, f)) = Len(line) + 1
      /\ \A i \in 1 .. Len(line) : Append(line, f)[i] = line[i]
      /\ Append(line, f)[Len(line) + 1] = f
      /\ Len(line) \in Nat
  BY AppendProperties
<1>2. k \in 0 .. Len(Append(line, f))
  BY <1>1
<1>20. ASSUME NEW m \in Seq(S), k \in 0 .. Len(m)
       PROVE  /\ Serve(m, k, base, n).queue \in Seq(S)
              /\ Len(Serve(m, k, base, n).queue) = Len(m) - k
              /\ \A i \in 1 .. Len(m) - k : Serve(m, k, base, n).queue[i] = m[k + i]
  BY <1>20, ServeParts
<1>3. /\ w \in Seq(S) /\ Len(w) = Len(line) - k
      /\ \A i \in 1 .. Len(line) - k : w[i] = line[k + i]
  BY ServeParts
<1>4. /\ v \in Seq(S) /\ Len(v) = Len(Append(line, f)) - k
      /\ \A i \in 1 .. Len(Append(line, f)) - k : v[i] = Append(line, f)[k + i]
  BY <1>1, <1>2, <1>20
<1> HIDE DEF w, v
<1>5. /\ Append(w, f) \in Seq(S) /\ Len(Append(w, f)) = Len(w) + 1
      /\ \A i \in 1 .. Len(w) : Append(w, f)[i] = w[i]
      /\ Append(w, f)[Len(w) + 1] = f
  BY <1>3, AppendProperties
<1>6. ASSUME NEW i \in 1 .. Len(v)
      PROVE  Append(w, f)[i] = v[i]
  <2>1. CASE i = Len(w) + 1
    BY <1>1, <1>3, <1>4, <1>5, <2>1
  <2>2. CASE i # Len(w) + 1
    <3>1. i \in 1 .. Len(w) /\ i \in 1 .. Len(line) - k /\ k + i \in 1 .. Len(line)
          /\ i \in 1 .. Len(Append(line, f)) - k
      BY <1>1, <1>3, <1>4, <2>2
    <3> QED BY <1>1, <1>3, <1>4, <1>5, <3>1
  <2> QED BY <2>1, <2>2
<1>7. Len(Append(w, f)) = Len(v)
  BY <1>1, <1>3, <1>4, <1>5
<1>8. Append(w, f) = v
  BY <1>4, <1>5, <1>6, <1>7, SeqEqual
<1>9. {line[i] : i \in 1 .. k} = {Append(line, f)[i] : i \in 1 .. k}
  <2>1. \A i \in 1 .. k : line[i] = Append(line, f)[i]
    BY <1>1
  <2> QED BY <2>1
<1> QED BY <1>8, <1>9 DEF w, v, Serve

\* Where one more of the line starts, the next event has its head to start.
LEMMA ServeOneMore ==
  ASSUME NEW S, NEW line \in Seq(S), NEW k \in Nat, k < Len(line), NEW base, NEW n
  PROVE  /\ Serve(line, k, base, n).queue # <<>>
         /\ Tail(Serve(line, k, base, n).queue) = Serve(line, k + 1, base, n).queue
         /\ Serve(line, k + 1, base, n).executing
              = Serve(line, k, base, n).executing \cup {Head(Serve(line, k, base, n).queue)}
<1>1. Len(line) \in Nat /\ k + 1 \in 1 .. Len(line) /\ Len(line) \in k + 1 .. Len(line)
      /\ k \in 0 .. Len(line) /\ k + 1 + 1 = k + 2
  OBVIOUS
<1>2. /\ Head(SubSeq(line, k + 1, Len(line))) = line[k + 1]
      /\ Tail(SubSeq(line, k + 1, Len(line))) = SubSeq(line, k + 1 + 1, Len(line))
  BY <1>1, HeadTailOfSubSeq
<1>3. {line[i] : i \in 1 .. k + 1} = {line[i] : i \in 1 .. k} \cup {line[k + 1]}
  <2>1. 1 .. k + 1 = (1 .. k) \cup {k + 1}
    OBVIOUS
  <2> QED BY <2>1
<1>4. Serve(line, k, base, n).queue \in Seq(S) /\ Len(Serve(line, k, base, n).queue) > 0
  BY <1>1, ServeParts
<1>5. Serve(line, k, base, n).queue # <<>>
  BY <1>4, EmptySeq
<1>6. /\ Serve(line, k, base, n).queue = SubSeq(line, k + 1, Len(line))
      /\ Serve(line, k + 1, base, n).queue = SubSeq(line, k + 1 + 1, Len(line))
      /\ Serve(line, k, base, n).executing = base \cup {line[i] : i \in 1 .. k}
      /\ Serve(line, k + 1, base, n).executing = base \cup {line[i] : i \in 1 .. k + 1}
  BY DEF Serve
<1> QED BY <1>2, <1>3, <1>5, <1>6

\* executeNext starts the head of the line, or nothing.
LEMMA ExecuteNextServes ==
  ASSUME NEW s \in QueueState
  PROVE  \E k \in {0, 1} : /\ k <= Len(s.queue)
                           /\ ExecuteNext(s) = Serve(s.queue, k, s.executing, s.running)
<1>1. s.queue \in Seq(Fns) /\ s.running \in Nat
      /\ s = [queue |-> s.queue, running |-> s.running, executing |-> s.executing]
  BY DEF QueueState
<1>2. CASE Saturated(s) \/ s.queue = <<>>
  <2>1. SubSeq(s.queue, 0 + 1, Len(s.queue)) = s.queue
    BY <1>1, SubSeqFull
  <2>2. {s.queue[i] : i \in 1 .. 0} = {}
    OBVIOUS
  <2>3. Serve(s.queue, 0, s.executing, s.running) = s
    BY <1>1, <2>1, <2>2 DEF Serve
  <2> QED BY <1>1, <1>2, <2>3 DEF ExecuteNext
<1>3. CASE ~Saturated(s) /\ s.queue # <<>>
  <2>1. SubSeq(s.queue, 1 + 1, Len(s.queue)) = Tail(s.queue)
    BY <1>1, <1>3, TailIsSubSeq
  <2>2. {s.queue[i] : i \in 1 .. 1} = {Head(s.queue)}
    BY <1>1, <1>3
  <2>3. Len(s.queue) >= 1
    BY <1>1, <1>3
  <2> QED BY <1>3, <2>1, <2>2, <2>3 DEF ExecuteNext, Serve
<1> QED BY <1>2, <1>3

\* enqueue starts the head of the longer line, or nothing.
LEMMA EnqueuedServes ==
  ASSUME NEW s \in QueueState, NEW f \in Fns
  PROVE  \E k \in {0, 1} :
           Enqueued(s, f) = Serve(Append(s.queue, f), k, s.executing, s.running)
<1> DEFINE u == [s EXCEPT !.queue = Append(@, f)]
<1>1. /\ u \in QueueState /\ u.queue = Append(s.queue, f)
      /\ u.executing = s.executing /\ u.running = s.running
  BY DEF QueueState
<1> QED BY <1>1, ExecuteNextServes DEF Enqueued

\* The end of a function makes room for the head of the line.
LEMMA SettledServes ==
  ASSUME NEW s, Balanced(s), NEW f \in s.executing
  PROVE  \E k \in {0, 1} :
           /\ k <= Len(s.queue)
           /\ Settled(s, f) = Serve(s.queue, k, s.executing \ {f}, s.running - 1)
<1> DEFINE u == [s EXCEPT !.executing = @ \ {f}, !.running = @ - 1]
<1>1. s \in QueueState /\ IsFiniteSet(s.executing) /\ s.running = Cardinality(s.executing)
  BY DEF Balanced, Sound
<1>2. s.running \in Nat /\ s.running - 1 \in Nat
  <2>1. /\ IsFiniteSet(s.executing \ {f})
        /\ Cardinality(s.executing \ {f}) = Cardinality(s.executing) - 1
    BY <1>1, FS_RemoveElement
  <2> QED BY <1>1, <2>1, FS_CardinalityType
<1>3. /\ u \in QueueState /\ u.queue = s.queue
      /\ u.executing = s.executing \ {f} /\ u.running = s.running - 1
  BY <1>1, <1>2 DEF QueueState
<1> QED BY <1>3, ExecuteNextServes DEF Settled

\* A loop of enqueues starts as many as there is room for.
LEMMA EnqueuedAllServes ==
  ASSUME NEW s \in QueueState, NEW fs \in Seq(Fns)
  PROVE  \E k \in 0 .. Len(fs) :
           /\ EnqueuedAll(s, fs) = Serve(s.queue \o fs, k, s.executing, s.running)
           /\ MaxConcurrency # NaN /\ s.running <= MaxConcurrency => s.running + k <= MaxConcurrency
           /\ k < Len(fs) => MaxConcurrency # NaN /\ s.running + k >= MaxConcurrency
           /\ Saturated(s) => k = 0 \/ Len(fs) = 0
<1> DEFINE k == IF MaxConcurrency = NaN \/ s.running + Len(fs) <= MaxConcurrency
                  THEN Len(fs)
                  ELSE IF Saturated(s) THEN 0 ELSE MaxConcurrency - s.running
<1>1. s.running \in Nat /\ Len(fs) \in Nat
  BY DEF QueueState
<1>2. /\ k \in 0 .. Len(fs)
      /\ MaxConcurrency # NaN /\ s.running <= MaxConcurrency => s.running + k <= MaxConcurrency
      /\ k < Len(fs) => MaxConcurrency # NaN /\ s.running + k >= MaxConcurrency
      /\ Saturated(s) => k = 0 \/ Len(fs) = 0
  BY <1>1, MaxConcurrencyAssumption DEF Saturated
<1>3. EnqueuedAll(s, fs) = Serve(s.queue \o fs, k, s.executing, s.running)
  BY DEF EnqueuedAll, Serve
<1> QED BY <1>2, <1>3

\* EnqueuedAll is the loop that calls enqueue: nothing for no function, and
\* one more call for one more function.
LEMMA EnqueuedAllNone ==
  ASSUME NEW s \in QueueState
  PROVE  EnqueuedAll(s, <<>>) = s
<1>1. s.queue \in Seq(Fns) /\ s.running \in Nat
      /\ s = [queue |-> s.queue, running |-> s.running, executing |-> s.executing]
  BY DEF QueueState
<1>2. s.queue \o <<>> = s.queue /\ SubSeq(s.queue, 1, Len(s.queue)) = s.queue
  BY <1>1, SubSeqFull, ConcatEmptySeq
<1>3. <<>> \in Seq(Fns) /\ Len(<<>>) = 0
  BY EmptySeq
<1>4. PICK k \in 0 .. Len(<<>>) :
        EnqueuedAll(s, <<>>) = Serve(s.queue \o <<>>, k, s.executing, s.running)
  BY <1>3, EnqueuedAllServes
<1>5. k = 0
  BY <1>3, <1>4
<1>6. Serve(s.queue, 0, s.executing, s.running) = s
  <2>1. {s.queue[i] : i \in 1 .. 0} = {}
    OBVIOUS
  <2>2. s.running + 0 = s.running /\ 0 + 1 = 1
    BY <1>1
  <2> QED BY <1>1, <1>2, <2>1, <2>2 DEF Serve
<1> QED BY <1>2, <1>4, <1>5, <1>6

\* What is put at the end of one of two sequences is at the end of both.
LEMMA ConcatAppend ==
  ASSUME NEW S, NEW a \in Seq(S), NEW b \in Seq(S), NEW f \in S
  PROVE  a \o Append(b, f) = Append(a \o b, f)
<1> DEFINE one == <<f>>
<1>1. one \in Seq(S) /\ a \o b \in Seq(S)
  BY ConcatProperties
<1>2. Append(b, f) = b \o one
  BY AppendIsConcat
<1>3. Append(a \o b, f) = (a \o b) \o one
  BY <1>1, AppendIsConcat
<1> HIDE DEF one
<1>4. (a \o b) \o one = a \o (b \o one)
  BY <1>1, ConcatAssociative
<1> QED BY <1>2, <1>3, <1>4

LEMMA EnqueuedAllAppend ==
  ASSUME NEW s \in QueueState, NEW fs \in Seq(Fns), NEW f \in Fns
  PROVE  EnqueuedAll(s, Append(fs, f)) = Enqueued(EnqueuedAll(s, fs), f)
<1> DEFINE n == s.running
           room(m) == IF MaxConcurrency = NaN \/ n + m <= MaxConcurrency
                      THEN m ELSE IF Saturated(s) THEN 0 ELSE MaxConcurrency - n
           line == s.queue \o fs
           more == Append(line, f)
           k == room(Len(fs))
           j == room(Len(fs) + 1)
           t == Serve(line, k, s.executing, n)
           u == [queue |-> Append(t.queue, f), running |-> t.running, executing |-> t.executing]
<1>1. s.queue \in Seq(Fns) /\ n \in Nat /\ Len(fs) \in Nat
  BY DEF QueueState
<1>2. /\ line \in Seq(Fns) /\ Len(line) = Len(s.queue) + Len(fs) /\ Len(line) \in Nat
      /\ Len(s.queue) \in Nat
  BY <1>1, ConcatProperties
<1>3. s.queue \o Append(fs, f) = more /\ Len(Append(fs, f)) = Len(fs) + 1
  <2>1. s.queue \o Append(fs, f) = Append(s.queue \o fs, f)
    <3>1. \A a, b \in Seq(Fns) : a \o Append(b, f) = Append(a \o b, f)
      BY ConcatAppend
    <3> QED BY <1>1, <3>1
  <2>4. Len(Append(fs, f)) = Len(fs) + 1
    BY AppendProperties
  <2> QED BY <2>1, <2>4
<1>4. /\ EnqueuedAll(s, fs) = t
      /\ EnqueuedAll(s, Append(fs, f)) = Serve(more, j, s.executing, n)
  BY <1>3 DEF EnqueuedAll, Serve
<1>5. /\ k \in 0 .. Len(fs)
      /\ j \in {k, k + 1}
      /\ j = k <=> MaxConcurrency # NaN /\ n + k >= MaxConcurrency
  BY <1>1, MaxConcurrencyAssumption DEF Saturated
<1>6. /\ more \in Seq(Fns) /\ Len(more) = Len(line) + 1
  BY <1>2, AppendProperties
<1> HIDE DEF k, j, line, room
<1>7. k \in 0 .. Len(line) /\ k \in Nat /\ k < Len(more)
  BY <1>1, <1>2, <1>5, <1>6
<1>8. u = Serve(more, k, s.executing, n)
  <2>1. /\ Append(t.queue, f) = Serve(more, k, s.executing, n).queue
        /\ t.executing = Serve(more, k, s.executing, n).executing
    BY <1>2, <1>7, ServeAppend
  <2> QED BY <2>1 DEF Serve
<1>9. Enqueued(t, f) = ExecuteNext(Serve(more, k, s.executing, n))
  <2>0. t = [queue |-> t.queue, running |-> t.running, executing |-> t.executing]
    BY DEF Serve
  <2> HIDE DEF t
  <2>1. [t EXCEPT !.queue = Append(@, f)] = u
    BY <2>0
  <2> QED BY <1>8, <2>1 DEF Enqueued
<1> HIDE DEF more, t, u
<1>10. Saturated(Serve(more, k, s.executing, n)) <=> j = k
  BY <1>5 DEF Saturated, Serve
<1>11. CASE j = k
  BY <1>4, <1>9, <1>10, <1>11 DEF ExecuteNext
<1>12. CASE j = k + 1
  <2> DEFINE v == Serve(more, k, s.executing, n)
             w == Serve(more, k + 1, s.executing, n)
  <2>1. /\ v.queue # <<>> /\ Tail(v.queue) = w.queue
        /\ w.executing = v.executing \cup {Head(v.queue)}
    BY <1>6, <1>7, ServeOneMore
  <2>2. v.running + 1 = w.running
    BY <1>1, <1>7 DEF Serve
  <2>3. w = [queue |-> w.queue, running |-> w.running, executing |-> w.executing]
    BY DEF Serve
  <2>4. ~Saturated(v)
    BY <1>7, <1>10, <1>12
  <2> HIDE DEF v, w
  <2>5. ExecuteNext(v) = w
    BY <2>1, <2>2, <2>3, <2>4 DEF ExecuteNext
  <2> QED BY <1>4, <1>9, <1>12, <2>5 DEF v, w
<1> QED BY <1>5, <1>11, <1>12

\* A loop of enqueues keeps the balance: either all of its functions start, or
\* the maximum is reached.
LEMMA EnqueuedAllBalanced ==
  ASSUME NEW s, Balanced(s), NEW fs \in Seq(Fns),
         \A i, j \in DOMAIN fs : fs[i] = fs[j] => i = j,
         \A i \in DOMAIN fs : fs[i] \notin Queued(s) \cup s.executing
  PROVE  Balanced(EnqueuedAll(s, fs))
<1> DEFINE line == s.queue \o fs
           t == EnqueuedAll(s, fs)
<1>1. /\ s \in QueueState /\ s.queue \in Seq(Fns) /\ s.running \in Nat
      /\ s.executing \subseteq Fns /\ IsFiniteSet(s.executing)
      /\ s.running = Cardinality(s.executing)
      /\ MaxConcurrency # NaN => s.running <= MaxConcurrency
      /\ OnceEach(s)
      /\ s.queue # <<>> => Saturated(s)
  BY DEF Balanced, Sound, QueueState
<1>2. PICK k \in 0 .. Len(fs) :
           /\ t = Serve(line, k, s.executing, s.running)
           /\ MaxConcurrency # NaN /\ s.running <= MaxConcurrency => s.running + k <= MaxConcurrency
           /\ k < Len(fs) => MaxConcurrency # NaN /\ s.running + k >= MaxConcurrency
           /\ Saturated(s) => k = 0 \/ Len(fs) = 0
  BY <1>1, EnqueuedAllServes
<1>3. /\ line \in Seq(Fns) /\ Len(line) = Len(s.queue) + Len(fs)
      /\ \A i \in 1 .. Len(s.queue) + Len(fs) :
           line[i] = IF i <= Len(s.queue) THEN s.queue[i] ELSE fs[i - Len(s.queue)]
      /\ Len(s.queue) \in Nat /\ Len(fs) \in Nat
      /\ DOMAIN s.queue = 1 .. Len(s.queue) /\ DOMAIN fs = 1 .. Len(fs)
  BY <1>1, ConcatProperties
<1>4. k \in 0 .. Len(line) /\ k \in Nat
  BY <1>3
<1> HIDE DEF line, t
<1>5. \A i, j \in 1 .. Len(line) : line[i] = line[j] => i = j
  <2> SUFFICES ASSUME NEW i \in 1 .. Len(line), NEW j \in 1 .. Len(line), line[i] = line[j]
               PROVE  i = j
    OBVIOUS
  <2>1. CASE i <= Len(s.queue) /\ j <= Len(s.queue)
    <3>1. i \in DOMAIN s.queue /\ j \in DOMAIN s.queue
      BY <1>3, <2>1
    <3>2. line[i] = s.queue[i] /\ line[j] = s.queue[j]
      BY <1>3, <2>1
    <3> QED BY <1>1, <3>1, <3>2 DEF OnceEach
  <2>2. CASE i > Len(s.queue) /\ j > Len(s.queue)
    <3>1. i - Len(s.queue) \in DOMAIN fs /\ j - Len(s.queue) \in DOMAIN fs
      BY <1>3, <2>2
    <3>2. line[i] = fs[i - Len(s.queue)] /\ line[j] = fs[j - Len(s.queue)]
      BY <1>3, <2>2
    <3>3. i - Len(s.queue) = j - Len(s.queue)
      BY <3>1, <3>2
    <3>4. Len(s.queue) \in Nat /\ Len(line) \in Nat
      BY <1>3
    <3> QED BY <3>3, <3>4
  <2>3. ASSUME NEW a \in 1 .. Len(line), NEW b \in 1 .. Len(line),
               a <= Len(s.queue), b > Len(s.queue)
        PROVE  line[a] # line[b]
    <3>1. line[a] \in Queued(s)
      <4>1. a \in DOMAIN s.queue /\ line[a] = s.queue[a]
        BY <1>3, <2>3
      <4> QED BY <4>1 DEF Queued
    <3>2. b - Len(s.queue) \in DOMAIN fs /\ line[b] = fs[b - Len(s.queue)]
      BY <1>3, <2>3
    <3> QED BY <3>1, <3>2
  <2> QED BY <1>3, <2>1, <2>2, <2>3
<1>6. \A i \in 1 .. Len(line) : line[i] \notin s.executing
  <2> SUFFICES ASSUME NEW i \in 1 .. Len(line) PROVE line[i] \notin s.executing
    OBVIOUS
  <2>1. CASE i <= Len(s.queue)
    <3>1. i \in DOMAIN s.queue /\ line[i] = s.queue[i]
      BY <1>3, <2>1
    <3> QED BY <1>1, <3>1 DEF OnceEach, Queued
  <2>2. CASE i > Len(s.queue)
    <3>1. i - Len(s.queue) \in DOMAIN fs /\ line[i] = fs[i - Len(s.queue)]
      BY <1>3, <2>2
    <3> QED BY <3>1
  <2> QED BY <1>3, <2>1, <2>2
<1> DEFINE new == {line[i] : i \in 1 .. k}
<1>7. /\ t.queue \in Seq(Fns) /\ Len(t.queue) = Len(line) - k
      /\ \A i \in 1 .. Len(line) - k : t.queue[i] = line[k + i]
      /\ t.executing = s.executing \cup new
      /\ t.running = s.running + k
  <2>1. t = Serve(line, k, s.executing, s.running)
    BY <1>2
  <2>2. line \in Seq(Fns) /\ k \in 0 .. Len(line)
    BY <1>3, <1>4
  <2> QED BY <2>1, <2>2, ServeParts
<1>8. IsFiniteSet(new) /\ Cardinality(new) = k
  <2> DEFINE g == [i \in 1 .. k |-> line[i]]
  <2>1. g \in Bijection(1 .. k, new)
    <3>1. g \in Surjection(1 .. k, new)
      BY DEF Surjection
    <3>2. g \in Injection(1 .. k, new)
      <4>1. 1 .. k \subseteq 1 .. Len(line)
        BY <1>3, <1>4
      <4>2. \A a, b \in 1 .. k : line[a] = line[b] => a = b
        BY <1>5, <4>1
      <4> QED BY <4>2 DEF Injection, IsInjective
    <3> QED BY <3>1, <3>2 DEF Bijection
  <2>2. IsFiniteSet(1 .. k) /\ Cardinality(1 .. k) = k
    BY <1>4, FS_Interval
  <2> QED BY <2>1, <2>2, FS_Bijection DEF ExistsBijection
<1>9. IsFiniteSet(t.executing) /\ t.running = Cardinality(t.executing)
  <2>1. s.executing \cap new = {}
    <3>1. 1 .. k \subseteq 1 .. Len(line)
      BY <1>3, <1>4
    <3> QED BY <1>6, <3>1
  <2> HIDE DEF new
  <2>2. IsFiniteSet(t.executing) /\ Cardinality(t.executing) =
          Cardinality(s.executing) + Cardinality(new) - Cardinality(s.executing \cap new)
    <3>1. IsFiniteSet(s.executing) /\ IsFiniteSet(new)
      BY <1>1, <1>8
    <3>2. IsFiniteSet(s.executing \cup new) /\ Cardinality(s.executing \cup new) =
            Cardinality(s.executing) + Cardinality(new) - Cardinality(s.executing \cap new)
      BY <3>1, FS_Union
    <3>3. t.executing = s.executing \cup new
      BY <1>7
    <3> QED BY <3>2, <3>3
  <2>3. Cardinality({}) = 0
    BY FS_EmptySet
  <2>4. t.running = s.running + k /\ Cardinality(new) = k
    BY <1>7, <1>8
  <2>5. Cardinality(s.executing \cap new) = 0
    BY <2>1, <2>3
  <2>6. s.running \in Nat /\ k \in Nat /\ Cardinality(s.executing) = s.running
    BY <1>1, <1>4
  <2>7. Cardinality(t.executing) = s.running + k - 0
    BY <2>2, <2>4, <2>5, <2>6
  <2> QED BY <2>2, <2>4, <2>6, <2>7
<1>10. t \in QueueState
  <2>1. t.executing \subseteq Fns
    BY <1>1, <1>3, <1>4, <1>7
  <2>2. t = [queue |-> t.queue, running |-> t.running, executing |-> t.executing]
    BY <1>2 DEF Serve
  <2>3. t.running \in Nat
    BY <1>1, <1>4, <1>7
  <2> QED BY <1>7, <2>1, <2>2, <2>3 DEF QueueState
<1>11. OnceEach(t)
  <2>1. DOMAIN t.queue = 1 .. Len(line) - k
    BY <1>7
  <2>2. ASSUME NEW i \in 1 .. Len(line) - k
        PROVE  k + i \in 1 .. Len(line) /\ t.queue[i] = line[k + i]
    BY <1>3, <1>4, <1>7
  <2>3. \A i, j \in DOMAIN t.queue : t.queue[i] = t.queue[j] => i = j
    <3> SUFFICES ASSUME NEW i \in 1 .. Len(line) - k, NEW j \in 1 .. Len(line) - k,
                        t.queue[i] = t.queue[j]
                 PROVE  i = j
      BY <2>1
    <3>1. k + i = k + j
      BY <1>5, <2>2
    <3> QED BY <1>4, <3>1
  <2>4. \A i \in DOMAIN t.queue : t.queue[i] \notin t.executing
    <3> SUFFICES ASSUME NEW i \in 1 .. Len(line) - k PROVE t.queue[i] \notin t.executing
      BY <2>1
    <3>1. \A m \in 1 .. k : m \in 1 .. Len(line) /\ m # k + i
      BY <1>3, <1>4
    <3>2. line[k + i] \notin new
      BY <1>5, <2>2, <3>1
    <3> QED BY <1>6, <1>7, <2>2, <3>2
  <2> QED BY <2>3, <2>4 DEF OnceEach, Queued
<1>12. MaxConcurrency # NaN => t.running <= MaxConcurrency
  BY <1>1, <1>2, <1>7
<1>13. t.queue # <<>> => Saturated(t)
  <2> SUFFICES ASSUME t.queue # <<>> PROVE Saturated(t)
    OBVIOUS
  <2>1. Len(t.queue) # 0
    BY <1>7, EmptySeq
  <2>2. CASE k < Len(fs)
    BY <1>2, <1>7, <2>2 DEF Saturated
  <2>3. CASE k = Len(fs)
    <3>1. Len(s.queue) # 0 /\ s.queue # <<>>
      BY <1>3, <1>7, <2>1, <2>3, EmptySeq
    <3>2. k = 0
      BY <1>1, <1>2, <2>3, <3>1
    <3> QED BY <1>1, <1>7, <3>1, <3>2 DEF Saturated
  <2>4. k < Len(fs) \/ k = Len(fs)
    <3>1. Len(fs) \in Nat
      BY <1>3
    <3> QED BY <3>1
  <2> QED BY <2>2, <2>3, <2>4
<1> QED BY <1>9, <1>10, <1>11, <1>12, <1>13 DEF Balanced, Sound, t
=============================================================================
