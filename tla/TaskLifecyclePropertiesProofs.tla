--------------------- MODULE TaskLifecyclePropertiesProofs ---------------------
(***************************************************************************)
(* What else holds of the whole system. The invariants here stand on       *)
(* LifeInv, each with a strengthening of its own: the containers of this   *)
(* life of the process (NoLeakStep), ResultInv, RankInv, EntryInv,         *)
(* MatchInv, PendInv, OwnInv, RunningInv and BuildInv.                     *)
(* Where a theorem has a hypothesis on what clients ask for or on crashes, *)
(* the code does break the property without it, and the comment of the     *)
(* theorem says how.                                                       *)
(***************************************************************************)
EXTENDS TaskLifecycleProofs

-----------------------------------------------------------------------------
(* Where the handles of the queue and the frames of runs come from.        *)

\* What a step makes of the queue, of its handles and of the runs' frames.
Served(line, base) ==
  /\ line \in Seq(RunHandles)
  /\ \E k, n : k \in 0 .. Len(line) /\ queue' = Serve(line, k, base, n)

\* The three events of the queue: the end of a registration, the end of a
\* function, and a round of the start-up.
LEMMA EnqueueServed ==
  ASSUME LifeInv, NEW p \in Callers, TickReturn(p), Holds(p)
  PROVE  /\ Served(Append(queue.queue, Held(p)), queue.executing)
         /\ QueueBecomes(queue', proc)
<1> DEFINE h == Held(p)
<1>1. QueueBecomes(Queue!Enqueued(queue, h), proc)
  BY DEF TickReturn, Holds, Held
<1>2. h \in RunHandles
  BY HeldOK
<1> HIDE DEF h
<1>3. queue.queue \in Seq(RunHandles) /\ queue \in QueueProofs!QueueState
      /\ h \in [taskId : Labels, runId : RunIds, runRank : Nat \cup {Infinity}]
      /\ Queue!Enqueued(queue, h) = QueueProofs!Enqueued(queue, h)
  BY <1>2, QueueFacts, SameQueue DEF RunHandles
<1>4. PICK k \in {0, 1} : Queue!Enqueued(queue, h)
        = Serve(Append(queue.queue, h), k, queue.executing, queue.running)
  BY <1>3, ConcurrencyAssumption, QueueProofs!EnqueuedServes DEF Serve
<1>5. /\ Append(queue.queue, h) \in Seq(RunHandles)
      /\ Len(Append(queue.queue, h)) = Len(queue.queue) + 1 /\ Len(queue.queue) \in Nat
  BY <1>2, <1>3, AppendProperties
<1>6. k \in 0 .. Len(Append(queue.queue, h))
  BY <1>5
<1>7. queue' = Queue!Enqueued(queue, h)
  BY <1>1 DEF QueueBecomes
<1>8. Served(Append(queue.queue, h), queue.executing)
  BY <1>4, <1>5, <1>6, <1>7 DEF Served
<1> QED BY <1>1, <1>7, <1>8 DEF h

LEMMA SettleServed ==
  ASSUME LifeInv, NEW r \in RunIds, RunSettles(r)
  PROVE  /\ Served(queue.queue, queue.executing \ {HandleIn(queue, r)})
         /\ QueueBecomes(queue', [proc EXCEPT ![r] = IdleProc])
         /\ HandleIn(queue, r) \in queue.executing /\ HandleIn(queue, r).runId = r
<1> DEFINE f == HandleIn(queue, r)
<1>1. QueueBecomes(Queue!Settled(queue, f), [proc EXCEPT ![r] = IdleProc])
      /\ proc[r].pc = "settle"
  BY DEF RunSettles, At
<1>2. f \in queue.executing /\ f.runId = r
  <2>1. \E h \in queue.executing : h.runId = r
    BY <1>1 DEF LifeInv, Core, ExecInv
  <2> QED BY <2>1 DEF HandleIn
<1> HIDE DEF f
<1>3. PICK k \in {0, 1} : /\ k <= Len(queue.queue)
        /\ Queue!Settled(queue, f)
             = Serve(queue.queue, k, queue.executing \ {f}, queue.running - 1)
  <2>1. QueueProofs!Balanced(queue)
    BY DEF LifeInv
  <2>2. \E k \in {0, 1} :
          /\ k <= Len(queue.queue)
          /\ QueueProofs!Settled(queue, f)
               = QueueProofs!Serve(queue.queue, k, queue.executing \ {f}, queue.running - 1)
    BY <1>2, <2>1, ConcurrencyAssumption, QueueProofs!SettledServes
  <2> QED BY <2>2, SameQueue DEF Serve
<1>4. queue.queue \in Seq(RunHandles) /\ k \in 0 .. Len(queue.queue)
  <2>1. queue.queue \in Seq(RunHandles) /\ Len(queue.queue) \in Nat
    BY QueueFacts, LineAtRest
  <2> QED BY <1>3, <2>1
<1>5. queue' = Queue!Settled(queue, f)
  BY <1>1 DEF QueueBecomes
<1>6. Served(queue.queue, queue.executing \ {f})
  BY <1>3, <1>4, <1>5 DEF Served
<1> QED BY <1>1, <1>2, <1>5, <1>6 DEF f

\* The task of this round of the start-up, and the runs that it queues.
BootsWith(t, s) ==
  /\ t \in toBoot /\ t \in tasks /\ toBoot' = toBoot \ {t}
  /\ s \in PendingRuns(t)
  /\ Served(queue.queue \o Handles(s), queue.executing)

LEMMA BootServed ==
  ASSUME LifeInv, BootTask
  PROVE  /\ \E t, s : BootsWith(t, s)
         /\ QueueBecomes(queue', proc)
<1>1. PICK t, s :
        /\ t \in toBoot /\ t \in tasks /\ s \in PendingRuns(t) /\ toBoot' = toBoot \ {t}
        /\ QueueBecomes(Queue!EnqueuedAll(queue, Handles(s)), proc)
  BY BootTaskSchedules
<1> DEFINE fs == Handles(s)
           line == queue.queue \o fs
<1>2. fs \in Seq(RunHandles)
  BY <1>1, PendingRunsOf
<1> HIDE DEF fs
<1>3. /\ queue.queue \in Seq(RunHandles) /\ queue \in QueueProofs!QueueState
      /\ fs \in Seq([taskId : Labels, runId : RunIds, runRank : Nat \cup {Infinity}])
      /\ Queue!EnqueuedAll(queue, fs) = QueueProofs!EnqueuedAll(queue, fs)
  BY <1>2, QueueFacts, SameQueue DEF RunHandles
<1>4. PICK k \in 0 .. Len(fs) :
        Queue!EnqueuedAll(queue, fs) = Serve(line, k, queue.executing, queue.running)
  BY <1>3, ConcurrencyAssumption, QueueProofs!EnqueuedAllServes DEF Serve
<1>5. /\ line \in Seq(RunHandles) /\ Len(line) = Len(queue.queue) + Len(fs)
      /\ Len(queue.queue) \in Nat /\ Len(fs) \in Nat
  BY <1>2, <1>3, ConcatProperties
<1> HIDE DEF line
<1>6. k \in 0 .. Len(line)
  BY <1>5
<1>7. queue' = Queue!EnqueuedAll(queue, fs)
  BY <1>1 DEF QueueBecomes, fs
<1>8. Served(line, queue.executing)
  BY <1>4, <1>5, <1>6, <1>7 DEF Served
<1>9. BootsWith(t, s)
  BY <1>1, <1>8 DEF BootsWith, line, fs
<1> QED BY <1>1, <1>7, <1>9 DEF fs

\* Nothing comes out of an event but the line and what executed before.
LEMMA ServedFacts ==
  ASSUME NEW line, NEW base, Served(line, base)
  PROVE  /\ \A h \in Queue!Queued(queue)' : \E i \in 1 .. Len(line) : h = line[i]
         /\ \A h \in queue'.executing : h \in base \/ \E i \in 1 .. Len(line) : h = line[i]
         /\ base \subseteq queue'.executing
         /\ \A i \in 1 .. Len(line) :
              line[i] \in Queue!Queued(queue)' \cup queue'.executing
<1>1. PICK k, n : k \in 0 .. Len(line) /\ queue' = Serve(line, k, base, n)
  BY DEF Served
<1>2. line \in Seq(RunHandles) /\ Len(line) \in Nat /\ k \in 0 .. Len(line)
  BY <1>1 DEF Served
<1>3. /\ DOMAIN queue'.queue = 1 .. Len(line) - k
      /\ \A i \in 1 .. Len(line) - k : /\ queue'.queue[i] = line[k + i]
                                       /\ k + i \in k + 1 .. Len(line)
      /\ queue'.executing = base \cup {line[i] : i \in 1 .. k}
  BY <1>1, <1>2, ServeFacts
<1>4. \A i \in 1 .. Len(line) : i <= k => line[i] \in queue'.executing
  BY <1>2, <1>3
<1>5. \A i \in 1 .. Len(line) : i > k => line[i] \in Queue!Queued(queue)'
  <2> SUFFICES ASSUME NEW i \in 1 .. Len(line), i > k
               PROVE  line[i] \in Queue!Queued(queue)'
    OBVIOUS
  <2>1. i - k \in 1 .. Len(line) - k /\ k + (i - k) = i
    BY <1>2
  <2> QED BY <1>3, <2>1 DEF Queue!Queued
<1>6. k \in Int /\ 1 .. k \subseteq 1 .. Len(line) /\ k + 1 .. Len(line) \subseteq 1 .. Len(line)
  BY <1>2
<1>7. \A h \in Queue!Queued(queue)' : \E i \in 1 .. Len(line) : h = line[i]
  BY <1>3, <1>6 DEF Queue!Queued
<1>8. \A i \in 1 .. Len(line) : i <= k \/ i > k
  BY <1>2
<1> QED BY <1>3, <1>4, <1>5, <1>6, <1>7, <1>8

\* Where a handle that the queue gets comes from.
New(h) ==
  \/ \E p \in Callers : TickReturn(p) /\ Holds(p) /\ h = Held(p)
  \/ /\ BootTask
     /\ \E run \in runs : /\ h = Handle(run) /\ run.taskId \in toBoot
                          /\ status[run.id] = "pending"

\* Where the handles of the queue come from, and how they leave it.
LEMMA Origins ==
  ASSUME LifeInv, [LifeNext]_vars
  PROVE  /\ \A h \in Queue!Queued(queue)' : h \in Queue!Queued(queue) \/ New(h)
         /\ \A h \in queue'.executing : h \in AllHandles \/ New(h)
         /\ \A h \in queue.executing :
              h \in queue'.executing \/ Crash \/ (h.runId \in RunIds /\ RunSettles(h.runId))
         /\ \A h \in Queue!Queued(queue) :
              h \in Queue!Queued(queue)' \cup queue'.executing \/ Crash
<1>0. /\ \A i \in 1 .. Len(queue.queue) : queue.queue[i] \in Queue!Queued(queue)
      /\ \A h \in Queue!Queued(queue) : \E i \in 1 .. Len(queue.queue) : h = queue.queue[i]
      /\ queue.queue \in Seq(RunHandles) /\ Len(queue.queue) \in Nat
  <2>1. DOMAIN queue.queue = 1 .. Len(queue.queue)
    BY LineAtRest
  <2> QED BY <2>1, LineAtRest, QueueFacts DEF Queue!Queued
<1>1. CASE UNCHANGED queue
  BY <1>1 DEF Queue!Queued, AllHandles
<1>2. CASE Crash
  BY <1>2 DEF Crash, Queue!EmptyQueue, Queue!Queued
<1>3. ASSUME NEW p \in Callers, TickReturn(p), queue' # queue
      PROVE  /\ \A h \in Queue!Queued(queue)' : h \in Queue!Queued(queue) \/ New(h)
             /\ \A h \in queue'.executing : h \in AllHandles \/ New(h)
             /\ queue.executing \subseteq queue'.executing
             /\ \A h \in Queue!Queued(queue) : h \in Queue!Queued(queue)' \cup queue'.executing
  <2>1. Holds(p)
    BY <1>3 DEF TickReturn, Holds
  <2> DEFINE line == Append(queue.queue, Held(p))
  <2>2. Served(line, queue.executing) /\ Held(p) \in RunHandles
    BY <1>3, <2>1, EnqueueServed, HeldOK
  <2>3. New(Held(p))
    BY <1>3, <2>1 DEF New
  <2>4. /\ \A i \in 1 .. Len(line) : line[i] \in Queue!Queued(queue) \/ New(line[i])
        /\ \A i \in 1 .. Len(queue.queue) : i \in 1 .. Len(line) /\ line[i] = queue.queue[i]
    <3>1. /\ Len(line) = Len(queue.queue) + 1
          /\ \A i \in 1 .. Len(queue.queue) : line[i] = queue.queue[i]
          /\ line[Len(queue.queue) + 1] = Held(p)
      BY <1>0, <2>2, AppendProperties
    <3> HIDE DEF line
    <3>2. \A i \in 1 .. Len(line) : i \in 1 .. Len(queue.queue) \/ i = Len(queue.queue) + 1
      BY <1>0, <3>1
    <3> QED BY <1>0, <2>3, <3>1, <3>2
  <2> HIDE DEF line
  <2> QED BY <1>0, <2>2, <2>4, ServedFacts DEF AllHandles
<1>4. ASSUME NEW r \in RunIds, RunSettles(r)
      PROVE  /\ \A h \in Queue!Queued(queue)' : h \in Queue!Queued(queue)
             /\ \A h \in queue'.executing : h \in AllHandles
             /\ \A h \in queue.executing : h \in queue'.executing \/ h.runId = r
             /\ \A h \in Queue!Queued(queue) : h \in Queue!Queued(queue)' \cup queue'.executing
  <2>1. /\ Served(queue.queue, queue.executing \ {HandleIn(queue, r)})
        /\ HandleIn(queue, r).runId = r
    BY <1>4, SettleServed
  <2> QED BY <1>0, <2>1, ServedFacts DEF AllHandles
<1>5. ASSUME BootTask
      PROVE  /\ \A h \in Queue!Queued(queue)' : h \in Queue!Queued(queue) \/ New(h)
             /\ \A h \in queue'.executing : h \in AllHandles \/ New(h)
             /\ queue.executing \subseteq queue'.executing
             /\ \A h \in Queue!Queued(queue) : h \in Queue!Queued(queue)' \cup queue'.executing
  <2>1. PICK t, s : BootsWith(t, s)
    BY <1>5, BootServed
  <2> DEFINE fs == Handles(s)
             line == queue.queue \o fs
  <2>2. Served(line, queue.executing) /\ t \in toBoot /\ s \in PendingRuns(t)
    BY <2>1 DEF BootsWith
  <2>3. /\ fs \in Seq(RunHandles)
        /\ \A i \in 1 .. Len(fs) : fs[i] = Handle(s[i]) /\ s[i] \in RunsOf(t)
                                   /\ status[s[i].id] = "pending"
    BY <2>2, PendingRunsOf
  <2>4. \A i \in 1 .. Len(fs) : New(fs[i])
    BY <1>5, <2>2, <2>3 DEF New, RunsOf
  <2> HIDE DEF fs
  <2>5. /\ Len(line) = Len(queue.queue) + Len(fs) /\ Len(fs) \in Nat
        /\ \A i \in 1 .. Len(queue.queue) + Len(fs) :
             line[i] = IF i <= Len(queue.queue) THEN queue.queue[i] ELSE fs[i - Len(queue.queue)]
    BY <1>0, <2>3, ConcatProperties
  <2> HIDE DEF line
  <2>6. \A i \in 1 .. Len(line) :
          \/ i \in 1 .. Len(queue.queue) /\ line[i] = queue.queue[i]
          \/ i - Len(queue.queue) \in 1 .. Len(fs) /\ line[i] = fs[i - Len(queue.queue)]
    BY <1>0, <2>5
  <2>7. \A i \in 1 .. Len(queue.queue) : i \in 1 .. Len(line) /\ line[i] = queue.queue[i]
    BY <1>0, <2>5
  <2>8. \A i \in 1 .. Len(line) : line[i] \in Queue!Queued(queue) \/ New(line[i])
    BY <1>0, <2>4, <2>6
  <2> QED BY <1>0, <2>2, <2>7, <2>8, ServedFacts DEF AllHandles
<1>6. WhoChanges
  BY WhoChangesWhat
<1>7. \A h \in queue.executing : h.runId \in RunIds
  BY QueueFacts DEF RunHandles
<1> QED BY <1>1, <1>2, <1>3, <1>4, <1>5, <1>6, <1>7 DEF WhoChanges, ChangesQueue

\* A run that the queue gets, or starts, does not execute yet.
LEMMA NotExecuting ==
  ASSUME LifeInv, NEW h, h \in Queue!Queued(queue) \/ New(h)
  PROVE  /\ \A g \in queue.executing : g.runId # h.runId
         /\ h.runId \in RunIds /\ proc[h.runId].pc = "idle"
<1>1. CASE h \in Queue!Queued(queue)
  <2>1. h \in RunHandles
    BY <1>1, QueueFacts
  <2> QED BY <1>1, <2>1 DEF RunHandles, Queue!Queued, LifeInv, Core, PlaceInv, RunQueuedOnce, ExecInv
<1>2. ASSUME NEW p \in Callers, Holds(p), h = Held(p)
      PROVE  (\A g \in queue.executing : g.runId # h.runId) /\ h.runId \in RunIds
  BY <1>2, HeldOK DEF AllHandles, RunHandles
<1>3. ASSUME BootTask, NEW run \in runs, h = Handle(run), run.taskId \in toBoot
      PROVE  (\A g \in queue.executing : g.runId # h.runId) /\ h.runId \in RunIds
  <2>1. h.runId = run.id /\ h.taskId = run.taskId
    BY <1>3 DEF Handle
  <2>2. \A g \in queue.executing : g.runId = h.runId => g = h
    BY <1>3, <2>1 DEF LifeInv, Core, IdsInv, AllHandles
  <2>3. \A g \in queue.executing : g.taskId # run.taskId
    BY <1>3 DEF LifeInv, Core, ServerInv, AllHandles
  <2>4. h.runId \in RunIds
    <3>1. run.id \in 1 .. lastId /\ lastId \in 0 .. MaxRunId
      BY DEF LifeInv, RegInv, RegTypeOK, Core, IdsInv
    <3> QED BY <2>1, <3>1, MaxRunIdAssumption DEF RunIds
  <2> QED BY <2>1, <2>2, <2>3, <2>4
<1>4. (\A g \in queue.executing : g.runId # h.runId) /\ h.runId \in RunIds
  BY <1>1, <1>2, <1>3 DEF New
<1> QED BY <1>4 DEF LifeInv, Core, ExecInv

\* What a step makes of the frame of a run.
LEMMA RunFrames ==
  ASSUME LifeInv, [LifeNext]_vars, NEW r \in RunIds
  PROVE  \/ proc'[r] = proc[r]
         \/ FrameStep(r)
         \/ proc'[r] = IdleProc /\ (Crash \/ RunSettles(r))
         \/ /\ proc[r].pc = "idle"
            /\ \E h \in queue'.executing :
                 h.runId = r /\ proc'[r] = FrameOf(h) /\ (h \in Queue!Queued(queue) \/ New(h))
<1>1. r \in Procs /\ DOMAIN proc = Procs
  BY ProcKinds DEF LifeInv, Core, ProcInv
<1>2. CASE UNCHANGED proc
  BY <1>2
<1>3. CASE Crash
  BY <1>1, <1>3 DEF Crash
<1>4. CASE \E x \in Procs : FrameStep(x)
  BY <1>1, <1>4, FrameMoves DEF Moves
<1>5. ASSUME NEW pr, QueueBecomes(queue', pr), pr[r] = proc[r] \/ (pr[r] = IdleProc /\ RunSettles(r))
      PROVE  \/ proc'[r] = proc[r]
             \/ proc'[r] = IdleProc /\ RunSettles(r)
             \/ /\ proc[r].pc = "idle"
                /\ \E h \in queue'.executing :
                     h.runId = r /\ proc'[r] = FrameOf(h) /\ (h \in Queue!Queued(queue) \/ New(h))
  <2>1. LifeInv'
    BY LifeInvStep
  <2>2. queue'.executing \subseteq RunHandles /\ OneEach(queue'.executing)
    BY <2>1 DEF LifeInv, Core, PlaceInv, OneEach, QueueProofs!Balanced, QueueProofs!Sound,
       QueueProofs!QueueState, RunHandles
  <2>3. /\ \A h \in queue'.executing \ queue.executing : proc'[h.runId] = FrameOf(h)
        /\ (\A h \in queue'.executing \ queue.executing : h.runId # r) => proc'[r] = pr[r]
    BY <1>1, <1>5, <2>2, BecomesFrames
  <2>4. CASE \A h \in queue'.executing \ queue.executing : h.runId # r
    BY <1>5, <2>3, <2>4
  <2>5. ASSUME NEW h \in queue'.executing \ queue.executing, h.runId = r
        PROVE  proc[r].pc = "idle" /\ (h \in Queue!Queued(queue) \/ New(h))
    <3>1. h \in Queue!Queued(queue) \/ New(h)
      BY <2>5, Origins DEF AllHandles
    <3> QED BY <2>5, <3>1, NotExecuting
  <2> QED BY <2>3, <2>4, <2>5
<1>6. ASSUME NEW p \in Callers, TickReturn(p)
      PROVE  UNCHANGED proc \/ QueueBecomes(queue', proc)
  <2>1. Holds(p) => QueueBecomes(queue', proc)
    BY <1>6, EnqueueServed
  <2> QED BY <1>6, <2>1 DEF TickReturn, Holds
<1>7. ASSUME NEW x \in RunIds, RunSettles(x)
      PROVE  /\ QueueBecomes(queue', [proc EXCEPT ![x] = IdleProc])
             /\ LET pr == [proc EXCEPT ![x] = IdleProc]
                IN  pr[r] = proc[r] \/ (pr[r] = IdleProc /\ RunSettles(r))
  BY <1>1, <1>7, SettleServed
<1>8. BootTask => QueueBecomes(queue', proc)
  BY BootServed
<1>9. WhoChanges
  BY WhoChangesWhat
<1>10. ChangesProc => \/ UNCHANGED proc \/ Crash \/ BootTask
                      \/ \E x \in Procs : FrameStep(x)
                      \/ \E p \in Callers : TickReturn(p)
                      \/ \E x \in RunIds : RunSettles(x)
  BY ProcKinds DEF ChangesProc, FrameStep
<1> QED BY <1>2, <1>3, <1>4, <1>5, <1>6, <1>7, <1>8, <1>9, <1>10 DEF WhoChanges

-----------------------------------------------------------------------------
(* Frames.                                                                 *)

\* What a command or query that rejects does: a request ends, a run is caught.
LEMMA CommandFailsFacts ==
  ASSUME LifeInv, NEW x \in Procs, CommandFails(x)
  PROVE  /\ proc[x].pc \in {"list", "image", "rmi", "start", "finish"}
         /\ \/ /\ proc[x].op \in {"stop", "delete", "update"}
               /\ proc'[x] = Done(x)
               /\ proc[x].pc \in {"list", "image"}
               /\ At(x, "list") => "ls" \in Failures
               /\ At(x, "image") => "rmi" \in Failures
            \/ /\ x \in RunIds
               /\ proc[x].op \in {"run", "limit"}
               /\ proc[x].op = "run" => "status" \in Failures
               /\ Catch(x)
               /\ proc'[x] = [proc[x] EXCEPT !.op = "stop", !.pc = "find"]
<1>1. ProcInv /\ DOMAIN proc = Procs
  BY DEF LifeInv, Core, ProcInv
<1>2. "start" \in Steps("run") /\ "finish" \in Steps("run")
  BY StepsOf
<1>3. \/ At(x, "list") /\ "ls" \in Failures
      \/ (At(x, "image") \/ At(x, "rmi")) /\ "rmi" \in Failures
      \/ (At(x, "start") \/ At(x, "finish")) /\ "status" \in Failures
  BY DEF CommandFails
<1>4. /\ proc[x].op \in {"run", "limit", "stop", "delete", "update"}
      /\ proc[x].op = "run" => "status" \in Failures
      /\ proc[x].op \notin {"run", "limit"} => proc[x].pc \in {"list", "image"}
  BY <1>1, <1>2, <1>3, OpAt DEF At
<1>5. CASE proc[x].op \in {"run", "limit"}
  <2>1. x \in RunIds
    BY <1>1, <1>5, ProcKinds DEF ProcInv
  <2>2. Catch(x) /\ proc' = [proc EXCEPT ![x] = [proc[x] EXCEPT !.op = "stop", !.pc = "find"]]
    BY <1>1, <1>5 DEF CommandFails, Catch
  <2> QED BY <1>1, <1>3, <1>4, <1>5, <2>1, <2>2 DEF At
<1>6. CASE proc[x].op \notin {"run", "limit"}
  <2>1. proc'[x] = Done(x)
    BY <1>1, <1>6 DEF CommandFails, Finish
  <2> QED BY <1>3, <1>4, <1>6, <2>1 DEF At
<1> QED BY <1>5, <1>6

\* The steps of a request belong to a request, those that fail apart.
LEMMA RoutineNotRun ==
  ASSUME LifeInv, NEW x \in Procs, RoutineStep(x), ~CommandFails(x)
  PROVE  proc[x].op \in DOMAIN Routine \ {"run"} /\ proc[x].pc \in Steps(proc[x].op)
         /\ proc[x] \in Frames /\ DOMAIN proc = Procs
<1>1. ProcInv /\ proc[x] \in Frames /\ DOMAIN proc = Procs
      /\ (proc[x].op # "none" => proc[x].pc \in Steps(proc[x].op))
  BY DEF LifeInv, Core, ProcInv, FrameOK
<1>2. proc[x].op \in {"create", "start", "stop", "delete", "update", "limit"}
  BY <1>1, OpAt DEF RoutineStep, Find, Deactivate, Activate, Unschedule, ListChildren,
           HandleChild, StopPending, RemoveImage, Register, UpdateRow, DeleteRow
<1> QED BY <1>1, <1>2, StepsOf

\* The next frame of a routine: over, or the same request at another step.
LEMMA AfterKeeps ==
  ASSUME NEW x, NEW f \in Frames, f.op \in DOMAIN Routine, NEW pc \in Steps(f.op)
  PROVE  \/ After(x, f, pc) = Done(x)
         \/ /\ After(x, f, pc) \in Frames /\ After(x, f, pc).op = f.op
            /\ After(x, f, pc).task = f.task /\ After(x, f, pc).config = f.config
            /\ After(x, f, pc).pc \in Steps(f.op)
<1>1. CASE After(x, f, pc) = Done(x)
  BY <1>1
<1>2. ASSUME NEW q \in Steps(f.op), After(x, f, pc) = [f EXCEPT !.pc = q]
      PROVE  /\ After(x, f, pc) \in Frames /\ After(x, f, pc).op = f.op
             /\ After(x, f, pc).task = f.task /\ After(x, f, pc).config = f.config
             /\ After(x, f, pc).pc = q
  <2>1. [f EXCEPT !.pc = q] \in Frames
    BY StepNamesOf DEF Frames
  <2> QED BY <1>2, <2>1 DEF Frames
<1> QED BY <1>1, <1>2, AfterInRoutine

\* A step of a request leads to another step of it, ends it, or is caught.
LEMMA RoutineTrack ==
  ASSUME LifeInv, NEW x \in Procs, RoutineStep(x)
  PROVE  \/ proc'[x] = Done(x)
         \/ /\ x \in RunIds /\ CommandFails(x) /\ proc[x].op \in {"run", "limit"}
            /\ proc'[x] = [proc[x] EXCEPT !.op = "stop", !.pc = "find"]
         \/ /\ proc'[x].op = proc[x].op /\ proc'[x].task = proc[x].task
            /\ proc'[x].pc \in Steps(proc[x].op)
            /\ proc'[x].config = proc[x].config \/ (Find(x) /\ proc[x].op = "start")
<1>0. CASE CommandFails(x)
  BY <1>0, CommandFailsFacts
<1> SUFFICES ASSUME ~CommandFails(x)
             PROVE  \/ proc'[x] = Done(x)
                    \/ /\ proc'[x].op = proc[x].op /\ proc'[x].task = proc[x].task
                       /\ proc'[x].pc \in Steps(proc[x].op)
                       /\ proc'[x].config = proc[x].config \/ (Find(x) /\ proc[x].op = "start")
  BY <1>0
<1> DEFINE f == proc[x]
<1>1. /\ f.op \in DOMAIN Routine /\ f.pc \in Steps(f.op) /\ f \in Frames
      /\ DOMAIN proc = Procs
  BY RoutineNotRun
<1>2. ASSUME NEW g \in Frames, NEW pc \in Steps(f.op), g.op = f.op, g.task = f.task,
             proc' = [proc EXCEPT ![x] = After(x, g, pc)]
      PROVE  \/ proc'[x] = Done(x)
             \/ /\ proc'[x].op = f.op /\ proc'[x].task = f.task
                /\ proc'[x].pc \in Steps(f.op) /\ proc'[x].config = g.config
  BY <1>1, <1>2, AfterKeeps
<1>3. CASE Advance(x)
  <2>1. proc' = [proc EXCEPT ![x] = After(x, f, f.pc)]
    BY <1>1, <1>3 DEF Advance
  <2> QED BY <1>1, <1>2, <2>1
<1>4. CASE Find(x)
  <2>1. CASE Finish(x)
    BY <1>1, <2>1 DEF Finish
  <2>2. f.pc = "find"
    BY <1>4 DEF Find, At
  <2>3. CASE f.op # "start" /\ ~Finish(x)
    <3>1. proc' = [proc EXCEPT ![x] = After(x, f, "find")]
      BY <1>4, <2>3 DEF Find
    <3> QED BY <1>1, <1>2, <2>2, <3>1
  <2>4. CASE f.op = "start" /\ ~Finish(x)
    <3> DEFINE g == [f EXCEPT !.config = row[f.task].config]
    <3>1. proc' = [proc EXCEPT ![x] = After(x, g, "find")] /\ f.task \in tasks
      BY <1>4, <2>4 DEF Find
    <3>2. g \in Frames /\ g.op = f.op /\ g.task = f.task
      <4>1. row[f.task].config \in Configs
        BY <3>1, TaskTypes DEF LifeInv, Core, LifeTypeOK
      <4> QED BY <1>1, <4>1 DEF Frames
    <3> HIDE DEF g
    <3> QED BY <1>1, <1>2, <1>4, <2>2, <2>4, <3>1, <3>2
  <2> QED BY <2>1, <2>3, <2>4
<1>5. CASE ListChildren(x)
  <2> DEFINE C == Children(f.task)
             g == [f EXCEPT !.pc = "children", !.children = C]
  <2>1. f.pc = "list" /\ "children" \in Steps(f.op)
    BY <1>1, <1>5, StepsOf DEF ListChildren, At
  <2>2. CASE C = {}
    <3>1. proc' = [proc EXCEPT ![x] = After(x, f, "children")]
      BY <1>1, <1>5, <2>2 DEF ListChildren
    <3> QED BY <1>1, <1>2, <2>1, <3>1
  <2>3. CASE C # {}
    <3>1. proc' = [proc EXCEPT ![x] = g]
      BY <1>1, <1>5, <2>3 DEF ListChildren
    <3>2. g.op = f.op /\ g.task = f.task /\ g.pc = "children" /\ g.config = f.config
      BY <1>1 DEF Frames
    <3> QED BY <1>1, <2>1, <3>1, <3>2
  <2> QED BY <2>2, <2>3
<1>6. ASSUME NEW b \in Boxes, HandleChild(x, b)
      PROVE  \/ proc'[x] = Done(x)
             \/ /\ proc'[x].op = proc[x].op /\ proc'[x].task = proc[x].task
                /\ proc'[x].pc \in Steps(proc[x].op) /\ proc'[x].config = proc[x].config
  <2> DEFINE g == [f EXCEPT !.children = @ \ {b}]
  <2>1. f.pc = "children"
    BY <1>6 DEF HandleChild, At
  <2>2. g \in Frames /\ g.op = f.op /\ g.task = f.task /\ g.config = f.config /\ g.pc = f.pc
    BY <1>1 DEF Frames
  <2>3. \/ proc' = [proc EXCEPT ![x] = After(x, g, "children")]
        \/ proc' = [proc EXCEPT ![x] = g]
    BY <1>6 DEF HandleChild
  <2> HIDE DEF g
  <2>4. CASE proc' = [proc EXCEPT ![x] = After(x, g, "children")]
    BY <1>1, <1>2, <2>1, <2>2, <2>4
  <2>5. CASE proc' = [proc EXCEPT ![x] = g]
    BY <1>1, <2>2, <2>5
  <2> QED BY <2>3, <2>4, <2>5
<1> QED BY <1>3, <1>4, <1>5, <1>6 DEF RoutineStep, Deactivate, Activate, Unschedule,
           StopPending, RemoveImage, Register, UpdateRow, DeleteRow

-----------------------------------------------------------------------------
(* The executor function of a run.                                         *)

\* Each step of runTaskImpl leads to the next one, or out of it.
LEMMA RunTrack ==
  ASSUME LifeInv, NEW r \in RunIds, FrameStep(r)
  PROVE  /\ proc[r].op = "run" => RunStep(r) \/ (CommandFails(r) /\ "status" \in Failures)
         /\ proc'[r].op = "run" => proc[r].op = "run" /\
              \/ RunCheck(r) /\ proc[r].pc = "check" /\ proc'[r].pc = "run"
              \/ RunDocker(r) /\ proc[r].pc = "run" /\ proc'[r].pc = "start"
              \/ RunStart(r) /\ proc[r].pc = "start" /\ proc'[r].pc = "wait"
              \/ RunWait(r) /\ proc[r].pc = "wait" /\ proc'[r].pc = "finish"
              \/ RunFinish(r) /\ proc[r].pc = "finish" /\ proc'[r].pc = "remove"
         /\ proc'[r].op # "run" /\ proc[r].op = "run" =>
              \/ RunCheck(r) \/ RunDockerFails(r) \/ RunRemove(r)
              \/ RunWait(r) /\ box[BoxOf(r)] = Nil
              \/ CommandFails(r) /\ "status" \in Failures
<1> DEFINE f == proc[r]
<1>1. /\ r \in Procs /\ r \notin Clients /\ ProcInv /\ DOMAIN proc = Procs
      /\ proc[r] \in Frames
  BY ProcKinds DEF LifeInv, Core, ProcInv, FrameOK
<1>2. /\ \A pc \in {"check", "run", "start", "wait", "finish", "remove"} :
           At(r, pc) => f.op = "run"
      /\ At(r, "rmi") => f.op = "limit"
  BY <1>1, OpAt, StepsOf
<1>3. RoutineStep(r) \/ (RunStep(r) /\ ~RunSettles(r))
  BY <1>1 DEF FrameStep
<1>4. Done(r).op = "none"
  BY DEF Done, IdleProc
<1> HIDE DEF Done
<1>5. CASE RoutineStep(r) /\ ~CommandFails(r)
  <2>1. f.op \notin {"run", "none"}
    BY <1>1, <1>5, RoutineNotRun, StepsOf
  <2>2. proc'[r].op # "run"
    BY <1>1, <1>4, <1>5, <2>1, RoutineTrack
  <2> QED BY <2>1, <2>2
<1>17. CASE CommandFails(r)
  <2>1. proc'[r].op # "run"
    BY <1>1, <1>4, <1>17, CommandFailsFacts DEF Frames
  <2> QED BY <1>1, <1>17, <2>1, CommandFailsFacts
<1>6. ASSUME Catch(r)
      PROVE  proc'[r].op = "stop"
  BY <1>1, <1>6 DEF Catch, Frames
<1>7. ASSUME Finish(r)
      PROVE  proc'[r].op = "none"
  BY <1>1, <1>4, <1>7 DEF Finish
<1>8. ASSUME Advance(r), f.op = "run", f.pc \in {"check", "run", "start", "finish"}
      PROVE  /\ proc'[r].op = "run"
             /\ proc'[r].pc = CASE f.pc = "check" -> "run" [] f.pc = "run" -> "start"
                                [] f.pc = "start" -> "wait" [] f.pc = "finish" -> "remove"
  <2> DEFINE q == CASE f.pc = "check" -> "run" [] f.pc = "run" -> "start"
                    [] f.pc = "start" -> "wait" [] f.pc = "finish" -> "remove"
  <2>1. After(r, f, f.pc) = [f EXCEPT !.pc = q]
    BY <1>8, AfterRun
  <2>2. proc'[r] = [f EXCEPT !.pc = q]
    BY <1>1, <1>8, <2>1 DEF Advance
  <2> HIDE DEF q
  <2>3. proc'[r].op = "run" /\ proc'[r].pc = q
    BY <1>1, <1>8, <2>2 DEF Frames
  <2> QED BY <2>3 DEF q
<1>9. CASE RunCheck(r)
  BY <1>2, <1>7, <1>8, <1>9 DEF RunCheck, At, RunStep
<1>10. CASE RunDocker(r)
  BY <1>2, <1>8, <1>10 DEF RunDocker, At, RunStep
<1>11. CASE RunDockerFails(r)
  BY <1>2, <1>6, <1>11 DEF RunDockerFails, At, RunStep
<1>12. CASE RunStart(r)
  BY <1>2, <1>8, <1>12 DEF RunStart, At, RunStep
<1>13. CASE RunWait(r)
  <2>1. ASSUME NEW code, proc' = [proc EXCEPT ![r].pc = "finish", ![r].code = code]
        PROVE  proc'[r].op = f.op /\ proc'[r].pc = "finish"
    <3>1. proc' = [proc EXCEPT ![r] = [f EXCEPT !.pc = "finish", !.code = code]]
      BY <1>1, <2>1
    <3> QED BY <1>1, <3>1 DEF Frames
  <2> QED BY <1>2, <1>6, <1>13, <2>1 DEF RunWait, At, RunStep
<1>14. CASE RunFinish(r)
  BY <1>2, <1>8, <1>14 DEF RunFinish, At, RunStep
<1>15. CASE RunRemove(r)
  <2>1. ASSUME proc' = [proc EXCEPT ![r].op = "limit", ![r].pc = "unschedule"]
        PROVE  proc'[r].op = "limit"
    BY <1>1, <2>1 DEF Frames
  <2> QED BY <1>2, <1>6, <1>7, <1>15, <2>1 DEF RunRemove, At, RunStep
<1>16. CASE RemoveUnusedImage(r)
  <2>1. f.op = "limit" /\ f.pc = "rmi"
    BY <1>2, <1>16 DEF RemoveUnusedImage, At
  <2>2. Advance(r) => proc'[r].op # "run"
    <3>1. "rmi" \in Steps("limit") /\ f.op \in DOMAIN Routine
      BY <2>1, StepsOf
    <3>2. After(r, f, f.pc).op # "run"
      BY <1>1, <1>4, <2>1, <3>1, AfterKeeps
    <3> QED BY <1>1, <3>2 DEF Advance
  <2> QED BY <1>6, <1>16, <2>1, <2>2 DEF RemoveUnusedImage
<1> QED BY <1>3, <1>5, <1>9, <1>10, <1>11, <1>12, <1>13, <1>14, <1>15, <1>16, <1>17 DEF RunStep

-----------------------------------------------------------------------------
(* Containers are removed.                                                 *)

\* The container of a run of this life is made by the run's own docker run.
LEMMA NewBox ==
  ASSUME LifeInv, [LifeNext]_vars, NEW r \in RunIds, ~Crash,
         box[BoxOf(r)] = Nil, box'[BoxOf(r)] # Nil
  PROVE  RunDocker(r) \/ (RunDockerFails(r) /\ "created" \in Failures)
<1> DEFINE b == BoxOf(r)
<1>1. /\ b \in Boxes /\ box \in [Boxes -> {Nil} \cup Box] /\ Nil \notin Box
  <2>1. DOMAIN builds \subseteq Nat
    BY DEF LifeInv, Core, FreshInv
  <2>2. Box \subseteq [state : {"running", "exited"}, code : {0, 1}, image : Nat]
    BY <2>1 DEF Box
  <2> QED BY <2>2, BoxOfBox, NilAssumption DEF LifeInv, Core, ServerInv, LifeTypeOK, Box
<1>2. ASSUME NEW c, box' = box \/ box' = Removed(c) \/ box' = Stopped(c)
      PROVE  box[b] = Nil => box'[b] = Nil
  BY <1>1, <1>2 DEF Removed, Stopped
<1>3. ASSUME NEW x \in RunIds, RunDocker(x) \/ RunDockerFails(x), x # r
      PROVE  box'[b] = box[b]
  <2>1. BoxOf(x) # b
    BY <1>3 DEF BoxOf
  <2> HIDE DEF b
  <2> QED BY <1>1, <1>3, <2>1 DEF RunDocker, RunDockerFails
<1>7. ASSUME RunDockerFails(r)
      PROVE  "created" \in Failures \/ box'[b] = box[b]
  BY <1>7 DEF RunDockerFails
<1>4. ASSUME NEW c \in Boxes, BoxExits(c)
      PROVE  box[b] = Nil => box'[b] = Nil
  BY <1>1, <1>4 DEF BoxExits
<1>5. ASSUME NEW x \in RunIds, RunRemove(x)
      PROVE  box[b] = Nil => box'[b] = Nil
  BY <1>2, <1>5 DEF RunRemove
<1>6. ASSUME NEW x \in Procs, NEW c \in Boxes, HandleChild(x, c)
      PROVE  box[b] = Nil => box'[b] = Nil
  BY <1>2, <1>6 DEF HandleChild
<1> QED BY <1>3, <1>4, <1>5, <1>6, <1>7, WhoChangesWhat DEF WhoChanges, ChangesBox

\* A container of this life of the process has an executor that will remove it:
\* only its own docker run makes it, and every way out of runTaskImpl removes it.
LEMMA NoLeakStep ==
  ASSUME LifeInv, [LifeNext]_vars, NoContainerLeak,
         "created" \notin Failures, "status" \notin Failures
  PROVE  NoContainerLeak'
<1> SUFFICES ASSUME NEW r \in RunIds, box'[BoxOf(r)'] # Nil
             PROVE  proc'[r].op = "run" /\ proc'[r].pc \in {"start", "wait", "finish", "remove"}
  BY DEF NoContainerLeak
<1>1. r \in Procs /\ boots \in 0 .. MaxBoot /\ BoxOf(r) \in Boxes /\ ProcInv
      /\ DOMAIN proc = Procs /\ box \in [Boxes -> {Nil} \cup Box]
  BY ProcKinds, BoxOfBox DEF LifeInv, Core, ServerInv, ProcInv, LifeTypeOK, Box
<1>2. ~Crash
  <2> SUFFICES ASSUME Crash PROVE FALSE
    OBVIOUS
  <2>1. boots' = boots + 1 /\ boots' \in 0 .. MaxBoot /\ box' = box
    BY BoxesStep DEF Crash, dockerVars
  <2>2. <<r, boots'>> \in Boxes /\ <<r, boots'>>[2] > boots
    BY <1>1, <2>1 DEF Boxes
  <2> QED BY <2>1, <2>2 DEF BoxOf, LifeInv, Core, ServerInv
<1>3. boots' = boots
  BY <1>2, WhoChangesWhat, BootFrame DEF WhoChanges, ChangesServer
<1>4. BoxOf(r)' = BoxOf(r)
  BY <1>3 DEF BoxOf
<1>5. CASE box[BoxOf(r)] = Nil
  <2>1. RunDocker(r)
    BY <1>2, <1>4, <1>5, NewBox
  <2>2. FrameStep(r) /\ Advance(r) /\ proc[r].pc = "run" /\ proc[r].op = "run"
    <3>1. ~RunSettles(r)
      BY <2>1 DEF RunDocker, RunSettles, At
    <3> QED BY <1>1, <2>1, <3>1, OpAt, StepsOf DEF RunDocker, RunStep, FrameStep, At
  <2>3. After(r, proc[r], "run") = [proc[r] EXCEPT !.pc = "start"]
    BY <2>2, AfterRun
  <2>4. proc'[r] = [proc[r] EXCEPT !.pc = "start"] /\ proc[r] \in Frames
    BY <1>1, <2>2, <2>3 DEF Advance, ProcInv, FrameOK
  <2> QED BY <2>2, <2>4 DEF Frames
<1>6. CASE box[BoxOf(r)] # Nil
  <2>1. proc[r].op = "run" /\ proc[r].pc \in {"start", "wait", "finish", "remove"}
    BY <1>6 DEF NoContainerLeak
  <2>2. CASE FrameStep(r)
    <3>1. ~RunCheck(r) /\ ~RunDockerFails(r)
      BY <2>1 DEF RunCheck, RunDockerFails, At
    <3>2. ~RunRemove(r)
      BY <1>1, <1>4, <1>6 DEF RunRemove, Removed
    <3> QED BY <1>6, <2>1, <2>2, <3>1, <3>2, RunTrack
  <2>3. ~RunSettles(r) /\ proc[r].pc # "idle"
    BY <2>1 DEF RunSettles, At
  <2> QED BY <1>2, <2>1, <2>2, <2>3, RunFrames
<1> QED BY <1>5, <1>6

\* As long as a container of this life of the process exists, its run is on the
\* way to deleting it (task.service.ts, lines 101-118), whatever requests pull
\* containers away meanwhile.  A docker run that fails after it has made the
\* container and an update of the status that rejects both leave one behind: the
\* hypotheses cannot be dropped.
THEOREM LifecycleRemovesContainers ==
  ASSUME "created" \notin Failures, "status" \notin Failures
  PROVE  LifeSpec => []NoContainerLeak
<1>1. LifeInit => NoContainerLeak
  BY BoxOfBox, MaxBootAssumption DEF LifeInit, NoContainerLeak
<1>2. LifeInv /\ NoContainerLeak /\ [LifeNext]_vars => NoContainerLeak'
  BY NoLeakStep
<1> QED BY <1>1, <1>2, LifeInvAlways, PTL DEF LifeSpec

\* The status of r is not a result.
NotFinal(r) == status[r] \notin {"succeed", "failed"}

\* What keeps the result of a run: no flow that will write its status later
\* works for it once the result is written.
ResultInv ==
  /\ \A r \in RunIds : r > lastId => status[r] = "none"
  /\ \A h \in Queue!Queued(queue) : NotFinal(h.runId)
  /\ \A r \in RunIds : proc[r].op = "run" /\ proc[r].pc # "remove" => NotFinal(r)
  /\ \A p \in Callers : Holds(p) => NotFinal(tick[p].runId)

-----------------------------------------------------------------------------
(* Results are final.                                                      *)

\* How a tick comes to hold a run.
LEMMA HoldsStep ==
  ASSUME LifeInv, [LifeNext]_vars, NEW p \in Callers, Holds(p)'
  PROVE  \/ Holds(p) /\ tick'[p] = tick[p]
         \/ TickCreate(p)
<1>1. CASE UNCHANGED <<call, body, lastId>> /\ UNCHANGED tick
  BY <1>1 DEF Holds
<1>2. ASSUME NEW q \in Callers, TickStep(q)
      PROVE  (Holds(p) /\ tick'[p] = tick[p]) \/ TickCreate(p)
  <2>1. CASE q = p
    BY <1>2, <2>1, TickHolds
  <2>2. CASE q # p
    BY <1>2, <2>2, TickStepTick DEF Holds
  <2> QED BY <2>1, <2>2
<1>3. ASSUME NEW q \in Callers, NEW t \in Labels, CronFires(q, t)
      PROVE  Holds(p) /\ tick'[p] = tick[p]
  <2>1. Holds(p)
    BY <1>3, CronFrame DEF regVars, Holds
  <2>2. tick[p].pc = "mutex" /\ p # q
    BY <1>3, <2>1, HoldsInMutex DEF CronFires
  <2> QED BY <1>3, <2>1, <2>2, TaskTypes DEF CronFires
<1>4. ~Crash
  BY TaskTypes DEF Crash, LoseMemory, NoBody, Holds
<1>5. WhoChanges
  BY WhoChangesWhat
<1>6. CASE UNCHANGED tick
  BY <1>1, <1>2, <1>4, <1>5, <1>6 DEF WhoChanges, ChangesReg
<1> QED BY <1>1, <1>2, <1>3, <1>4, <1>5, <1>6 DEF WhoChanges, ChangesTick

\* Ids of runs are given in order.
LEMMA LastIdGrows ==
  ASSUME LifeInv, [LifeNext]_vars
  PROVE  lastId \in Nat /\ lastId' \in Nat /\ lastId <= lastId'
<1>1. lastId \in Nat
  BY DEF LifeInv, RegInv, RegTypeOK
<1>2. ASSUME NEW p \in Callers, TickStep(p)
      PROVE  lastId' = lastId \/ lastId' = lastId + 1
  <2>1. CASE TickCreate(p)
    BY <2>1 DEF TickCreate, CreateRun
  <2> QED BY <1>2, <2>1, TickHolds
<1>3. Crash => lastId' = lastId
  BY DEF Crash, LoseMemory, tableVars
<1> QED BY <1>1, <1>2, <1>3, WhoChangesWhat DEF WhoChanges, ChangesReg

\* Who changes the status of run r, and to what.
LEMMA StatusChange ==
  ASSUME LifeInv, [LifeNext]_vars, NEW r \in RunIds
  PROVE  \/ status'[r] = status[r]
         \/ RunStart(r) /\ RowExists(r) /\ status'[r] = "running"
         \/ RunFinish(r)
         \/ status'[r] = "pending" /\ r = lastId + 1 /\ \E p \in Callers : TickCreate(p)
         \/ status[r] = "pending" /\ status'[r] = "stopped"
         \/ status'[r] = "none" /\ ~RowExists(r)' /\ \E x \in Procs : DeleteRow(x)
<1>1. status \in [RunIds -> Statuses]
  BY DEF LifeInv, Core, LifeTypeOK, Statuses
<1>2. ASSUME NEW p \in Callers, TickCreate(p)
      PROVE  status'[r] = status[r] \/ (status'[r] = "pending" /\ r = lastId + 1)
  BY <1>1, <1>2 DEF TickCreate, CreateRun
<1>3. ASSUME NEW x \in RunIds, RunStart(x) \/ RunFinish(x)
      PROVE  \/ status'[r] = status[r]
             \/ RunStart(r) /\ RowExists(r) /\ status'[r] = "running"
             \/ RunFinish(r)
  <2>1. CASE x = r
    BY <1>1, <1>3, <2>1 DEF RunStart, RunFinish, SetStatus
  <2>2. CASE x # r
    BY <1>1, <1>3, <2>2 DEF RunStart, RunFinish, SetStatus
  <2> QED BY <2>1, <2>2
<1>4. ASSUME NEW x \in Procs, StopPending(x)
      PROVE  status'[r] = status[r] \/ (status[r] = "pending" /\ status'[r] = "stopped")
  BY <1>4 DEF StopPending
<1>5. ASSUME NEW x \in Procs, DeleteRow(x)
      PROVE  status'[r] = status[r] \/ (status'[r] = "none" /\ ~RowExists(r)')
  <2>1. CASE proc[x].task \notin tasks
    BY <1>5, <2>1 DEF DeleteRow
  <2>2. CASE proc[x].task \in tasks
    <3> DEFINE gone == \E run \in RunsOf(proc[x].task) : run.id = r
    <3>1. /\ runs' = runs \ RunsOf(proc[x].task)
          /\ status'[r] = IF gone THEN "none" ELSE status[r]
      BY <1>5, <2>2 DEF DeleteRow, DeleteTask
    <3>2. \A a, b \in runs : a.id = b.id => a = b
      BY DEF LifeInv, Core, IdsInv
    <3>3. gone => ~\E run \in runs' : run.id = r
      BY <3>1, <3>2 DEF RunsOf
    <3> QED BY <3>1, <3>3 DEF RowExists
  <2> QED BY <2>1, <2>2
<1> QED BY <1>2, <1>3, <1>4, <1>5, WhoChangesWhat DEF WhoChanges, ChangesStatus

\* A result is written by a function that executes, at the step after which
\* nothing writes it again.
LEMMA FinishFacts ==
  ASSUME LifeInv, [LifeNext]_vars, NEW r \in RunIds, RunFinish(r)
  PROVE  /\ proc[r].op = "run" /\ proc[r].pc = "finish" /\ FrameStep(r)
         /\ proc'[r].op = "run" => proc'[r].pc = "remove"
         /\ \A h : h \in Queue!Queued(queue) \/ New(h) => h.runId # r
         /\ \A p \in Callers : Holds(p) => tick[p].runId # r
<1>1. r \in Procs /\ ProcInv /\ proc[r].pc = "finish"
  BY ProcKinds DEF LifeInv, Core, RunFinish, At
<1>2. proc[r].op = "run" /\ FrameStep(r)
  <2>1. ~RunSettles(r)
    BY <1>1 DEF RunSettles, At
  <2> QED BY <1>1, <2>1, OpAt, StepsOf DEF RunStep, FrameStep, At
<1>3. proc'[r].op = "run" => proc'[r].pc = "remove"
  BY <1>1, <1>2, RunTrack
<1>4. \A h : h \in Queue!Queued(queue) \/ New(h) => h.runId # r
  BY <1>1, NotExecuting
<1>5. PICK g \in queue.executing : g.runId = r
  BY <1>1 DEF LifeInv, Core, ExecInv
<1>6. \A p \in Callers : Holds(p) => tick[p].runId # r
  BY <1>5 DEF LifeInv, Core, PlaceInv, AllHandles
<1> QED BY <1>1, <1>2, <1>3, <1>4, <1>6

\* Every step keeps that.
LEMMA ResultStep ==
  ASSUME LifeInv, [LifeNext]_vars, ResultInv
  PROVE  ResultInv'
<1>0. /\ lastId \in Nat /\ lastId' \in Nat /\ lastId <= lastId' /\ RunIds \subseteq Nat
      /\ LifeInv'
  BY LastIdGrows, MaxRunIdAssumption, LifeInvStep DEF RunIds
<1>1. \A r \in RunIds : NotFinal(r)' \/ ~NotFinal(r) \/ RunFinish(r)
  BY StatusChange DEF NotFinal
<1>2. ASSUME NEW r \in RunIds, r > lastId'
      PROVE  status'[r] = "none"
  <2>1. (r > lastId /\ r # lastId + 1) \/ (r = lastId + 1 /\ lastId' = lastId)
    BY <1>0, <1>2
  <2>2. status[r] = "none"
    BY <1>0, <2>1 DEF ResultInv
  <2>3. ~RowExists(r)
    <3>1. \A run \in runs : run.id \in 1 .. lastId
      BY DEF LifeInv, RegInv, RegTypeOK
    <3> QED BY <1>0, <2>1, <3>1 DEF RowExists
  <2>4. RunFinish(r) => status'[r] = status[r]
    BY <2>3 DEF RunFinish, SetStatus
  <2>5. \A p \in Callers : TickCreate(p) => lastId' = lastId + 1
    BY DEF TickCreate, CreateRun
  <2> QED BY <1>0, <1>2, <2>2, <2>3, <2>4, <2>5, StatusChange
<1>3. ASSUME NEW h, h \in Queue!Queued(queue) \/ New(h)
      PROVE  NotFinal(h.runId) /\ NotFinal(h.runId)'
  <2>1. h.runId \in RunIds
    BY <1>3, NotExecuting
  <2>2. NotFinal(h.runId)
    <3>1. CASE h \in Queue!Queued(queue)
      BY <3>1 DEF ResultInv
    <3>2. ASSUME NEW p \in Callers, Holds(p), h = Held(p)
          PROVE  NotFinal(h.runId)
      BY <3>2 DEF ResultInv, Held
    <3>3. ASSUME NEW run \in runs, h = Handle(run), status[run.id] = "pending"
          PROVE  NotFinal(h.runId)
      BY <3>3 DEF Handle, NotFinal
    <3> QED BY <1>3, <3>1, <3>2, <3>3 DEF New
  <2> QED BY <1>1, <1>3, <2>1, <2>2, FinishFacts
<1>4. \A h \in Queue!Queued(queue)' : NotFinal(h.runId)'
  BY <1>3, Origins
<1>5. ASSUME NEW r \in RunIds, proc'[r].op = "run", proc'[r].pc # "remove"
      PROVE  NotFinal(r)'
  <2>1. ~RunFinish(r)
    BY <1>5, FinishFacts
  <2>2. NotFinal(r)
    <3>1. CASE proc'[r] = proc[r]
      BY <1>5, <3>1 DEF ResultInv
    <3>2. CASE FrameStep(r)
      <4>1. proc[r].op = "run" /\ proc[r].pc # "remove"
        BY <1>5, <3>2, RunTrack
      <4> QED BY <4>1 DEF ResultInv
    <3>3. CASE proc'[r] = IdleProc
      BY <1>5, <3>3 DEF IdleProc
    <3>4. ASSUME NEW h, h.runId = r, h \in Queue!Queued(queue) \/ New(h)
          PROVE  NotFinal(r)
      BY <1>3, <3>4
    <3> QED BY <3>1, <3>2, <3>3, <3>4, RunFrames
  <2> QED BY <1>1, <2>1, <2>2
<1>6. ASSUME NEW p \in Callers, Holds(p)'
      PROVE  NotFinal(tick[p].runId)'
  <2>1. CASE Holds(p) /\ tick'[p] = tick[p]
    <3>1. NotFinal(tick[p].runId) /\ tick[p].runId \in RunIds
      BY <2>1, HeldOK DEF ResultInv, RunHandles
    <3> QED BY <1>1, <2>1, <3>1, FinishFacts DEF NotFinal
  <2>2. CASE TickCreate(p)
    <3>1. tick'[p].runId = lastId' /\ status' = [status EXCEPT ![lastId'] = "pending"]
      <4>1. tick[p] \in Tick /\ DOMAIN tick = Callers
        BY TaskTypes DEF LifeInv, Core, TickInv, Tick
      <4> QED BY <2>2, <4>1 DEF TickCreate, Tick
    <3>2. lastId' \in RunIds
      BY <1>0, <2>2 DEF TickCreate, CreateRun, RunIds, LifeInv, Core, IdsInv
    <3>3. status \in [RunIds -> Statuses]
      BY DEF LifeInv, Core, LifeTypeOK, Statuses
    <3> QED BY <3>1, <3>2, <3>3 DEF NotFinal
  <2> QED BY <1>6, <2>1, <2>2, HoldsStep
<1> QED BY <1>2, <1>4, <1>5, <1>6 DEF ResultInv

\* A result changes only when the row of the run is deleted.
LEMMA ResultStays ==
  ASSUME LifeInv, [LifeNext]_vars, ResultInv, NEW r \in RunIds,
         status[r] \in {"succeed", "failed"}
  PROVE  status'[r] = status[r] \/ ~RowExists(r)'
<1>1. ~RunFinish(r)
  <2> SUFFICES ASSUME RunFinish(r) PROVE FALSE
    OBVIOUS
  <2> QED BY FinishFacts DEF ResultInv, NotFinal
<1>2. ~RunStart(r)
  <2> SUFFICES ASSUME RunStart(r) PROVE FALSE
    OBVIOUS
  <2>1. proc[r].pc = "start" /\ proc[r].op = "run"
    BY ProcKinds, OpAt, StepsOf DEF RunStart, At, LifeInv, Core
  <2> QED BY <2>1 DEF ResultInv, NotFinal
<1>3. r # lastId + 1
  <2>1. lastId \in Nat /\ (r > lastId => status[r] = "none")
    BY LastIdGrows DEF ResultInv
  <2> QED BY <2>1
<1> QED BY <1>1, <1>2, <1>3, StatusChange

\* Once a run has succeeded or failed, its status is never written again until
\* its row is deleted (task-run.service.ts, lines 98-124): not by a stop that
\* marks pending runs, a start-up that resumes runs, or a second execution.
THEOREM LifecycleResultsFinal == LifeSpec => ResultIsFinal
<1>1. LifeInit => ResultInv
  <2> SUFFICES ASSUME LifeInit PROVE ResultInv
    OBVIOUS
  <2>1. /\ status = [r \in RunIds |-> "none"] /\ queue = Queue!EmptyQueue
        /\ proc = [x \in Procs |-> IdleProc] /\ body = [p \in Callers |-> NoBody]
    BY DEF LifeInit, RegInit
  <2>2. Queue!Queued(queue) = {} /\ ~\E p \in Callers : Holds(p)
    BY <2>1 DEF Queue!Queued, Queue!EmptyQueue, Holds, NoBody
  <2>3. \A r \in RunIds : status[r] = "none" /\ proc[r].op = "none"
    BY <2>1, ProcKinds DEF IdleProc
  <2> QED BY <2>2, <2>3 DEF ResultInv
<1>2. LifeInv /\ ResultInv /\ [LifeNext]_vars => ResultInv'
  BY ResultStep
<1>3. LifeInv /\ ResultInv /\ [LifeNext]_vars =>
        [\A r \in RunIds :
           status[r] \in {"succeed", "failed"}
             => status'[r] = status[r] \/ ~RowExists(r)']_vars
  BY ResultStays
<1> QED BY <1>1, <1>2, <1>3, LifeInvAlways, PTL DEF LifeSpec, ResultIsFinal

\* What keeps the runs of a task in the order of their ranks: the rank of a new
\* run is above those of the runs that are queued, executing or held.
RankBelow(h) ==
  h.taskId \in tasks \cap Limited => h.runRank \in 1 .. Cardinality(RunsOf(h.taskId))

\* What orders the runs of limited tasks, with what comes next for each of them.
RankInv ==
  /\ StartedInRankOrder
  /\ \A h \in AllHandles : RankBelow(h)
  /\ \A p \in Callers : Holds(p) => RankBelow(Held(p))
  /\ \A p \in Callers, h \in AllHandles :
       Holds(p) /\ tick[p].task \in Limited /\ h.taskId = tick[p].task
         => h.runRank < tick[p].runRank

-----------------------------------------------------------------------------
(* Runs of a limited task start in the order of their ranks.               *)

\* The runs of a limited task are in order: in the line, and after those that
\* execute.
Ranked(line, base) ==
  \A j \in 1 .. Len(line) : line[j].taskId \in Limited =>
    /\ \A i \in 1 .. Len(line) : i < j /\ line[i].taskId = line[j].taskId
         => line[i].runRank < line[j].runRank
    /\ \A e \in base : e.taskId = line[j].taskId => e.runRank < line[j].runRank

\* An event keeps the order of a line that is in order.
LEMMA ServeRanked ==
  ASSUME NEW line, NEW base, Served(line, base), Ranked(line, base)
  PROVE  StartedInRankOrder'
<1>1. PICK k, n : k \in 0 .. Len(line) /\ queue' = Serve(line, k, base, n)
  BY DEF Served
<1>2. line \in Seq(RunHandles) /\ Len(line) \in Nat /\ k \in Nat
  BY <1>1 DEF Served
<1>3. /\ DOMAIN queue'.queue = 1 .. Len(line) - k
      /\ \A i \in 1 .. Len(line) - k : queue'.queue[i] = line[k + i]
      /\ queue'.executing = base \cup {line[i] : i \in 1 .. k}
  BY <1>1, <1>2, ServeFacts
<1> SUFFICES ASSUME NEW j \in 1 .. Len(line) - k, line[k + j].taskId \in Limited
             PROVE  /\ \A i \in 1 .. j - 1 :
                         line[k + i].taskId = line[k + j].taskId
                           => line[k + i].runRank < line[k + j].runRank
                    /\ \A e \in queue'.executing :
                         e.taskId = line[k + j].taskId => e.runRank < line[k + j].runRank
  <2>1. \A j \in 1 .. Len(line) - k : \A i \in 1 .. j - 1 : i \in 1 .. Len(line) - k
    BY <1>2
  <2> QED BY <1>3, <2>1 DEF StartedInRankOrder
<1>4. k + j \in 1 .. Len(line) /\ j \in Nat
  BY <1>2
<1>5. ASSUME NEW i \in 1 .. j - 1
      PROVE  k + i \in 1 .. Len(line) /\ k + i < k + j
  BY <1>2, <1>4
<1>6. ASSUME NEW i \in 1 .. k
      PROVE  i \in 1 .. Len(line) /\ i < k + j
  BY <1>2, <1>4
<1>7. \A e \in queue'.executing :
        e.taskId = line[k + j].taskId => e.runRank < line[k + j].runRank
  <2>1. \A e \in base : e.taskId = line[k + j].taskId => e.runRank < line[k + j].runRank
    BY <1>4 DEF Ranked
  <2>2. \A i \in 1 .. k : line[i].taskId = line[k + j].taskId
                            => line[i].runRank < line[k + j].runRank
    BY <1>4, <1>6 DEF Ranked
  <2> QED BY <1>3, <2>1, <2>2
<1> QED BY <1>4, <1>5, <1>7 DEF Ranked

\* The queue before an event is in order.
LEMMA RankedAtRest ==
  ASSUME LifeInv, StartedInRankOrder
  PROVE  Ranked(queue.queue, queue.executing)
<1>1. Len(queue.queue) \in Nat /\ DOMAIN queue.queue = 1 .. Len(queue.queue)
  BY LineAtRest
<1>2. \A j \in 1 .. Len(queue.queue) : \A i \in 1 .. Len(queue.queue) :
        i < j => i \in 1 .. j - 1
  BY <1>1
<1> QED BY <1>1, <1>2 DEF StartedInRankOrder, Ranked

\* A run that is enqueued goes last: it has the highest rank of its task.
LEMMA EnqueueRanked ==
  ASSUME LifeInv, RankInv, NEW p \in Callers, TickReturn(p), Holds(p)
  PROVE  StartedInRankOrder'
<1> DEFINE h == Held(p)
           line == Append(queue.queue, h)
<1>1. /\ queue.queue \in Seq(RunHandles) /\ h \in RunHandles
      /\ Len(queue.queue) \in Nat /\ DOMAIN queue.queue = 1 .. Len(queue.queue)
      /\ \A i \in 1 .. Len(queue.queue) : queue.queue[i] \in AllHandles
  BY HeldOK, QueueFacts, LineAtRest DEF AllHandles
<1>2. \A g \in AllHandles : h.taskId \in Limited /\ g.taskId = h.taskId
                              => g.runRank < h.runRank
  BY DEF RankInv, Held
<1>3. Served(line, queue.executing)
  BY EnqueueServed
<1>4. Ranked(queue.queue, queue.executing)
  BY RankedAtRest DEF RankInv
<1> HIDE DEF h
<1>5. /\ Len(line) = Len(queue.queue) + 1
      /\ \A i \in 1 .. Len(queue.queue) : line[i] = queue.queue[i]
      /\ line[Len(queue.queue) + 1] = h
  BY <1>1, AppendProperties
<1> HIDE DEF line
<1>6. Ranked(line, queue.executing)
  <2> SUFFICES ASSUME NEW j \in 1 .. Len(line), line[j].taskId \in Limited
               PROVE  /\ \A i \in 1 .. Len(line) : i < j /\ line[i].taskId = line[j].taskId
                           => line[i].runRank < line[j].runRank
                      /\ \A e \in queue.executing :
                           e.taskId = line[j].taskId => e.runRank < line[j].runRank
    BY DEF Ranked
  <2>1. CASE j = Len(queue.queue) + 1
    <3>1. \A i \in 1 .. Len(line) : i < j => line[i] \in AllHandles
      BY <1>1, <1>5, <2>1
    <3>2. line[j] = h /\ queue.executing \subseteq AllHandles
      BY <1>5, <2>1 DEF AllHandles
    <3> QED BY <1>2, <3>1, <3>2
  <2>2. CASE j # Len(queue.queue) + 1
    <3>1. j \in 1 .. Len(queue.queue) /\ line[j] = queue.queue[j]
      BY <1>1, <1>5, <2>2
    <3>2. \A i \in 1 .. Len(line) : i < j =>
            i \in 1 .. Len(queue.queue) /\ line[i] = queue.queue[i]
      BY <1>1, <1>5, <3>1
    <3> QED BY <1>4, <3>1, <3>2 DEF Ranked
  <2> QED BY <2>1, <2>2
<1> QED BY <1>3, <1>6, ServeRanked

\* The end of a function changes no order.
LEMMA SettleRanked ==
  ASSUME LifeInv, RankInv, NEW r \in RunIds, RunSettles(r)
  PROVE  StartedInRankOrder'
<1> DEFINE base == queue.executing \ {HandleIn(queue, r)}
<1>1. Ranked(queue.queue, queue.executing)
  BY RankedAtRest DEF RankInv
<1>2. Ranked(queue.queue, base)
  BY <1>1 DEF Ranked
<1>3. Served(queue.queue, base)
  BY SettleServed
<1> HIDE DEF base
<1> QED BY <1>2, <1>3, ServeRanked

\* The ranks of what the start-up queues: in order, and all of them of a task
\* of which nothing is queued yet.
LEMMA PendingRanks ==
  ASSUME LifeInv, NEW t \in toBoot, t \in Limited, NEW s \in PendingRuns(t),
         NEW i \in 1 .. Len(Handles(s)), NEW j \in 1 .. Len(Handles(s)), i < j
  PROVE  Handles(s)[i].runRank < Handles(s)[j].runRank
<1> DEFINE S == {run \in RunsOf(t) : status[run.id] = "pending"}
           m == Cardinality(S)
           n == Cardinality(RunsOf(t))
<1>1. s \in [1 .. m -> S]
      /\ \A a, b \in DOMAIN s : a < b => s[a] # s[b] /\ RankLeq(s[a].rank, s[b].rank)
  BY DEF PendingRuns
<1>2. /\ Handles(s)[i] = Handle(s[i]) /\ Handles(s)[j] = Handle(s[j])
      /\ s[i] \in RunsOf(t) /\ s[j] \in RunsOf(t)
  BY PendingRunsOf
<1>3. i \in DOMAIN s /\ j \in DOMAIN s
  <2>1. /\ DOMAIN Handles(s) = DOMAIN s /\ Handles(s) \in Seq(RunHandles)
    BY PendingRunsOf DEF Handles
  <2> QED BY <2>1
<1>4. s[i] # s[j] /\ RankLeq(s[i].rank, s[j].rank)
  BY <1>1, <1>3
<1>5. /\ \A a \in RunsOf(t) : a.rank \in 1 .. n
      /\ \A a, b \in RunsOf(t) : a.rank = b.rank => a = b
  BY DEF LifeInv, RegInv, RanksConsecutive
<1>6. n \in Nat
  BY RunsOfFinite DEF LifeInv, RegInv
<1> HIDE DEF n
<1>7. s[i].rank \in Nat /\ s[j].rank \in Nat /\ s[i].rank # s[j].rank
  BY <1>2, <1>4, <1>5, <1>6
<1>8. s[i].rank <= s[j].rank
  BY <1>4, <1>7, TimesAssumption DEF RankLeq
<1> QED BY <1>2, <1>7, <1>8 DEF Handle

\* What the start-up queues is in order.
LEMMA BootRanked ==
  ASSUME LifeInv, RankInv, BootTask
  PROVE  StartedInRankOrder'
<1>1. PICK t, s : BootsWith(t, s)
  BY BootServed
<1> DEFINE fs == Handles(s)
           line == queue.queue \o fs
<1>2. /\ Served(line, queue.executing) /\ t \in toBoot /\ s \in PendingRuns(t)
  BY <1>1 DEF BootsWith
<1>3. /\ fs \in Seq(RunHandles)
      /\ \A i \in 1 .. Len(fs) : fs[i].taskId = t
      /\ t \in Limited => \A i, j \in 1 .. Len(fs) : i < j => fs[i].runRank < fs[j].runRank
  BY <1>2, PendingRunsOf, PendingRanks
<1>4. \A h \in AllHandles : h.taskId # t
  BY <1>2 DEF LifeInv, Core, ServerInv
<1>5. /\ queue.queue \in Seq(RunHandles) /\ Len(queue.queue) \in Nat
      /\ \A i \in 1 .. Len(queue.queue) : queue.queue[i] \in AllHandles
      /\ queue.executing \subseteq AllHandles
  BY QueueFacts, LineAtRest DEF AllHandles
<1>6. Ranked(queue.queue, queue.executing)
  BY RankedAtRest DEF RankInv
<1> HIDE DEF fs
<1> DEFINE m == Len(queue.queue)
<1>7. /\ Len(line) = m + Len(fs) /\ Len(fs) \in Nat
      /\ \A i \in 1 .. m + Len(fs) :
           line[i] = IF i <= m THEN queue.queue[i] ELSE fs[i - m]
  BY <1>3, <1>5, ConcatProperties
<1> HIDE DEF line
<1>8. m \in Nat /\ \A i \in 1 .. m : queue.queue[i].taskId # t
  BY <1>4, <1>5
<1>9. \A i \in 1 .. Len(line) : i <= m => i \in 1 .. m /\ line[i] = queue.queue[i]
  BY <1>7, <1>8
<1>10. \A i \in 1 .. Len(line) : i > m => i - m \in 1 .. Len(fs) /\ line[i] = fs[i - m]
  BY <1>7, <1>8
<1> HIDE DEF m
<1>11. Ranked(line, queue.executing)
  <2> SUFFICES ASSUME NEW j \in 1 .. Len(line), line[j].taskId \in Limited
               PROVE  /\ \A i \in 1 .. Len(line) : i < j /\ line[i].taskId = line[j].taskId
                           => line[i].runRank < line[j].runRank
                      /\ \A e \in queue.executing :
                           e.taskId = line[j].taskId => e.runRank < line[j].runRank
    BY DEF Ranked
  <2>1. CASE j <= m
    <3>1. j \in 1 .. m /\ line[j] = queue.queue[j] /\ j \in Int
      BY <1>9, <2>1
    <3>2. \A i \in 1 .. Len(line) : i < j => i \in 1 .. m /\ line[i] = queue.queue[i]
      BY <1>8, <1>9, <2>1
    <3> QED BY <1>6, <3>1, <3>2 DEF Ranked, m
  <2>2. CASE j > m
    <3>1. j - m \in 1 .. Len(fs) /\ line[j] = fs[j - m] /\ line[j].taskId = t
      BY <1>3, <1>10, <2>2
    <3>2. \A e \in queue.executing : e.taskId # line[j].taskId
      BY <1>4, <1>5, <3>1
    <3>3. ASSUME NEW i \in 1 .. Len(line), i < j, line[i].taskId = t
          PROVE  line[i].runRank < line[j].runRank
      <4>1. i > m
        BY <1>8, <1>9, <3>3
      <4>2. i - m \in 1 .. Len(fs) /\ line[i] = fs[i - m] /\ i - m < j - m
        BY <1>8, <1>10, <3>3, <4>1
      <4> QED BY <1>3, <3>1, <4>2
    <3> QED BY <3>1, <3>2, <3>3
  <2> QED BY <1>8, <2>1, <2>2
<1> QED BY <1>2, <1>11, ServeRanked

\* The runs of a task that is kept do not get fewer.
LEMMA CountKept ==
  ASSUME LifeInv, [LifeNext]_vars, NEW t \in Labels \ unused, t \in tasks'
  PROVE  /\ t \in tasks
         /\ Cardinality(RunsOf(t)) \in Nat /\ Cardinality(RunsOf(t)') \in Nat
         /\ Cardinality(RunsOf(t)) <= Cardinality(RunsOf(t)')
<1>1. Cardinality(RunsOf(t)) \in Nat
  BY RunsOfFinite DEF LifeInv, RegInv
<1>2. CASE UNCHANGED <<runs, tasks>>
  BY <1>1, <1>2 DEF RunsOf
<1>3. ASSUME NEW p \in Callers, TickCreate(p)
      PROVE  /\ t \in tasks
             /\ \/ UNCHANGED RunsOf(t)
                \/ Cardinality(RunsOf(t)') = Cardinality(RunsOf(t)) + 1
  <2>1. CreateRun(p) /\ RegInv
    BY <1>3 DEF TickCreate, LifeInv
  <2>2. PICK u : call[p].label = u
    OBVIOUS
  <2>3. /\ RunsOf(u)' = RunsOf(u) \cup {[id |-> lastId + 1, taskId |-> u, rank |-> Rank(body[p].runsCount)]}
        /\ Cardinality(RunsOf(u)') = Cardinality(RunsOf(u)) + 1
        /\ \A v : v # u => RunsOf(v)' = RunsOf(v)
    BY <2>1, <2>2, InsertedRun
  <2>4. tasks' = tasks
    BY <2>1 DEF CreateRun
  <2> QED BY <2>3, <2>4
<1>4. ASSUME NEW x \in Procs, DeleteRow(x)
      PROVE  t \in tasks /\ RunsOf(t)' = RunsOf(t)
  <2>1. CASE proc[x].task \in tasks
    <3>1. tasks' = tasks \ {proc[x].task} /\ runs' = runs \ RunsOf(proc[x].task)
      BY <1>4, <2>1 DEF DeleteRow, DeleteTask
    <3> QED BY <3>1 DEF RunsOf
  <2>2. CASE proc[x].task \notin tasks
    BY <1>4, <2>2 DEF DeleteRow, RunsOf, regVars
  <2> QED BY <2>1, <2>2
<1>5. ASSUME NEW c \in Clients, InsertRow(c)
      PROVE  t \in tasks /\ RunsOf(t)' = RunsOf(t)
  <2>1. /\ runs' = runs
        /\ tasks' = tasks \/ \E u \in unused : tasks' = tasks \cup {u}
    BY <1>5 DEF InsertRow, InsertTask, regVars
  <2> QED BY <2>1 DEF RunsOf
<1>6. ASSUME NEW x \in Procs, Deactivate(x) \/ Activate(x) \/ UpdateRow(x)
      PROVE  UNCHANGED <<runs, tasks>>
  BY <1>6 DEF Deactivate, Activate, UpdateRow, regVars
<1>7. WhoChanges
  BY WhoChangesWhat
<1>8. CASE UNCHANGED tasks
  BY <1>1, <1>2, <1>3, <1>4, <1>7, <1>8 DEF WhoChanges, ChangesRuns
<1> QED BY <1>1, <1>2, <1>4, <1>5, <1>6, <1>7, <1>8 DEF WhoChanges, ChangesRow

\* Ranks stay below the number of runs of their task.
LEMMA RankKept ==
  ASSUME LifeInv, [LifeNext]_vars, NEW h, h.taskId \in Labels \ unused, RankBelow(h)
  PROVE  RankBelow(h)'
<1> SUFFICES ASSUME h.taskId \in tasks', h.taskId \in Limited
             PROVE  h.runRank \in 1 .. Cardinality(RunsOf(h.taskId)')
  BY DEF RankBelow, RunsOf, Limited
<1>1. /\ h.taskId \in tasks
      /\ Cardinality(RunsOf(h.taskId)) \in Nat /\ Cardinality(RunsOf(h.taskId)') \in Nat
      /\ Cardinality(RunsOf(h.taskId)) <= Cardinality(RunsOf(h.taskId)')
  BY CountKept
<1>2. h.runRank \in 1 .. Cardinality(RunsOf(h.taskId))
  BY <1>1 DEF RankBelow
<1> QED BY <1>1, <1>2

\* The rank of what the queue holds, or gets, is one of those given out.
LEMMA NewRankBelow ==
  ASSUME LifeInv, RankInv, NEW h, h \in AllHandles \/ New(h)
  PROVE  RankBelow(h) /\ h.taskId \in Labels \ unused
<1>1. CASE h \in AllHandles
  BY <1>1 DEF RankInv, LifeInv, Core, IdsInv
<1>2. ASSUME NEW p \in Callers, Holds(p), h = Held(p)
      PROVE  RankBelow(h) /\ h.taskId \in Labels \ unused
  BY <1>2, HeldOK DEF RankInv, Known
<1>3. ASSUME NEW run \in runs, h = Handle(run), run.taskId \in toBoot
      PROVE  RankBelow(h) /\ h.taskId \in Labels \ unused
  <2>1. h.taskId = run.taskId /\ h.runRank = run.rank /\ run \in RunsOf(run.taskId)
    BY <1>3 DEF Handle, RunsOf
  <2>2. run.taskId \in Labels \ unused
    BY <1>3, TaskTypes
  <2>3. run.taskId \in Limited => run.rank \in 1 .. Cardinality(RunsOf(run.taskId))
    BY <2>1 DEF LifeInv, RegInv, RanksConsecutive
  <2> QED BY <2>1, <2>2, <2>3 DEF RankBelow
<1> QED BY <1>1, <1>2, <1>3 DEF New

\* Two ticks of one task do not hold runs at the same time.
LEMMA OneHolder ==
  ASSUME LifeInv, NEW p \in Callers, NEW q \in Callers, Holds(p), Holds(q),
         tick[p].task = tick[q].task
  PROVE  p = q
<1>1. Inside(p) /\ Inside(q) /\ call[p].label = call[q].label
  BY HoldsInMutex
<1> QED BY <1>1 DEF LifeInv, RegInv, MutexInv, MutualExclusion

\* A new run gets the next rank.
LEMMA CreatedRank ==
  ASSUME LifeInv, [LifeNext]_vars, NEW p \in Callers, TickCreate(p),
         NEW t, tick[p].task = t
  PROVE  /\ t \in tasks /\ tasks' = tasks /\ tick'[p].task = t
         /\ t \in Limited => /\ Cardinality(RunsOf(t)) \in Nat
                             /\ tick'[p].runRank = Cardinality(RunsOf(t)) + 1
                             /\ Cardinality(RunsOf(t)') = Cardinality(RunsOf(t)) + 1
<1>1. /\ CreateRun(p) /\ tick[p] \in Tick /\ DOMAIN tick = Callers
      /\ tick' = [tick EXCEPT ![p].runId = lastId', ![p].runRank = Rank(body[p].runsCount)]
  BY TaskTypes DEF TickCreate, LifeInv, Core, TickInv, Tick
<1>2. call[p].label = t
  <2>1. Inside(p)
    BY <1>1 DEF CreateRun, LifeInv, RegInv, BodyInside
  <2> QED BY <2>1 DEF Inside, LifeInv, Core, TickInv
<1>3. tick'[p].task = t /\ tick'[p].runRank = Rank(body[p].runsCount)
  BY <1>1 DEF Tick
<1>4. t \in tasks /\ tasks' = tasks
  BY <1>1, <1>2 DEF CreateRun
<1>5. ASSUME t \in Limited
      PROVE  /\ Cardinality(RunsOf(t)) \in Nat
             /\ Rank(body[p].runsCount) = Cardinality(RunsOf(t)) + 1
             /\ Cardinality(RunsOf(t)') = Cardinality(RunsOf(t)) + 1
  <2>1. RegInv
    BY DEF LifeInv
  <2>2. /\ Cardinality(RunsOf(t)) \in Nat
        /\ Rank(body[p].runsCount) = Cardinality(RunsOf(t)) + 1
    BY <1>1, <1>2, <1>5, <2>1, InsertedRank
  <2>3. Cardinality(RunsOf(t)') = Cardinality(RunsOf(t)) + 1
    BY <1>1, <1>2, <2>1, InsertedRun
  <2> QED BY <2>2, <2>3
<1> QED BY <1>3, <1>4, <1>5

\* Every step keeps the order.
LEMMA RankStep ==
  ASSUME LifeInv, [LifeNext]_vars, RankInv
  PROVE  RankInv'
<1>1. StartedInRankOrder'
  <2>1. CASE UNCHANGED queue
    BY <2>1 DEF RankInv, StartedInRankOrder
  <2>2. CASE Crash
    BY <2>2 DEF Crash, Queue!EmptyQueue, StartedInRankOrder
  <2>3. \A p \in Callers : TickReturn(p) => Holds(p) \/ UNCHANGED queue
    BY DEF TickReturn, Holds
  <2> QED BY <2>1, <2>2, <2>3, EnqueueRanked, SettleRanked, BootRanked, WhoChangesWhat
          DEF WhoChanges, ChangesQueue
<1>2. \A h \in AllHandles' : RankBelow(h)'
  <2>1. \A h \in AllHandles' : h \in AllHandles \/ New(h)
    BY Origins DEF AllHandles
  <2> QED BY <2>1, NewRankBelow, RankKept
<1>3. ASSUME NEW p \in Callers, Holds(p)'
      PROVE  RankBelow(Held(p))'
  <2>1. CASE Holds(p) /\ tick'[p] = tick[p]
    <3> DEFINE h == Held(p)
    <3>1. h' = h /\ h.taskId \in Labels \ unused /\ RankBelow(h)
      BY <2>1, HeldOK DEF Held, Known, RankInv
    <3> HIDE DEF h
    <3>2. RankBelow(h)'
      <4>1. PICK g : g = h
        OBVIOUS
      <4>2. RankBelow(g)'
        BY <3>1, <4>1, RankKept
      <4> QED BY <3>1, <4>1, <4>2 DEF RankBelow
    <3> QED BY <3>2 DEF h
  <2>2. CASE TickCreate(p)
    <3>1. PICK t : tick[p].task = t
      OBVIOUS
    <3>2. /\ tick'[p].task = t
          /\ t \in Limited => /\ Cardinality(RunsOf(t)) \in Nat
                              /\ tick'[p].runRank = Cardinality(RunsOf(t)) + 1
                              /\ Cardinality(RunsOf(t)') = Cardinality(RunsOf(t)) + 1
      BY <2>2, <3>1, CreatedRank
    <3> QED BY <3>2 DEF RankBelow, Held, Limited, RunsOf
  <2> QED BY <1>3, <2>1, <2>2, HoldsStep
<1>4. ASSUME NEW p \in Callers, NEW h \in AllHandles', Holds(p)', tick'[p].task \in Limited,
             h.taskId = tick'[p].task
      PROVE  h.runRank < tick'[p].runRank
  <2>1. h \in AllHandles \/ New(h)
    BY Origins DEF AllHandles
  <2>2. CASE Holds(p) /\ tick'[p] = tick[p]
    <3>1. CASE h \in AllHandles
      BY <1>4, <2>2, <3>1 DEF RankInv
    <3>2. ASSUME NEW q \in Callers, TickReturn(q), Holds(q), h = Held(q)
          PROVE  FALSE
      <4>1. q = p
        BY <1>4, <2>2, <3>2, OneHolder DEF Held
      <4>2. ~Holds(q)'
        BY <3>2, TaskTypes DEF TickReturn, Return, NoBody, Holds
      <4> QED BY <1>4, <4>1, <4>2
    <3>3. ASSUME NEW run \in runs, h = Handle(run), run.taskId \in toBoot
          PROVE  FALSE
      <4>1. tick[p].pc = "mutex" /\ tick[p].task = run.taskId
        BY <1>4, <2>2, <3>3, HoldsInMutex DEF Handle
      <4> QED BY <3>3, <4>1 DEF LifeInv, Core, ServerInv
    <3> QED BY <2>1, <3>1, <3>2, <3>3 DEF New
  <2>3. CASE TickCreate(p)
    <3>1. /\ tick[p].task \in tasks \cap Limited /\ tick'[p].task = tick[p].task
          /\ Cardinality(RunsOf(tick[p].task)) \in Nat
          /\ tick'[p].runRank = Cardinality(RunsOf(tick[p].task)) + 1
      BY <1>4, <2>3, CreatedRank
    <3>2. h \in AllHandles
      BY <2>3, TickCreateLive
    <3>3. h.runRank \in 1 .. Cardinality(RunsOf(tick[p].task))
      BY <1>4, <3>1, <3>2 DEF RankInv, RankBelow
    <3> QED BY <3>1, <3>3
  <2> QED BY <1>4, <2>2, <2>3, HoldsStep
<1>5. Limited' = Limited
  BY DEF Limited
<1> QED BY <1>1, <1>2, <1>3, <1>4, <1>5 DEF RankInv

\* The runs of a limited task start in the order of their ranks, so the one that
\* closes the task (task.service.ts, lines 120-125) is the last to start: over
\* ticks that overlap, updates, restarts and crashes.
THEOREM LifecycleRanksInOrder == LifeSpec => []StartedInRankOrder
<1>1. LifeInit => RankInv
  <2> SUFFICES ASSUME LifeInit PROVE RankInv
    OBVIOUS
  <2>1. queue = Queue!EmptyQueue /\ body = [p \in Callers |-> NoBody]
    BY DEF LifeInit, RegInit
  <2>2. AllHandles = {} /\ DOMAIN queue.queue = {} /\ ~\E p \in Callers : Holds(p)
    BY <2>1 DEF AllHandles, Queue!Queued, Queue!EmptyQueue, Holds, NoBody
  <2> QED BY <2>2 DEF RankInv, StartedInRankOrder
<1>2. LifeInv /\ RankInv /\ [LifeNext]_vars => RankInv'
  BY RankStep
<1>3. RankInv => StartedInRankOrder
  BY DEF RankInv
<1> QED BY <1>1, <1>2, <1>3, LifeInvAlways, PTL DEF LifeSpec

-----------------------------------------------------------------------------
(* Active tasks have entries.                                              *)

\* start and stop of the scheduler keep every entry and its configuration.
LEMMA SchedulerKeeps ==
  ASSUME LifeInv, NEW t, NEW u \in Labels, sched[u] # Nil
  PROVE  \A s \in {Scheduler!Start(sched, t), Scheduler!Stop(sched, t)} :
           s[u] # Nil /\ s[u].config = sched[u].config
<1>1. sched \in [Labels -> {Nil} \cup Entries] /\ Nil \notin Entries
  BY NilAssumption DEF LifeInv, Core, LifeTypeOK, Entries
<1>2. \A on \in BOOLEAN : /\ [sched[u] EXCEPT !.on = on] \in Entries
                          /\ [sched[u] EXCEPT !.on = on].config = sched[u].config
  BY <1>1 DEF Entries
<1>3. ASSUME NEW on \in BOOLEAN
      PROVE  /\ [sched EXCEPT ![t].on = on][u] # Nil
             /\ [sched EXCEPT ![t].on = on][u].config = sched[u].config
  <2>1. [sched EXCEPT ![t].on = on][u] = IF u = t THEN [sched[u] EXCEPT !.on = on] ELSE sched[u]
    BY <1>1
  <2> QED BY <1>1, <1>2, <2>1
<1> QED BY <1>3 DEF Scheduler!Start, Scheduler!Stop, Scheduler!Exists

\* delete of the scheduler.
LEMMA SchedulerDeletes ==
  ASSUME LifeInv, NEW t
  PROVE  \A u \in Labels : Scheduler!Delete(sched, t)[u] = IF u = t THEN Nil ELSE sched[u]
BY DEF LifeInv, Core, LifeTypeOK, Scheduler!Delete

\* Whoever changes that task t has an entry, or the configuration of it.
LEMMA EntryChange ==
  ASSUME LifeInv, [LifeNext]_vars, NEW t \in Labels
  PROVE  \/ sched[t] = Nil /\ sched'[t] = Nil
         \/ sched[t] # Nil /\ sched'[t] # Nil /\ sched'[t].config = sched[t].config
         \/ Crash
         \/ BootTask /\ t \in toBoot /\ sched'[t] # Nil /\ sched'[t].config = row[t].config
         \/ \E c \in Clients :
              /\ proc[c].task = t
              /\ \/ Unschedule(c) /\ proc[c].op \in {"delete", "update"} /\ sched'[t] = Nil
                 \/ Register(c) /\ sched[t] = Nil /\ sched'[t] # Nil
                                /\ sched'[t].config = proc[c].config
<1>1. WhoChanges
  BY WhoChangesWhat
<1>2. ASSUME NEW i \in DOMAIN builds, BuildStart(i)
      PROVE  \/ sched[t] = Nil /\ sched'[t] = Nil
             \/ sched[t] # Nil /\ sched'[t] # Nil /\ sched'[t].config = sched[t].config
  BY <1>2, SchedulerKeeps, SchedulerOps DEF BuildStart
<1>3. ASSUME NEW p \in Callers, TickReturn(p)
      PROVE  \/ sched[t] = Nil /\ sched'[t] = Nil
             \/ sched[t] # Nil /\ sched'[t] # Nil /\ sched'[t].config = sched[t].config
  <2>1. sched' = sched \/ sched' = Scheduler!Stop(sched, tick[p].task)
    BY <1>3 DEF TickReturn
  <2> QED BY <2>1, SchedulerKeeps, SchedulerOps
<1>4. ASSUME NEW x \in Procs, Unschedule(x)
      PROVE  \/ sched[t] = Nil /\ sched'[t] = Nil
             \/ sched[t] # Nil /\ sched'[t] # Nil /\ sched'[t].config = sched[t].config
             \/ /\ x \in Clients /\ proc[x].task = t /\ sched'[t] = Nil
                /\ proc[x].op \in {"delete", "update"}
  <2>1. CASE proc[x].op \in {"delete", "update"}
    <3>1. x \in Clients
      BY <2>1, ProcKinds DEF LifeInv, Core, ProcInv
    <3>2. sched' = Scheduler!Delete(sched, proc[x].task)
      BY <1>4, <2>1 DEF Unschedule
    <3> QED BY <2>1, <3>1, <3>2, SchedulerDeletes
  <2>2. CASE proc[x].op \notin {"delete", "update"}
    <3>1. sched' = Scheduler!Stop(sched, proc[x].task)
      BY <1>4, <2>2 DEF Unschedule
    <3> QED BY <3>1, SchedulerKeeps, SchedulerOps
  <2> QED BY <2>1, <2>2
<1>5. ASSUME NEW x \in Procs, Register(x)
      PROVE  \/ sched'[t] = sched[t]
             \/ /\ x \in Clients /\ proc[x].task = t /\ sched[t] = Nil
                /\ sched'[t] # Nil /\ sched'[t].config = proc[x].config
  <2>1. x \in Clients
    <3>1. proc[x].op \in {"create", "start", "update"}
      BY <1>5, OpAt DEF Register, LifeInv, Core
    <3> QED BY <3>1, ProcKinds DEF LifeInv, Core, ProcInv
  <2>2. /\ proc[x].task \in Labels \ unused /\ proc[x].config \in Configs
        /\ ScheduleExecutable(proc[x].task, proc[x].config)
    BY <1>5, RegisterSchedules DEF Register
  <2> QED BY <2>1, <2>2, ScheduleOK
<1>6. ASSUME BootTask
      PROVE  \/ sched'[t] = sched[t]
             \/ t \in toBoot /\ sched'[t] # Nil /\ sched'[t].config = row[t].config
  <2>1. PICK u \in toBoot : ScheduleExecutable(u, row[u].config)
    BY <1>6 DEF BootTask
  <2>2. u \in Labels \ unused /\ row[u].config \in Configs /\ sched[u] = Nil
    <3>1. u \in tasks /\ sched[u] = Nil
      BY TaskTypes DEF LifeInv, Core, ServerInv
    <3>2. row[u] \in Row
      BY <3>1, TaskTypes DEF LifeInv, Core, LifeTypeOK, Row
    <3> QED BY <3>1, <3>2, TaskTypes DEF Row
  <2> QED BY <2>1, <2>2, ScheduleOK
<1> QED BY <1>1, <1>2, <1>3, <1>4, <1>5, <1>6 DEF WhoChanges, ChangesSched

\* Where the row of a task comes from.
LEMMA RowChange ==
  ASSUME LifeInv, [LifeNext]_vars, NEW t \in tasks'
  PROVE  \/ t \in tasks /\ row'[t] = row[t]
         \/ \E c \in Clients :
              /\ InsertRow(c) /\ t \in unused /\ row'[t].config = proc[c].config
              /\ proc'[c].op = "create" /\ proc'[c].pc = "register"
              /\ proc'[c].task = t /\ proc'[c].config = proc[c].config
         \/ \E x \in Procs :
              /\ proc[x].task = t /\ t \in tasks
              /\ \/ /\ Deactivate(x) /\ ~row'[t].active /\ row'[t].config = row[t].config
                 \/ /\ Activate(x) /\ row'[t].active /\ row'[t].config = row[t].config
                 \/ /\ UpdateRow(x) /\ row'[t].active = row[t].active
                    /\ row'[t].config = proc[x].config
<1>1. /\ tasks \subseteq Labels /\ row \in [Labels -> {Nil} \cup Row]
      /\ \A u \in tasks : row[u] \in Row
  BY TaskTypes DEF LifeInv, Core, LifeTypeOK, Row
<1>2. WhoChanges
  BY WhoChangesWhat
<1>3. ASSUME NEW x \in Procs, NEW u, NEW active \in BOOLEAN,
             row' = IF u \in tasks THEN [row EXCEPT ![u].active = active] ELSE row,
             t \in tasks
      PROVE  \/ row'[t] = row[t]
             \/ u = t /\ row'[t].active = active /\ row'[t].config = row[t].config
  BY <1>1, <1>3 DEF Row
<1>4. ASSUME NEW x \in Procs, Deactivate(x)
      PROVE  \/ t \in tasks /\ row'[t] = row[t]
             \/ t \in tasks /\ proc[x].task = t /\ ~row'[t].active /\ row'[t].config = row[t].config
  <2>1. t \in tasks /\ row' = IF proc[x].task \in tasks
                                THEN [row EXCEPT ![proc[x].task].active = FALSE] ELSE row
    BY <1>4 DEF Deactivate, SetActive, regVars, tableVars
  <2> QED BY <1>3, <2>1
<1>5. ASSUME NEW x \in Procs, Activate(x)
      PROVE  \/ t \in tasks /\ row'[t] = row[t]
             \/ t \in tasks /\ proc[x].task = t /\ row'[t].active /\ row'[t].config = row[t].config
  <2>1. t \in tasks /\ row' = IF proc[x].task \in tasks
                                THEN [row EXCEPT ![proc[x].task].active = TRUE] ELSE row
    BY <1>5 DEF Activate, SetActive, regVars, tableVars
  <2> QED BY <1>3, <2>1
<1>6. ASSUME NEW x \in Procs, UpdateRow(x)
      PROVE  \/ t \in tasks /\ row'[t] = row[t]
             \/ /\ t \in tasks /\ proc[x].task = t /\ row'[t].active = row[t].active
                /\ row'[t].config = proc[x].config
  <2>1. t \in tasks /\ row' = IF proc[x].task \in tasks
                                THEN [row EXCEPT ![proc[x].task].config = proc[x].config] ELSE row
    BY <1>6 DEF UpdateRow, regVars, tableVars
  <2> QED BY <1>1, <2>1 DEF Row
<1>7. ASSUME NEW x \in Procs, DeleteRow(x)
      PROVE  t \in tasks /\ row'[t] = row[t]
  <2>1. CASE proc[x].task \in tasks
    <3>1. row' = [row EXCEPT ![proc[x].task] = Nil] /\ tasks' = tasks \ {proc[x].task}
      BY <1>7, <2>1 DEF DeleteRow, DeleteTask
    <3> QED BY <1>1, <3>1
  <2>2. CASE proc[x].task \notin tasks
    BY <1>7, <2>2 DEF DeleteRow, regVars, tableVars
  <2> QED BY <2>1, <2>2
<1>8. ASSUME NEW c \in Clients, InsertRow(c)
      PROVE  \/ t \in tasks /\ row'[t] = row[t]
             \/ /\ t \in unused /\ row'[t].config = proc[c].config
                /\ proc'[c].op = "create" /\ proc'[c].pc = "register"
                /\ proc'[c].task = t /\ proc'[c].config = proc[c].config
  <2>1. CASE NameTaken(proc[c].name)
    BY <1>8, <2>1 DEF InsertRow, regVars, tableVars
  <2>2. CASE ~NameTaken(proc[c].name)
    <3>1. PICK u \in unused :
            /\ InsertTask(u)
            /\ row' = [row EXCEPT ![u] = [name |-> proc[c].name, active |-> TRUE,
                                          config |-> proc[c].config]]
            /\ proc' = [proc EXCEPT ![c] = After(c, [@ EXCEPT !.task = u], "insert")]
      BY <1>8, <2>2 DEF InsertRow
    <3>2. tasks' = tasks \cup {u} /\ u \in Labels
      BY <3>1, TaskTypes DEF InsertTask
    <3>3. /\ DOMAIN proc = Procs /\ c \in Procs /\ proc[c] \in Frames /\ proc[c].op = "create"
      BY <1>8, OpAt, ProcKinds DEF InsertRow, LifeInv, Core, ProcInv, FrameOK
    <3> DEFINE f == [proc[c] EXCEPT !.task = u]
    <3>4. f.op = "create" /\ f.task = u /\ f.config = proc[c].config /\ DOMAIN f = DOMAIN proc[c]
      BY <3>3 DEF Frames
    <3>5. proc'[c] = After(c, f, "insert")
      BY <3>1, <3>3
    <3> HIDE DEF f
    <3>6. proc'[c] = [f EXCEPT !.pc = "register"]
      BY <3>4, <3>5, AfterCreate
    <3>7. /\ proc'[c].op = "create" /\ proc'[c].pc = "register"
          /\ proc'[c].task = u /\ proc'[c].config = proc[c].config
      BY <3>3, <3>4, <3>6 DEF Frames
    <3> QED BY <1>1, <3>1, <3>2, <3>7
  <2> QED BY <2>1, <2>2
<1> QED BY <1>2, <1>4, <1>5, <1>6, <1>7, <1>8 DEF WhoChanges, ChangesRow

\* What a step makes of the frame of a client.
LEMMA ClientFrames ==
  ASSUME LifeInv, [LifeNext]_vars, NEW c \in Clients
  PROVE  \/ proc'[c] = proc[c]
         \/ FrameStep(c)
         \/ Crash /\ proc'[c] = IdleProc
<1>1. c \in Procs /\ c \notin RunIds /\ DOMAIN proc = Procs
  BY ProcKinds DEF LifeInv, Core, ProcInv
<1>2. ASSUME NEW pr, QueueBecomes(queue', pr), pr[c] = proc[c]
      PROVE  proc'[c] = proc[c]
  <2>1. LifeInv'
    BY LifeInvStep
  <2>2. queue'.executing \subseteq RunHandles /\ OneEach(queue'.executing)
    BY <2>1 DEF LifeInv, Core, PlaceInv, OneEach, QueueProofs!Balanced, QueueProofs!Sound,
       QueueProofs!QueueState, RunHandles
  <2>3. \A h \in queue'.executing \ queue.executing : h.runId # c
    BY <1>1, <2>2 DEF RunHandles
  <2> QED BY <1>1, <1>2, <2>2, <2>3, BecomesFrames
<1>3. ASSUME NEW x \in Procs, FrameStep(x)
      PROVE  proc'[c] = proc[c] \/ FrameStep(c)
  BY <1>1, <1>3, FrameMoves DEF Moves
<1>4. ASSUME NEW p \in Callers, TickReturn(p)
      PROVE  proc'[c] = proc[c]
  <2>1. Holds(p) => QueueBecomes(queue', proc)
    BY <1>4, EnqueueServed
  <2>2. UNCHANGED proc \/ Holds(p)
    BY <1>4 DEF TickReturn, Holds
  <2> QED BY <1>2, <2>1, <2>2
<1>5. ASSUME NEW r \in RunIds, RunSettles(r)
      PROVE  proc'[c] = proc[c]
  <2>1. QueueBecomes(queue', [proc EXCEPT ![r] = IdleProc])
    BY <1>5, SettleServed
  <2>2. [proc EXCEPT ![r] = IdleProc][c] = proc[c]
    BY <1>1
  <2> QED BY <1>2, <2>1, <2>2
<1>6. BootTask => proc'[c] = proc[c]
  BY <1>2, BootServed
<1>7. Crash => proc'[c] = IdleProc
  BY <1>1 DEF Crash
<1>8. WhoChanges
  BY WhoChangesWhat
<1>9. ChangesProc => \/ UNCHANGED proc \/ Crash \/ BootTask
                     \/ \E x \in Procs : FrameStep(x)
                     \/ \E p \in Callers : TickReturn(p)
                     \/ \E x \in RunIds : RunSettles(x)
  BY ProcKinds DEF ChangesProc, FrameStep
<1> QED BY <1>3, <1>4, <1>5, <1>6, <1>7, <1>8, <1>9 DEF WhoChanges

\* The routine step of x that its frame asks for, unless it fails.
LEMMA StepAt ==
  ASSUME NEW x, RoutineStep(x), ~CommandFails(x)
  PROVE  /\ At(x, "find") => Find(x)
         /\ At(x, "deactivate") => Deactivate(x)
         /\ At(x, "activate") => Activate(x)
         /\ At(x, "unschedule") => Unschedule(x)
         /\ At(x, "list") => ListChildren(x)
         /\ At(x, "children") => \E b \in Boxes : HandleChild(x, b)
         /\ At(x, "image") => RemoveImage(x)
         /\ At(x, "register") => Register(x)
         /\ At(x, "updateRow") => UpdateRow(x)
         /\ At(x, "deleteRow") => DeleteRow(x)
         /\ proc[x].pc \in {"find", "deactivate", "activate", "unschedule", "list",
                            "children", "pending", "image", "register", "updateRow",
                            "deleteRow"}
BY DEF RoutineStep, Find, Deactivate, Activate, Unschedule, ListChildren, HandleChild,
       StopPending, RemoveImage, Register, UpdateRow, DeleteRow, At

\* Which step comes next in the routines that make and remove entries.
LEMMA NextStep ==
  ASSUME LifeInv, NEW c \in Clients, RoutineStep(c), ~CommandFails(c)
  PROVE  /\ proc[c].op \in {"update", "delete"} =>
              /\ At(c, "unschedule") => proc'[c].pc = "list"
              /\ proc[c].pc \in {"list", "children"} => proc'[c].pc \in {"children", "image"}
              /\ At(c, "image") => proc'[c].pc = IF proc[c].op = "update" THEN "register"
                                                                          ELSE "deleteRow"
              /\ At(c, "register") => proc'[c].pc = "updateRow"
              /\ proc[c].pc \in {"updateRow", "deleteRow"} => proc'[c] = Done(c)
              /\ At(c, "find") => proc'[c] = Done(c) \/ proc'[c].pc = "unschedule"
         /\ proc[c].op = "start" =>
              /\ At(c, "find") => \/ proc'[c] = Done(c)
                                  \/ /\ proc'[c].pc = "register" /\ proc[c].task \in tasks
                                     /\ ~row[proc[c].task].active
                                     /\ proc'[c].config = row[proc[c].task].config
              /\ At(c, "register") => proc'[c].pc = "activate"
              /\ At(c, "activate") => proc'[c] = Done(c)
         /\ proc[c].op = "create" => At(c, "register") /\ proc'[c] = Done(c)
<1> DEFINE f == proc[c]
<1>1. /\ c \in Procs /\ DOMAIN proc = Procs /\ f \in Frames /\ f.op \in DOMAIN Routine
      /\ f.pc \in Steps(f.op)
  BY RoutineNotRun, ProcKinds DEF Procs
<1>2. ASSUME NEW g \in Frames, NEW pc, NEW q, proc'[c] = After(c, g, pc),
             After(c, g, pc) = [g EXCEPT !.pc = q]
      PROVE  proc'[c].pc = q /\ proc'[c].config = g.config
  BY <1>2 DEF Frames
<1>3. ASSUME Advance(c)
      PROVE  proc'[c] = After(c, f, f.pc)
  BY <1>1, <1>3 DEF Advance
<1>4. ASSUME f.op \in {"update", "delete"}
      PROVE  /\ At(c, "unschedule") => proc'[c].pc = "list"
             /\ At(c, "image") => proc'[c].pc = IF f.op = "update" THEN "register"
                                                                   ELSE "deleteRow"
             /\ At(c, "register") => proc'[c].pc = "updateRow"
             /\ f.pc \in {"updateRow", "deleteRow"} => proc'[c] = Done(c)
  <2>1. CASE At(c, "unschedule")
    <3>1. proc'[c] = After(c, f, "unschedule")
      BY <1>3, <2>1, StepAt DEF Unschedule, At
    <3> QED BY <1>1, <1>2, <1>4, <2>1, <3>1, AfterUpdate, AfterDelete DEF At
  <2>2. CASE At(c, "image")
    <3>1. proc'[c] = After(c, f, "image")
      BY <1>3, <2>2, StepAt DEF RemoveImage, At
    <3> QED BY <1>1, <1>2, <1>4, <2>2, <3>1, AfterUpdate, AfterDelete DEF At
  <2>3. CASE At(c, "register")
    <3>1. proc'[c] = After(c, f, "register") /\ f.op = "update"
      BY <1>3, <1>4, <2>3, StepAt, OpAt, <1>1 DEF Register, At, LifeInv, Core
    <3> QED BY <1>1, <1>2, <2>3, <3>1, AfterUpdate DEF At
  <2>4. CASE At(c, "updateRow")
    <3>1. proc'[c] = After(c, f, "updateRow") /\ f.op = "update"
      BY <1>3, <1>4, <2>4, StepAt, OpAt, <1>1 DEF UpdateRow, At, LifeInv, Core
    <3> QED BY <2>4, <3>1, AfterUpdate DEF At
  <2>5. CASE At(c, "deleteRow")
    <3>1. proc'[c] = After(c, f, "deleteRow") /\ f.op = "delete"
      BY <1>3, <1>4, <2>5, StepAt, OpAt, <1>1 DEF DeleteRow, At, LifeInv, Core
    <3> QED BY <2>5, <3>1, AfterDelete DEF At
  <2> QED BY <2>1, <2>2, <2>3, <2>4, <2>5 DEF At
<1>5. ASSUME f.op \in {"update", "delete"}, f.pc \in {"list", "children"}
      PROVE  proc'[c].pc \in {"children", "image"}
  <2>1. ASSUME NEW g \in Frames, g.op = f.op, proc'[c] = After(c, g, "children")
        PROVE  proc'[c].pc = "image"
    <3>1. After(c, g, "children") = [g EXCEPT !.pc = "image"]
      BY <1>5, <2>1, AfterUpdate, AfterDelete
    <3> QED BY <1>2, <2>1, <3>1
  <2>2. CASE At(c, "list")
    <3> DEFINE C == Children(f.task)
    <3>1. proc' = [proc EXCEPT ![c] = IF C = {} THEN After(c, f, "children")
                                      ELSE [f EXCEPT !.pc = "children", !.children = C]]
      BY <1>1, <2>2, StepAt DEF ListChildren
    <3> HIDE DEF C
    <3>2. [f EXCEPT !.pc = "children", !.children = C].pc = "children"
      BY <1>1 DEF Frames
    <3> QED BY <1>1, <2>1, <3>1, <3>2
  <2>3. CASE At(c, "children")
    <3>1. PICK b \in Boxes : HandleChild(c, b)
      BY <2>3, StepAt
    <3> DEFINE g == [f EXCEPT !.children = @ \ {b}]
    <3>2. \/ proc' = [proc EXCEPT ![c] = After(c, g, "children")]
          \/ proc' = [proc EXCEPT ![c] = g]
      BY <3>1 DEF HandleChild
    <3>3. g \in Frames /\ g.op = f.op /\ g.pc = "children"
      BY <1>1, <2>3 DEF Frames, At
    <3> HIDE DEF g
    <3> QED BY <1>1, <2>1, <3>2, <3>3
  <2> QED BY <1>5, <2>2, <2>3 DEF At
<1>6. ASSUME At(c, "find"), f.op \in {"update", "delete", "start"}
      PROVE  \/ proc'[c] = Done(c)
             \/ f.op # "start" /\ proc'[c].pc = "unschedule"
             \/ /\ f.op = "start" /\ proc'[c].pc = "register" /\ f.task \in tasks
                /\ ~row[f.task].active /\ proc'[c].config = row[f.task].config
  <2>0. Find(c)
    BY <1>6, StepAt
  <2>1. CASE Finish(c)
    BY <1>1, <2>1 DEF Finish
  <2>2. CASE f.op # "start" /\ ~Finish(c)
    <3>1. proc' = [proc EXCEPT ![c] = After(c, f, "find")]
      BY <2>0, <2>2 DEF Find
    <3>2. After(c, f, "find") = [f EXCEPT !.pc = "unschedule"]
      BY <1>6, <2>2, AfterUpdate, AfterDelete
    <3> QED BY <1>1, <1>2, <2>2, <3>1, <3>2
  <2>3. CASE f.op = "start" /\ ~Finish(c)
    <3> DEFINE g == [f EXCEPT !.config = row[f.task].config]
    <3>1. /\ proc' = [proc EXCEPT ![c] = After(c, g, "find")] /\ f.task \in tasks
          /\ ~row[f.task].active
      BY <2>0, <2>3 DEF Find
    <3>2. g \in Frames /\ g.op = f.op /\ g.config = row[f.task].config
      <4>1. row[f.task].config \in Configs
        BY <3>1, TaskTypes DEF LifeInv, Core, LifeTypeOK
      <4> QED BY <1>1, <4>1 DEF Frames
    <3> HIDE DEF g
    <3>3. After(c, g, "find") = [g EXCEPT !.pc = "register"]
      BY <2>3, <3>2, AfterStart
    <3> QED BY <1>1, <1>2, <2>3, <3>1, <3>2, <3>3
  <2> QED BY <2>1, <2>2, <2>3
<1>7. ASSUME f.op = "start"
      PROVE  /\ At(c, "register") => proc'[c].pc = "activate"
             /\ At(c, "activate") => proc'[c] = Done(c)
  <2>1. CASE At(c, "register")
    <3>1. proc'[c] = After(c, f, "register")
      BY <1>3, <2>1, StepAt DEF Register, At
    <3>2. After(c, f, "register") = [f EXCEPT !.pc = "activate"]
      BY <1>7, AfterStart
    <3> QED BY <1>1, <1>2, <3>1, <3>2, <2>1 DEF At
  <2>2. CASE At(c, "activate")
    <3>1. proc'[c] = After(c, f, "activate")
      BY <1>3, <2>2, StepAt DEF Activate, At
    <3>2. After(c, f, "activate") = Done(c)
      BY <1>7, AfterStart
    <3> QED BY <3>1, <3>2, <2>2 DEF At
  <2> QED BY <2>1, <2>2
<1>8. ASSUME f.op = "create"
      PROVE  At(c, "register") /\ proc'[c] = Done(c)
  <2>1. f.pc \in {"findName", "insert", "register"}
    BY <1>1, <1>8, StepsOf
  <2>2. At(c, "register")
    BY <2>1, StepAt DEF At
  <2>3. proc'[c] = After(c, f, "register")
    BY <1>3, <2>2, StepAt DEF Register, At
  <2> QED BY <1>8, <2>2, <2>3, AfterCreate
<1> QED BY <1>4, <1>5, <1>6, <1>7, <1>8

\* Nobody has made, or is in, a request of this kind.
Never(op) == \A x \in Procs : proc[x].op # op

\* A client asks for what it may ask for.
LEMMA RequestOp ==
  ASSUME ProcInv, NEW c \in Clients, Request(c)
  PROVE  proc'[c].op \in Ops
<1>1. /\ c \in Procs /\ DOMAIN proc = Procs /\ proc[c] \in Frames
  BY ProcKinds DEF ProcInv, FrameOK
<1>2. ASSUME NEW name, NEW config, proc' = [proc EXCEPT ![c].op = "create", ![c].pc = "findName",
                                                        ![c].name = name, ![c].config = config]
      PROVE  proc'[c].op = "create"
  <2>1. proc' = [proc EXCEPT ![c] = [proc[c] EXCEPT !.op = "create", !.pc = "findName",
                                                    !.name = name, !.config = config]]
    BY <1>1, <1>2
  <2> QED BY <1>1, <2>1 DEF Frames
<1>3. ASSUME NEW op, NEW t,
             proc' = [proc EXCEPT ![c].op = op, ![c].pc = "find", ![c].task = t]
      PROVE  proc'[c].op = op
  <2>1. proc' = [proc EXCEPT ![c] = [proc[c] EXCEPT !.op = op, !.pc = "find", !.task = t]]
    BY <1>1, <1>3
  <2> QED BY <1>1, <2>1 DEF Frames
<1>4. ASSUME NEW t, NEW config, proc' = [proc EXCEPT ![c].op = "update", ![c].pc = "find",
                                                     ![c].task = t, ![c].config = config]
      PROVE  proc'[c].op = "update"
  <2>1. proc' = [proc EXCEPT ![c] = [proc[c] EXCEPT !.op = "update", !.pc = "find",
                                                    !.task = t, !.config = config]]
    BY <1>1, <1>4
  <2> QED BY <1>1, <2>1 DEF Frames
<1> QED BY <1>2, <1>3, <1>4 DEF Request

\* What no client asks for is never done.
LEMMA NeverStep ==
  ASSUME LifeInv, [LifeNext]_vars, NEW op \in {"create", "start", "delete", "update"},
         op \notin Ops, Never(op)
  PROVE  Never(op)'
<1> SUFFICES ASSUME NEW x \in Procs PROVE proc'[x].op # op
  BY DEF Never
<1>1. proc[x].op # op /\ ProcInv /\ DOMAIN proc = Procs /\ proc[x] \in Frames
  BY DEF Never, LifeInv, Core, ProcInv, FrameOK
<1>2. CASE x \in RunIds
  <2>1. ProcInv'
    BY LifeInvStep DEF LifeInv, Core
  <2> QED BY <1>2, <2>1 DEF ProcInv
<1>3. CASE x \in Clients /\ FrameStep(x)
  <2>1. Done(x).op = "none"
    BY DoneOK
  <2>2. CASE Request(x)
    BY <1>1, <1>3, <2>2, RequestOp
  <2>3. CASE FindName(x)
    <3>1. proc[x].op = "create" /\ proc[x].pc = "findName"
      BY <1>1, <2>3, OpAt DEF FindName, At
    <3>2. proc'[x] = Done(x) \/ proc'[x] = [proc[x] EXCEPT !.pc = "insert"]
      BY <1>1, <2>3, <3>1, AfterCreate DEF FindName, Finish, Advance
    <3> QED BY <1>1, <2>1, <3>1, <3>2 DEF Frames
  <2>4. CASE InsertRow(x)
    <3>1. proc[x].op = "create"
      BY <1>1, <2>4, OpAt DEF InsertRow
    <3>2. \/ proc'[x] = Done(x)
          \/ \E t : proc'[x] = After(x, [proc[x] EXCEPT !.task = t], "insert")
      BY <1>1, <2>4 DEF InsertRow, Finish
    <3>3. ASSUME NEW t, proc'[x] = After(x, [proc[x] EXCEPT !.task = t], "insert")
          PROVE  proc'[x].op = "create"
      <4> DEFINE g == [proc[x] EXCEPT !.task = t]
      <4>1. g.op = "create" /\ DOMAIN g = DOMAIN proc[x] /\ "op" \in DOMAIN proc[x]
        BY <1>1, <3>1 DEF Frames
      <4>2. proc'[x] = After(x, g, "insert")
        BY <3>3
      <4> HIDE DEF g
      <4>3. After(x, g, "insert") = [g EXCEPT !.pc = "register"]
        BY <4>1, AfterCreate
      <4> QED BY <4>1, <4>2, <4>3
    <3> QED BY <1>1, <2>1, <3>1, <3>2, <3>3
  <2>5. CASE RoutineStep(x)
    BY <1>1, <1>3, <2>1, <2>5, RoutineTrack, ProcKinds
  <2> QED BY <1>3, <2>2, <2>3, <2>4, <2>5, ProcKinds DEF FrameStep
<1>4. IdleProc.op = "none"
  BY DEF IdleProc
<1> QED BY <1>1, <1>2, <1>3, <1>4, ClientFrames, ProcKinds

\* Client c has removed the entry of t, or made its row, and is about to make an
\* entry or to delete the row.
Replaces(c, t) ==
  /\ proc[c].task = t
  /\ \/ proc[c].op = "create" /\ proc[c].pc = "register"
     \/ proc[c].op = "update" /\ proc[c].pc \in {"list", "children", "image", "register"}
     \/ proc[c].op = "delete" /\ proc[c].pc \in {"list", "children", "image", "deleteRow"}

\* An active task, or one that a client will activate next, has an entry unless
\* somebody is about to make one.
EntryInv ==
  \A t \in tasks :
    row[t].active \/ (\E c \in Clients : At(c, "activate") /\ proc[c].task = t)
      => \/ sched[t] # Nil
         \/ server = "down"
         \/ t \in toBoot
         \/ \E c \in Clients : Replaces(c, t)

\* A client that replaces an entry makes it, or deletes the row.
LEMMA ReplacesStep ==
  ASSUME LifeInv, [LifeNext]_vars, NEW c \in Clients, NEW t \in tasks', Replaces(c, t),
         ~CommandFails(c)
  PROVE  \/ Replaces(c, t)'
         \/ sched'[t] # Nil
         \/ Crash
<1>1. CASE proc'[c] = proc[c]
  BY <1>1 DEF Replaces
<1>2. CASE FrameStep(c)
  <2>1. /\ proc[c].pc \in {"register", "list", "children", "image", "deleteRow"}
        /\ proc[c].op \in {"create", "update", "delete"}
        /\ c \in Procs /\ c \notin RunIds
    BY ProcKinds DEF Replaces
  <2>2. RoutineStep(c)
    BY <1>2, <2>1 DEF FrameStep, Request, FindName, InsertRow, At
  <2>3. CASE At(c, "register")
    <3>1. /\ Register(c) /\ proc[c].task = t /\ proc[c].task \in Labels \ unused
          /\ proc[c].config \in Configs /\ ScheduleExecutable(proc[c].task, proc[c].config)
      BY <2>1, <2>2, <2>3, StepAt, RegisterSchedules DEF Register, Replaces
    <3> QED BY <3>1, ScheduleOK
  <2>4. CASE At(c, "deleteRow")
    <3>1. DeleteRow(c) /\ proc[c].task = t
      BY <2>2, <2>4, StepAt DEF Replaces
    <3>2. t \notin tasks'
      BY <3>1 DEF DeleteRow, DeleteTask, regVars, tableVars
    <3> QED BY <3>2
  <2>5. CASE proc[c].pc \in {"list", "children", "image"}
    <3>1. proc[c].op \in {"update", "delete"} /\ proc[c].task = t
      BY <2>5 DEF Replaces
    <3>2. proc'[c].pc \in {"children", "image", IF proc[c].op = "update" THEN "register"
                                                                        ELSE "deleteRow"}
      BY <2>2, <2>5, <3>1, NextStep DEF At
    <3>3. proc'[c] # Done(c)
      <4>1. Done(c).pc = "idle"
        BY DoneOK, <2>1
      <4> QED BY <3>2, <4>1
    <3>4. proc'[c].op = proc[c].op /\ proc'[c].task = t
      BY <2>1, <2>2, <3>1, <3>3, RoutineTrack
    <3> QED BY <3>1, <3>2, <3>4 DEF Replaces
  <2> QED BY <2>1, <2>3, <2>4, <2>5 DEF At
<1> QED BY <1>1, <1>2, ClientFrames

\* A client that comes to activate a task has just found or made its entry.
LEMMA ActivateStep ==
  ASSUME LifeInv, [LifeNext]_vars, NEW c \in Clients, NEW t \in Labels,
         At(c, "activate")', proc'[c].task = t
  PROVE  (At(c, "activate") /\ proc[c].task = t) \/ sched'[t] # Nil
<1>1. CASE proc'[c] = proc[c]
  BY <1>1 DEF At
<1>2. CASE FrameStep(c)
  <2>1. c \in Procs /\ c \notin RunIds /\ ProcInv /\ DOMAIN proc = Procs
    BY ProcKinds DEF LifeInv, Core, ProcInv
  <2>0. proc'[c].op = "start"
    <3>1. FrameOK(proc'[c], unused') /\ proc'[c].pc = "activate"
      BY <1>2, <2>1, FrameMoves DEF Moves, At
    <3>2. proc'[c].op \in DOMAIN Routine /\ "activate" \in Steps(proc'[c].op)
      BY <3>1 DEF FrameOK, Frames
    <3> QED BY <3>2, StepsOf
  <2>2. ~Request(c)
    BY <1>2, <2>1, RequestMoves DEF At
  <2>3. ~FindName(c) /\ ~InsertRow(c)
    <3>3. FindName(c) \/ InsertRow(c) => proc[c].op = "create"
      BY <2>1, OpAt DEF FindName, InsertRow
    <3>4. FindName(c) => proc'[c].op # "start"
      <4> SUFFICES ASSUME FindName(c) PROVE proc'[c].op # "start"
        OBVIOUS
      <4>1. proc[c].op = "create" /\ proc[c].pc = "findName" /\ proc[c] \in Frames
        BY <2>1, <3>3 DEF FindName, At, ProcInv, FrameOK
      <4>2. Finish(c) \/ proc'[c] = After(c, proc[c], "findName")
        BY <2>1, <4>1 DEF FindName, Advance
      <4>3. proc'[c] = Done(c) \/ proc'[c] = [proc[c] EXCEPT !.pc = "insert"]
        BY <2>1, <4>1, <4>2, AfterCreate DEF Finish
      <4> QED BY <2>1, <4>1, <4>3, DoneOK DEF Frames
    <3>5. InsertRow(c) => proc'[c].op # "start"
      <4> SUFFICES ASSUME InsertRow(c) PROVE proc'[c].op # "start"
        OBVIOUS
      <4>1. proc[c].op = "create" /\ proc[c] \in Frames
        BY <2>1, <3>3 DEF ProcInv, FrameOK
      <4>2. \/ proc'[c] = Done(c)
            \/ \E u : proc'[c] = After(c, [proc[c] EXCEPT !.task = u], "insert")
        BY <2>1 DEF InsertRow, Finish
      <4>3. ASSUME NEW u, proc'[c] = After(c, [proc[c] EXCEPT !.task = u], "insert")
            PROVE  proc'[c].op = "create"
        <5> DEFINE g == [proc[c] EXCEPT !.task = u]
        <5>1. g.op = "create" /\ DOMAIN g = DOMAIN proc[c] /\ "op" \in DOMAIN proc[c]
          BY <4>1 DEF Frames
        <5> HIDE DEF g
        <5>2. proc'[c] = After(c, g, "insert")
          BY <4>3 DEF g
        <5>3. After(c, g, "insert") = [g EXCEPT !.pc = "register"]
          BY <5>1, AfterCreate
        <5> QED BY <5>1, <5>2, <5>3
      <4> QED BY <2>1, <4>2, <4>3, DoneOK
    <3> QED BY <2>0, <3>4, <3>5
  <2>4. RoutineStep(c) /\ proc'[c] # Done(c) /\ ~CommandFails(c)
    <3>1. Done(c).pc = "idle"
      BY <2>1, DoneOK
    <3>2. proc'[c] # Done(c)
      BY <3>1 DEF At
    <3>3. ~CommandFails(c)
      BY <2>1, <3>2, CommandFailsFacts
    <3> QED BY <1>2, <2>1, <2>2, <2>3, <3>2, <3>3 DEF FrameStep
  <2>5. /\ proc'[c].op = proc[c].op /\ proc'[c].task = proc[c].task
        /\ proc[c].op \in DOMAIN Routine /\ proc[c].pc \in Steps(proc[c].op)
    BY <2>1, <2>4, RoutineTrack, RoutineNotRun
  <2>6. proc'[c].op = "start"
    BY <2>0
  <2>7. At(c, "register")
    <3>1. proc[c].pc \in {"find", "register", "activate"}
      BY <2>5, <2>6, StepsOf
    <3> QED BY <2>4, <2>5, <2>6, <3>1, NextStep DEF At
  <2>8. /\ Register(c) /\ proc[c].task = t /\ proc[c].task \in Labels \ unused
        /\ proc[c].config \in Configs /\ ScheduleExecutable(proc[c].task, proc[c].config)
    BY <2>1, <2>4, <2>5, <2>7, StepAt, RegisterSchedules DEF Register
  <2> QED BY <2>8, ScheduleOK
<1>3. CASE proc'[c] = IdleProc
  BY <1>3 DEF IdleProc, At
<1> QED BY <1>1, <1>2, <1>3, ClientFrames

\* No update or delete fails between the removal of the old entry and its end.
NoneFailsHalfway ==
  \A c \in Clients : proc[c].op \in {"update", "delete"} => ~CommandFails(c)

\* Every step keeps that.
LEMMA EntryStep ==
  ASSUME LifeInv, [LifeNext]_vars, NoneFailsHalfway, EntryInv
  PROVE  EntryInv'
<1> SUFFICES ASSUME NEW t \in tasks',
                    \/ row'[t].active
                    \/ \E c \in Clients : At(c, "activate")' /\ proc'[c].task = t
             PROVE  \/ sched'[t] # Nil
                    \/ server' = "down"
                    \/ t \in toBoot'
                    \/ \E c \in Clients : Replaces(c, t)'
  BY DEF EntryInv, At
<1>1. t \in Labels
  <2>1. LifeInv'
    BY LifeInvStep
  <2> QED BY <2>1 DEF LifeInv, RegInv, RegTypeOK
<1>2. CASE Crash
  BY <1>2 DEF Crash
<1>3. CASE BootList
  <2>1. UNCHANGED <<proc, row, tasks>> /\ server = "down"
        /\ toBoot' = {u \in tasks : row[u].active}
    BY <1>3 DEF BootList, memVars, dbVars, regVars, tableVars
  <2>2. \A c \in Clients : proc[c].pc = "idle"
    BY <2>1 DEF LifeInv, Core, ServerInv
  <2> QED BY <2>1, <2>2 DEF At
<1>4. ASSUME ~Crash, NEW c \in Clients, Replaces(c, t)
      PROVE  sched'[t] # Nil \/ Replaces(c, t)'
  <2>1. c \in Procs
    BY ProcKinds DEF Procs
  <2>2. ~CommandFails(c)
    BY <1>4, <2>1, CommandFailsFacts DEF Replaces, NoneFailsHalfway
  <2> QED BY <1>4, <2>2, ReplacesStep
<1>5. ASSUME ~Crash, sched[t] # Nil
      PROVE  sched'[t] # Nil \/ \E c \in Clients : Replaces(c, t)'
  <2>1. ASSUME NEW c \in Clients, proc[c].task = t, Unschedule(c),
               proc[c].op \in {"delete", "update"}
        PROVE  Replaces(c, t)'
    <3>1. RoutineStep(c) /\ At(c, "unschedule") /\ c \in Procs /\ ~CommandFails(c)
      BY <2>1 DEF RoutineStep, Unschedule, Procs, CommandFails, At
    <3>2. proc'[c].pc = "list"
      BY <2>1, <3>1, NextStep
    <3>3. proc'[c].op = proc[c].op /\ proc'[c].task = proc[c].task
      <4>1. Done(c).pc = "idle"
        BY <3>1, DoneOK
      <4> QED BY <3>1, <3>2, <4>1, RoutineTrack
    <3> QED BY <2>1, <3>2, <3>3 DEF Replaces
  <2> QED BY <1>1, <1>5, <2>1, EntryChange
<1>6. ASSUME ~Crash, ~BootList, t \in toBoot
      PROVE  t \in toBoot' \/ sched'[t] # Nil
  <2>1. CASE BootTask
    <3>1. PICK u \in toBoot : ScheduleExecutable(u, row[u].config) /\ toBoot' = toBoot \ {u}
      BY <2>1 DEF BootTask
    <3>2. CASE u = t
      <4>1. sched[t] = Nil
        BY <1>6 DEF LifeInv, Core, ServerInv
      <4>2. u \in Labels \ unused /\ row[u].config \in Configs
        <5>1. u \in tasks
          BY <3>1, TaskTypes
        <5>2. row[u] \in Row
          BY <5>1, TaskTypes DEF LifeInv, Core, LifeTypeOK, Row
        <5> QED BY <5>1, <5>2, TaskTypes DEF Row
      <4> QED BY <3>1, <3>2, <4>2, ScheduleOK
    <3> QED BY <1>6, <3>1, <3>2
  <2>2. CASE Listen
    BY <1>6, <2>2 DEF Listen
  <2> QED BY <1>6, <2>1, <2>2, WhoChangesWhat DEF WhoChanges, ChangesServer, BootStep
<1>7. ASSUME ~Crash, ~BootList, server = "down"
      PROVE  server' = "down"
  BY <1>7, WhoChangesWhat DEF WhoChanges, ChangesServer, BootStep, BootTask, Listen
<1>8. ASSUME t \in tasks,
             row[t].active \/ \E c \in Clients : At(c, "activate") /\ proc[c].task = t
      PROVE  \/ sched[t] # Nil \/ server = "down" \/ t \in toBoot
             \/ \E c \in Clients : Replaces(c, t)
  BY <1>8 DEF EntryInv
<1>9. \/ sched'[t] # Nil
      \/ t \in tasks /\ (row[t].active \/ \E c \in Clients : At(c, "activate") /\ proc[c].task = t)
      \/ \E c \in Clients : Replaces(c, t)'
  <2>1. CASE row'[t].active
    <3>1. ASSUME NEW x \in Procs, Activate(x), proc[x].task = t, t \in tasks
          PROVE  \E c \in Clients : At(c, "activate") /\ proc[c].task = t
      <4>1. At(x, "activate") /\ proc[x].op = "start"
        BY <3>1, OpAt DEF Activate, LifeInv, Core
      <4>2. x \in Clients
        BY <4>1, ProcKinds DEF LifeInv, Core, ProcInv
      <4> QED BY <3>1, <4>1, <4>2
    <3> QED BY <2>1, <3>1, RowChange DEF Replaces
  <2>2. ASSUME NEW c \in Clients, At(c, "activate")', proc'[c].task = t
        PROVE  \/ sched'[t] # Nil
               \/ t \in tasks /\ \E d \in Clients : At(d, "activate") /\ proc[d].task = t
    <3>1. (At(c, "activate") /\ proc[c].task = t) \/ sched'[t] # Nil
      BY <1>1, <2>2, ActivateStep
    <3>2. CASE At(c, "activate") /\ proc[c].task = t
      <4>1. t \notin unused
        <5>1. FrameOK(proc[c], unused) /\ proc[c].op = "start"
          BY <3>2, OpAt, ProcKinds DEF LifeInv, Core, ProcInv
        <5> QED BY <3>2, <5>1 DEF FrameOK, At
      <4>2. t \in tasks
        BY <4>1, RowChange
      <4> QED BY <3>2, <4>2
    <3> QED BY <3>1, <3>2
  <2> QED BY <2>1, <2>2
<1> QED BY <1>2, <1>3, <1>4, <1>5, <1>6, <1>7, <1>8, <1>9

\* When nothing is under way, an active task has an entry in the scheduler
\* (task.service.ts, lines 141-209), whatever requests have overlapped: an update
\* removes the entry to make it again, and a delete looks at `active` long before.
\* An update, or a delete that a start overlaps, loses the entry when docker ls or
\* docker rmi fails: the hypothesis cannot be dropped.
THEOREM LifecycleActiveHasEntry ==
  ASSUME \/ "ls" \notin Failures /\ "rmi" \notin Failures
         \/ "update" \notin Ops /\ "delete" \notin Ops
  PROVE  LifeSpec => []ActiveHasEntry
<1> DEFINE NoneReplaced == /\ "update" \notin Ops => Never("update")
                           /\ "delete" \notin Ops => Never("delete")
<1>1. LifeInit => EntryInv /\ NoneReplaced
  BY DEF LifeInit, RegInit, EntryInv, Never, IdleProc
<1>2. LifeInv /\ EntryInv /\ NoneReplaced /\ [LifeNext]_vars => (EntryInv /\ NoneReplaced)'
  <2> SUFFICES ASSUME LifeInv, EntryInv, NoneReplaced, [LifeNext]_vars
               PROVE  (EntryInv /\ NoneReplaced)'
    OBVIOUS
  <2>1. NoneReplaced'
    BY NeverStep
  <2>2. NoneFailsHalfway
    <3> SUFFICES ASSUME NEW c \in Clients, proc[c].op \in {"update", "delete"}, CommandFails(c)
                 PROVE  FALSE
      BY DEF NoneFailsHalfway
    <3>1. c \in Procs /\ c \notin RunIds
      BY ProcKinds
    <3>2. "update" \in Ops \/ "delete" \in Ops
      BY <3>1 DEF Never
    <3> QED BY <3>1, <3>2, CommandFailsFacts DEF At
  <2> QED BY <2>1, <2>2, EntryStep
<1>3. LifeInv /\ EntryInv => ActiveHasEntry
  <2> SUFFICES ASSUME LifeInv, EntryInv, Quiet, NEW t \in tasks, row[t].active
               PROVE  sched[t] # Nil
    BY DEF ActiveHasEntry
  <2>1. server = "up" /\ toBoot = {}
    BY DEF Quiet, LifeInv, Core, ServerInv
  <2>2. \A c \in Clients : ~Replaces(c, t)
    BY ProcKinds DEF Quiet, Replaces
  <2> QED BY <2>1, <2>2 DEF EntryInv
<1> QED BY <1>1, <1>2, <1>3, LifeInvAlways, PTL DEF LifeSpec

-----------------------------------------------------------------------------
(* Entries match rows.                                                     *)

\* Requests come one at a time.
OneClient == \A c, d \in Clients : c = d

\* What client c relies on, between its looks at the row and the entry.
ClientMatch(c) ==
  LET t == proc[c].task
  IN  /\ proc[c].op \in {"create", "start"} /\ proc[c].pc = "register"
           => t \in tasks /\ proc[c].config = row[t].config
      /\ proc[c].op = "update" /\ proc[c].pc # "find" => t \in tasks
      /\ proc[c].op = "update" /\ proc[c].pc \in {"list", "children", "image", "register"}
           => sched[t] = Nil
      /\ proc[c].op = "delete" /\ proc[c].pc \in {"list", "children", "image", "deleteRow"}
           => sched[t] = Nil
      /\ proc[c].op = "update" /\ proc[c].pc = "updateRow"
           => sched[t] = Nil \/ sched[t].config = proc[c].config

\* An entry belongs to a row and has its configuration, but for an update that
\* is about to write the row.
MatchInv ==
  /\ \A t \in Labels : sched[t] # Nil =>
       /\ t \in tasks
       /\ \/ sched[t].config = row[t].config
          \/ \E c \in Clients : At(c, "updateRow") /\ proc[c].task = t
  /\ \A c \in Clients : ClientMatch(c)

\* A row is removed by a delete only.
LEMMA TasksKept ==
  ASSUME LifeInv, [LifeNext]_vars, NEW t \in tasks
  PROVE  t \in tasks' \/ \E c \in Clients : DeleteRow(c) /\ proc[c].task = t
<1>1. ASSUME NEW x \in Procs, DeleteRow(x)
      PROVE  t \in tasks' \/ (x \in Clients /\ proc[x].task = t)
  <2>1. x \in Clients
    BY <1>1, OpAt, ProcKinds DEF DeleteRow, LifeInv, Core, ProcInv
  <2>2. tasks' = tasks \/ tasks' = tasks \ {proc[x].task}
    BY <1>1 DEF DeleteRow, DeleteTask, regVars, tableVars
  <2> QED BY <2>1, <2>2
<1>2. ASSUME NEW c \in Clients, InsertRow(c)
      PROVE  t \in tasks'
  BY <1>2 DEF InsertRow, InsertTask, regVars, tableVars
<1>3. ASSUME NEW x \in Procs, Deactivate(x) \/ Activate(x) \/ UpdateRow(x)
      PROVE  t \in tasks'
  BY <1>3 DEF Deactivate, Activate, UpdateRow, regVars, tableVars
<1> QED BY <1>1, <1>2, <1>3, WhoChangesWhat DEF WhoChanges, ChangesRow

\* UpdateRow and Register as far as the row and the entry go.
LEMMA UpdateRowWrites ==
  ASSUME LifeInv, NEW c \in Clients, UpdateRow(c), NEW t \in tasks, proc[c].task = t
  PROVE  t \in tasks' /\ row'[t].config = proc[c].config /\ sched' = sched
<1>1. row \in [Labels -> {Nil} \cup Row] /\ t \in Labels /\ row[t] \in Row
  BY TaskTypes DEF LifeInv, Core, LifeTypeOK, Row
<1>2. row' = [row EXCEPT ![t].config = proc[c].config] /\ tasks' = tasks /\ sched' = sched
  BY DEF UpdateRow, regVars, tableVars
<1> QED BY <1>1, <1>2 DEF Row

\* What becomes of an entry and its row in one step.
LEMMA EntriesMatch ==
  ASSUME LifeInv, [LifeNext]_vars, MatchInv, NEW t \in Labels, sched'[t] # Nil
  PROVE  /\ t \in tasks'
         /\ \/ sched'[t].config = row'[t].config
            \/ \E c \in Clients : At(c, "updateRow")' /\ proc'[c].task = t
<1>1. CASE sched[t] # Nil /\ sched'[t].config = sched[t].config
  <2>1. t \in tasks /\ t \notin unused
    BY <1>1, TaskTypes DEF MatchInv
  <2>2. t \in tasks'
    <3>1. ASSUME NEW c \in Clients, DeleteRow(c), proc[c].task = t
          PROVE  FALSE
      <4>1. proc[c].pc = "deleteRow" /\ proc[c].op = "delete"
        BY <3>1, OpAt, ProcKinds DEF DeleteRow, At, LifeInv, Core
      <4> QED BY <1>1, <3>1, <4>1 DEF MatchInv, ClientMatch
    <3> QED BY <2>1, <3>1, TasksKept
  <2>3. ASSUME NEW x \in Procs, UpdateRow(x), proc[x].task = t
        PROVE  sched'[t].config = row'[t].config
    <3>1. x \in Clients /\ proc[x].op = "update" /\ proc[x].pc = "updateRow"
      BY <2>3, OpAt, ProcKinds DEF UpdateRow, At, LifeInv, Core, ProcInv
    <3>2. row'[t].config = proc[x].config
      BY <2>1, <2>3, <3>1, UpdateRowWrites
    <3> QED BY <1>1, <2>3, <3>1, <3>2 DEF MatchInv, ClientMatch
  <2>4. CASE sched[t].config = row[t].config
    <3>1. \/ row'[t].config = row[t].config
          \/ \E x \in Procs : UpdateRow(x) /\ proc[x].task = t
      BY <2>1, <2>2, RowChange
    <3> QED BY <1>1, <2>2, <2>3, <2>4, <3>1
  <2>5. ASSUME NEW c \in Clients, At(c, "updateRow"), proc[c].task = t
        PROVE  \/ sched'[t].config = row'[t].config
               \/ At(c, "updateRow")' /\ proc'[c].task = t
    <3>1. c \in Procs /\ c \notin RunIds
      BY ProcKinds
    <3>2. CASE proc'[c] = proc[c]
      BY <2>5, <3>2 DEF At
    <3>3. CASE FrameStep(c)
      <4>1. RoutineStep(c) /\ ~CommandFails(c)
        BY <2>5, <3>1, <3>3 DEF FrameStep, Request, FindName, InsertRow, CommandFails, At
      <4> QED BY <2>3, <2>5, <3>1, <4>1, StepAt
    <3>4. ~Crash
      BY TaskTypes DEF Crash
    <3> QED BY <3>2, <3>3, <3>4, ClientFrames
  <2> QED BY <1>1, <2>2, <2>4, <2>5 DEF MatchInv
<1>2. CASE BootTask /\ t \in toBoot /\ sched'[t].config = row[t].config
  <2>1. tasks' = tasks /\ row' = row
    BY <1>2, BootFrame DEF BootStep, regVars, tableVars, dbVars
  <2> QED BY <1>2, <2>1, TaskTypes
<1>3. ASSUME NEW c \in Clients, proc[c].task = t, Register(c), sched[t] = Nil,
             sched'[t].config = proc[c].config
      PROVE  /\ t \in tasks'
             /\ \/ sched'[t].config = row'[t].config
                \/ At(c, "updateRow")' /\ proc'[c].task = t
  <2>0. ~CommandFails(c)
    BY <1>3 DEF Register, CommandFails, At
  <2>1. /\ tasks' = tasks /\ row' = row /\ c \in Procs /\ At(c, "register") /\ RoutineStep(c)
        /\ proc[c].op \in {"create", "start", "update"}
    BY <1>3, OpAt, ProcKinds DEF Register, RoutineStep, regVars, tableVars, dbVars, LifeInv, Core
  <2>2. CASE proc[c].op \in {"create", "start"}
    BY <1>3, <2>1, <2>2 DEF MatchInv, ClientMatch, At
  <2>3. CASE proc[c].op = "update"
    <3>1. t \in tasks
      BY <1>3, <2>1, <2>3 DEF MatchInv, ClientMatch, At
    <3>2. proc'[c].pc = "updateRow"
      BY <2>0, <2>1, <2>3, NextStep
    <3>3. proc'[c].task = t
      BY <1>3, <2>0, <2>1, <3>2, DoneOK, RoutineTrack
    <3> QED BY <2>1, <3>1, <3>2, <3>3 DEF At
  <2> QED BY <2>1, <2>2, <2>3
<1>4. ~Crash
  BY DEF Crash
<1> QED BY <1>1, <1>2, <1>3, <1>4, EntryChange

\* Steps of others leave alone what the one client relies on.
LEMMA OthersKeepMatch ==
  ASSUME LifeInv, [LifeNext]_vars, OneClient, MatchInv, NEW c \in Clients,
         ~FrameStep(c), ~Crash
  PROVE  ClientMatch(c)'
<1> DEFINE t == proc[c].task
<1>1. c \in Procs /\ proc'[c] = proc[c]
  BY ClientFrames, ProcKinds DEF Procs
<1>2. \A d \in Clients : ~FrameStep(d)
  BY DEF OneClient
<1>3. ASSUME NEW d \in Clients, InsertRow(d) \/ RoutineStep(d)
      PROVE  FALSE
  BY <1>2, <1>3 DEF FrameStep
<1>4. SUFFICES ASSUME proc[c].op \in {"create", "start", "update", "delete"}, proc[c].pc # "find",
                      proc[c].op = "create" => proc[c].pc = "register"
               PROVE  ClientMatch(c)'
  BY <1>1 DEF ClientMatch
<1>5. t \in Labels \ unused
  <2>1. FrameOK(proc[c], unused) /\ proc[c].op # "none"
    BY <1>1, <1>4 DEF LifeInv, Core, ProcInv
  <2>2. proc[c].pc \notin {"findName", "insert"}
    BY <1>1, <1>4, OpAt DEF LifeInv, Core, At
  <2> QED BY <2>1, <2>2 DEF FrameOK
<1>6. t \in tasks => t \in tasks' /\ row'[t].config = row[t].config
  <2>1. ASSUME NEW d \in Clients, DeleteRow(d)
        PROVE  FALSE
    BY <1>3, <2>1 DEF RoutineStep
  <2>2. ASSUME NEW x \in Procs, UpdateRow(x)
        PROVE  FALSE
    <3>1. x \in Clients
      BY <2>2, OpAt, ProcKinds DEF UpdateRow, LifeInv, Core, ProcInv
    <3> QED BY <1>3, <2>2, <3>1 DEF RoutineStep
  <2>3. t \in tasks => t \in tasks'
    BY <2>1, TasksKept
  <2> QED BY <1>3, <1>5, <2>2, <2>3, RowChange
<1>7. ~BootTask
  <2>1. proc[c].pc # "idle"
    <3>1. FrameOK(proc[c], unused)
      BY <1>1 DEF LifeInv, Core, ProcInv
    <3> QED BY <1>4, <3>1, StepsOf DEF FrameOK, Frames
  <2> QED BY <2>1 DEF BootTask, LifeInv, Core, ServerInv
<1>8. \/ sched[t] = Nil /\ sched'[t] = Nil
      \/ sched[t] # Nil /\ sched'[t] # Nil /\ sched'[t].config = sched[t].config
  <2>1. ASSUME NEW d \in Clients, Unschedule(d) \/ Register(d)
        PROVE  FALSE
    BY <1>3, <2>1 DEF RoutineStep
  <2> QED BY <1>5, <1>7, <2>1, EntryChange
<1>9. ClientMatch(c)
  BY DEF MatchInv
<1> QED BY <1>1, <1>6, <1>8, <1>9 DEF ClientMatch

\* The first steps of a request: the row that a create makes matches.
LEMMA FirstStepsMatch ==
  ASSUME LifeInv, [LifeNext]_vars, NEW c \in Clients,
         Request(c) \/ FindName(c) \/ InsertRow(c)
  PROVE  ClientMatch(c)'
<1>1. c \in Procs /\ DOMAIN proc = Procs /\ ProcInv
  BY ProcKinds DEF LifeInv, Core, ProcInv
<1>2. CASE Request(c)
  <2>1. proc'[c].pc \in {"findName", "find"} /\ FrameOK(proc'[c], unused')
    BY <1>1, <1>2, RequestMoves DEF Moves
  <2>2. proc'[c].pc # "find" => proc'[c].op = "create"
    <3>1. proc'[c].pc # "find" => proc'[c].op \in DOMAIN Routine /\ "findName" \in Steps(proc'[c].op)
      BY <2>1, StepsOf DEF FrameOK, Frames
    <3> QED BY <3>1, StepsOf
  <2> QED BY <2>1, <2>2 DEF ClientMatch
<1>3. CASE FindName(c)
  <2>1. proc[c].op = "create" /\ proc[c].pc = "findName" /\ proc[c] \in Frames
    BY <1>1, <1>3, OpAt DEF FindName, At, ProcInv, FrameOK
  <2>2. proc'[c] = Done(c) \/ proc'[c] = After(c, proc[c], "findName")
    BY <1>1, <1>3, <2>1 DEF FindName, Finish, Advance
  <2>3. proc'[c] = Done(c) \/ proc'[c] = [proc[c] EXCEPT !.pc = "insert"]
    BY <2>1, <2>2, AfterCreate
  <2>4. proc'[c].op = "none" \/ (proc'[c].op = "create" /\ proc'[c].pc = "insert")
    BY <1>1, <2>1, <2>3, DoneOK DEF Frames
  <2> QED BY <2>4 DEF ClientMatch
<1>4. CASE InsertRow(c)
  <2>1. CASE NameTaken(proc[c].name)
    <3>1. proc'[c] = Done(c)
      BY <1>1, <1>4, <2>1 DEF InsertRow, Finish
    <3>2. proc'[c].op = "none"
      BY <1>1, <3>1, DoneOK
    <3> QED BY <3>2 DEF ClientMatch
  <2>2. CASE ~NameTaken(proc[c].name)
    <3>1. PICK t \in unused : InsertTask(t)
      BY <1>4, <2>2 DEF InsertRow
    <3>2. t \in tasks' /\ t \notin tasks
      BY <3>1, TaskTypes DEF InsertTask
    <3>3. ~\E x \in Procs : Deactivate(x) \/ Activate(x) \/ UpdateRow(x)
      BY <3>2 DEF Deactivate, Activate, UpdateRow, regVars, tableVars
    <3>4. PICK d \in Clients :
              /\ InsertRow(d) /\ row'[t].config = proc[d].config
              /\ proc'[d].op = "create" /\ proc'[d].pc = "register"
              /\ proc'[d].task = t /\ proc'[d].config = proc[d].config
      BY <3>2, <3>3, RowChange
    <3>5. c = d
      <4>1. d \in Procs /\ proc[d].op = "create" /\ proc[d].pc = "insert"
        BY <1>1, <3>4, OpAt, ProcKinds DEF InsertRow, At
      <4>2. c # d => proc'[d] = proc[d]
        BY <1>1, <1>4, <4>1, FrameMoves DEF FrameStep, Moves
      <4> QED BY <3>4, <4>1, <4>2
    <3> QED BY <3>2, <3>4, <3>5 DEF ClientMatch
  <2> QED BY <2>1, <2>2
<1> QED BY <1>2, <1>3, <1>4

\* The later steps of a request keep what it relies on.
LEMMA RoutineMatch ==
  ASSUME LifeInv, [LifeNext]_vars, MatchInv, NEW c \in Clients, RoutineStep(c)
  PROVE  ClientMatch(c)'
<1>9. CASE CommandFails(c)
  <2>1. c \in Procs /\ proc'[c] = Done(c)
    BY <1>9, CommandFailsFacts, ProcKinds DEF Procs
  <2>2. Done(c).op = "none"
    BY <2>1, DoneOK
  <2> QED BY <2>1, <2>2 DEF ClientMatch
<1> SUFFICES ASSUME ~CommandFails(c) PROVE ClientMatch(c)'
  BY <1>9
<1> DEFINE f == proc[c]
           t == f.task
<1>0. ClientMatch(c)
  BY DEF MatchInv
<1>1. c \in Procs /\ DOMAIN proc = Procs /\ ProcInv /\ f \in Frames /\ FrameOK(f, unused)
      /\ f.op \in DOMAIN Routine /\ f.pc \in Steps(f.op)
  BY RoutineNotRun, ProcKinds DEF LifeInv, Core, ProcInv, FrameOK, Procs
<1>2. f.op \in {"create", "start", "stop", "delete", "update"}
  BY <1>1, StepsOf DEF ProcInv
<1>3. \/ proc'[c] = Done(c)
      \/ /\ proc'[c].op = f.op /\ proc'[c].task = t /\ proc'[c].pc \in Steps(f.op)
         /\ proc'[c].config = f.config \/ (Find(c) /\ f.op = "start")
  BY <1>1, RoutineTrack
<1>4. Done(c).op = "none" /\ Done(c).pc = "idle"
  BY <1>1, DoneOK
<1>5. CASE proc'[c].op \in {"none", "stop", "create"}
  <2>1. f.op # "create" \/ proc'[c] = Done(c)
    BY NextStep
  <2>2. proc'[c].op # "create"
    BY <1>3, <1>4, <2>1
  <2> QED BY <1>5, <2>2 DEF ClientMatch
<1>6. CASE f.op = "start" /\ proc'[c].op = "start"
  <2>1. f.pc \in {"find", "register", "activate"}
    BY <1>1, <1>6, StepsOf
  <2>2. proc'[c] # Done(c)
    BY <1>4, <1>6
  <2>3. CASE f.pc = "find"
    <3>1. /\ proc'[c].pc = "register" /\ t \in tasks /\ proc'[c].config = row[t].config
          /\ proc'[c].task = t
      BY <1>3, <1>6, <2>2, <2>3, NextStep DEF At
    <3>2. tasks' = tasks /\ row' = row
      BY <2>3, StepAt DEF At, Find, regVars, tableVars, dbVars
    <3> QED BY <1>6, <3>1, <3>2 DEF ClientMatch
  <2>4. CASE f.pc # "find"
    <3>1. proc'[c].pc = "activate"
      BY <1>6, <2>1, <2>2, <2>4, NextStep DEF At
    <3> QED BY <1>6, <3>1 DEF ClientMatch
  <2> QED BY <2>3, <2>4
<1>7. CASE f.op = "delete" /\ proc'[c].op = "delete"
  <2>1. f.pc \in {"find", "unschedule", "list", "children", "image", "deleteRow"}
    BY <1>1, <1>7, StepsOf
  <2>2. proc'[c] # Done(c)
    BY <1>4, <1>7
  <2>3. t \in Labels
    BY <1>1, <2>1, StepsOf, <1>7 DEF FrameOK
  <2>4. CASE f.pc = "find"
    <3>1. proc'[c].pc = "unschedule"
      BY <1>7, <2>2, <2>4, NextStep DEF At
    <3> QED BY <1>7, <3>1 DEF ClientMatch
  <2>5. CASE f.pc = "unschedule"
    <3>1. sched' = Scheduler!Delete(sched, t)
      BY <1>7, <2>5, StepAt DEF At, Unschedule
    <3>2. sched'[t] = Nil
      BY <2>3, <3>1, SchedulerDeletes
    <3> QED BY <1>3, <1>7, <2>2, <3>2 DEF ClientMatch
  <2>6. CASE f.pc \in {"list", "children", "image"}
    <3>1. sched[t] = Nil
      BY <1>7, <2>6 DEF MatchInv, ClientMatch
    <3>2. sched' = sched
      BY <2>6, StepAt DEF At, ListChildren, HandleChild, RemoveImage
    <3> QED BY <1>3, <1>7, <2>2, <3>1, <3>2 DEF ClientMatch
  <2>7. f.pc # "deleteRow"
    BY <1>7, <2>2, NextStep
  <2> QED BY <2>1, <2>4, <2>5, <2>6, <2>7
<1>8. CASE f.op = "update" /\ proc'[c].op = "update"
  <2>1. f.pc \in {"find", "unschedule", "list", "children", "image", "register", "updateRow"}
    BY <1>1, <1>8, StepsOf
  <2>2. proc'[c] # Done(c)
    BY <1>4, <1>8
  <2>3. t \in Labels \ unused
    BY <1>1, <1>8, <2>1, StepsOf DEF FrameOK
  <2>4. CASE f.pc = "find"
    <3>1. proc'[c].pc = "unschedule"
      BY <1>8, <2>2, <2>4, NextStep DEF At
    <3>2. tasks' = tasks /\ t \in tasks
      <4>1. Find(c)
        BY <2>4, StepAt DEF At
      <4>2. ~Finish(c)
        BY <1>1, <2>2 DEF Finish
      <4> QED BY <4>1, <4>2 DEF Find, regVars, tableVars
    <3> QED BY <1>3, <1>8, <2>2, <3>1, <3>2 DEF ClientMatch
  <2>5. CASE f.pc \in {"unschedule", "list", "children", "image", "register"}
    <3>1. t \in tasks
      BY <1>8, <2>5 DEF MatchInv, ClientMatch
    <3>2. tasks' = tasks
      BY <2>5, StepAt DEF At, Unschedule, ListChildren, HandleChild, RemoveImage, Register,
                          regVars, tableVars
    <3>3. CASE f.pc = "unschedule"
      <4>1. proc'[c].pc = "list"
        BY <1>8, <3>3, NextStep DEF At
      <4>2. sched' = Scheduler!Delete(sched, t)
        BY <1>8, <3>3, StepAt DEF At, Unschedule
      <4>3. sched'[t] = Nil
        BY <2>3, <4>2, SchedulerDeletes
      <4> QED BY <1>3, <1>8, <2>2, <3>1, <3>2, <4>1, <4>3 DEF ClientMatch
    <3>4. CASE f.pc \in {"list", "children", "image"}
      <4>1. sched[t] = Nil
        BY <1>0, <1>8, <3>4 DEF ClientMatch
      <4>2. sched' = sched
        BY <3>4, StepAt DEF At, ListChildren, HandleChild, RemoveImage
      <4> QED BY <1>3, <1>8, <2>2, <3>1, <3>2, <4>1, <4>2 DEF ClientMatch
    <3>5. CASE f.pc = "register"
      <4>1. sched[t] = Nil
        BY <1>0, <1>8, <3>5 DEF ClientMatch
      <4>2. Register(c) /\ proc'[c].pc = "updateRow"
        BY <1>8, <3>5, StepAt, NextStep DEF At
      <4>3. f.config \in Configs /\ ScheduleExecutable(t, f.config)
        BY <1>1, <4>2, RegisterSchedules DEF Register
      <4>4. sched'[t].config = f.config
        BY <2>3, <4>1, <4>3, ScheduleOK
      <4>5. proc'[c].config = f.config /\ proc'[c].task = t
        BY <1>3, <1>8, <2>2
      <4> QED BY <1>8, <3>1, <3>2, <4>2, <4>4, <4>5 DEF ClientMatch
    <3> QED BY <2>5, <3>3, <3>4, <3>5
  <2>6. f.pc # "updateRow"
    BY <1>8, <2>2, NextStep
  <2> QED BY <2>1, <2>4, <2>5, <2>6
<1> QED BY <1>2, <1>3, <1>4, <1>5, <1>6, <1>7, <1>8

\* Every step keeps the match.
LEMMA MatchStep ==
  ASSUME LifeInv, [LifeNext]_vars, OneClient, MatchInv
  PROVE  MatchInv'
<1>1. \A t \in Labels : sched'[t] # Nil =>
        /\ t \in tasks'
        /\ \/ sched'[t].config = row'[t].config
           \/ \E c \in Clients : At(c, "updateRow")' /\ proc'[c].task = t
  BY EntriesMatch
<1>2. ASSUME NEW c \in Clients
      PROVE  ClientMatch(c)'
  <2>1. CASE Crash
    <3>1. proc'[c] = IdleProc
      BY <2>1, ProcKinds DEF Crash
    <3> QED BY <3>1 DEF ClientMatch, IdleProc
  <2>2. CASE FrameStep(c)
    BY <2>2, FirstStepsMatch, RoutineMatch, ProcKinds DEF FrameStep
  <2> QED BY <2>1, <2>2, OthersKeepMatch
<1> QED BY <1>1, <1>2 DEF MatchInv, At

\* When nothing is under way, an entry of the scheduler is of a task that exists
\* and has the configuration of its row (task.service.ts, lines 141-209), when
\* requests come one at a time: ticks, the close of a task after its last run,
\* restarts and crashes do not break it.  Two updates that overlap do, and so does
\* a start that overlaps a delete: the hypothesis cannot be dropped.
THEOREM LifecycleEntriesMatch ==
  ASSUME OneClient
  PROVE  LifeSpec => []EntryMatchesRow
<1>1. LifeInit => MatchInv
  BY ProcKinds DEF LifeInit, MatchInv, ClientMatch, IdleProc
<1>2. LifeInv /\ MatchInv /\ [LifeNext]_vars => MatchInv'
  BY MatchStep
<1>3. LifeInv /\ MatchInv => EntryMatchesRow
  <2> SUFFICES ASSUME MatchInv, Quiet, NEW t \in Labels, sched[t] # Nil
               PROVE  t \in tasks /\ sched[t].config = row[t].config
    BY DEF EntryMatchesRow
  <2>1. ~\E c \in Clients : At(c, "updateRow")
    BY ProcKinds DEF Quiet, At
  <2> QED BY <2>1 DEF MatchInv
<1> QED BY <1>1, <1>2, <1>3, LifeInvAlways, PTL DEF LifeSpec

-----------------------------------------------------------------------------
(* Pending runs are held.                                                  *)

\* A held run stays held until the tick returns.
LEMMA HeldOrReturned ==
  ASSUME LifeInv, [LifeNext]_vars, NEW p \in Callers, Holds(p)
  PROVE  \/ Holds(p)' /\ tick'[p] = tick[p]
         \/ TickReturn(p)
         \/ Crash
<1>1. Inside(p) /\ tick[p].pc = "mutex"
  BY HoldsInMutex
<1>2. ASSUME NEW q \in Callers, TickStep(q)
      PROVE  (Holds(p)' /\ tick'[p] = tick[p]) \/ TickReturn(p)
  <2>1. CASE q = p
    <3>1. ~TickRetry(p)
      BY <1>1 DEF TickRetry, RetryRegister, Wake, Waiting, Inside
    <3> QED BY <1>1, <1>2, <2>1, <3>1 DEF TickStep, TickCheck, TickRegister, TickCount,
         CountRuns, TickCreate, CreateRun, TickRefused, Holds
  <2>2. CASE q # p
    BY <1>2, <2>2, TickStepTick DEF Holds
  <2> QED BY <2>1, <2>2
<1>3. ASSUME NEW q \in Callers, NEW t \in Labels, CronFires(q, t)
      PROVE  Holds(p)' /\ tick'[p] = tick[p]
  <2>1. Holds(p)'
    BY <1>3, CronFrame DEF regVars, Holds
  <2>2. p # q
    BY <1>1, <1>3 DEF CronFires
  <2> QED BY <1>3, <2>1, <2>2, TaskTypes DEF CronFires
<1>4. UNCHANGED <<call, body, lastId>> => Holds(p)'
  BY DEF Holds
<1> QED BY <1>2, <1>3, <1>4, WhoChangesWhat DEF WhoChanges, ChangesTick, ChangesReg

\* The list of pending runs that the start-up queries is complete.
LEMMA PendingCovered ==
  ASSUME LifeInv, NEW t \in toBoot, NEW s \in PendingRuns(t),
         NEW run \in RunsOf(t), status[run.id] = "pending"
  PROVE  \E i \in 1 .. Len(Handles(s)) : Handles(s)[i] = Handle(run)
<1> DEFINE S == {r \in RunsOf(t) : status[r.id] = "pending"}
           m == Cardinality(S)
<1>1. IsFiniteSet(S) /\ m \in Nat
  <2>1. S \subseteq runs /\ IsFiniteSet(runs)
    BY DEF RunsOf, LifeInv, RegInv
  <2> QED BY <2>1, FS_Subset, FS_CardinalityType
<1>2. /\ s \in [1 .. m -> S]
      /\ \A i, j \in DOMAIN s : i < j => s[i] # s[j]
  BY DEF PendingRuns
<1>3. run \in S
  OBVIOUS
<1> HIDE DEF S
<1> HIDE DEF m
<1>4. \A i, j \in 1 .. m : s[i] = s[j] => i = j
  <2> SUFFICES ASSUME NEW i \in 1 .. m, NEW j \in 1 .. m, i # j PROVE s[i] # s[j]
    OBVIOUS
  <2>1. i < j \/ j < i
    BY <1>1
  <2> QED BY <1>2, <2>1
<1>5. s \in Injection(1 .. m, S)
  BY <1>2, <1>4 DEF Injection, IsInjective
<1>6. Cardinality(1 .. m) = m
  BY <1>1, FS_Interval
<1>7. s \in Surjection(1 .. m, S)
  BY <1>1, <1>5, <1>6, FS_Injection DEF m
<1>8. PICK i \in 1 .. m : s[i] = run
  BY <1>3, <1>7 DEF Surjection
<1>9. Handles(s) = [j \in 1 .. m |-> Handle(s[j])]
  BY <1>2 DEF Handles
<1>10. Len(Handles(s)) = m
  BY <1>1, <1>9
<1> QED BY <1>8, <1>9, <1>10

\* A run that leaves the line, or comes past it, is at its first step.
LEMMA PlacedRun ==
  ASSUME LifeInv, [LifeNext]_vars, NEW h, h \in Queue!Queued(queue) \/ New(h),
         h \in Queue!Queued(queue)' \cup queue'.executing
  PROVE  \/ h \in Queue!Queued(queue)'
         \/ /\ h \in queue'.executing
            /\ proc'[h.runId].op = "run" /\ proc'[h.runId].pc = "check"
<1> SUFFICES ASSUME h \in queue'.executing
             PROVE  proc'[h.runId].op = "run" /\ proc'[h.runId].pc = "check"
  OBVIOUS
<1> DEFINE r == h.runId
<1>1. r \in RunIds /\ proc[r].pc = "idle" /\ r \in Procs
  BY NotExecuting, ProcKinds
<1>2. proc'[r].pc # "idle"
  BY LifeInvStep DEF LifeInv, Core, ExecInv
<1>3. ~FrameStep(r)
  BY <1>1, FrameMoves DEF Moves
<1>4. IdleProc.pc = "idle"
  BY DEF IdleProc
<1> HIDE DEF r
<1>5. \E g \in queue'.executing : proc'[r] = FrameOf(g)
  BY <1>1, <1>2, <1>3, <1>4, RunFrames
<1>6. proc'[r].op = "run" /\ proc'[r].pc = "check"
  BY <1>5 DEF FrameOf
<1> QED BY <1>6 DEF r

\* A run that a tick returns with, or that the start-up finds, gets its place.
LEMMA NewPlaced ==
  ASSUME LifeInv, [LifeNext]_vars
  PROVE  /\ \A p \in Callers : Holds(p) /\ TickReturn(p) =>
              /\ New(Held(p))
              /\ Held(p) \in Queue!Queued(queue)' \cup queue'.executing
         /\ BootTask => \A run \in runs :
              run.taskId \in toBoot /\ run.taskId \notin toBoot' /\ status[run.id] = "pending"
                => /\ New(Handle(run))
                   /\ Handle(run) \in Queue!Queued(queue)' \cup queue'.executing
<1>0. queue.queue \in Seq(RunHandles) /\ Len(queue.queue) \in Nat
  BY QueueFacts, LineAtRest
<1>1. ASSUME NEW p \in Callers, Holds(p), TickReturn(p)
      PROVE  New(Held(p)) /\ Held(p) \in Queue!Queued(queue)' \cup queue'.executing
  <2> DEFINE line == Append(queue.queue, Held(p))
  <2>1. Served(line, queue.executing) /\ Held(p) \in RunHandles
    BY <1>1, EnqueueServed, HeldOK
  <2>2. Len(line) = Len(queue.queue) + 1 /\ line[Len(queue.queue) + 1] = Held(p)
    BY <1>0, <2>1, AppendProperties
  <2> HIDE DEF line
  <2>3. Len(queue.queue) + 1 \in 1 .. Len(line)
    BY <1>0, <2>2
  <2> QED BY <1>1, <2>1, <2>2, <2>3, ServedFacts DEF New
<1>2. ASSUME BootTask, NEW run \in runs, run.taskId \in toBoot, run.taskId \notin toBoot',
             status[run.id] = "pending"
      PROVE  New(Handle(run)) /\ Handle(run) \in Queue!Queued(queue)' \cup queue'.executing
  <2>1. PICK t, s : BootsWith(t, s)
    BY <1>2, BootServed
  <2> DEFINE fs == Handles(s)
             line == queue.queue \o fs
  <2>2. /\ Served(line, queue.executing) /\ t \in toBoot /\ s \in PendingRuns(t)
        /\ run.taskId = t
    BY <1>2, <2>1 DEF BootsWith
  <2>3. PICK i \in 1 .. Len(fs) : fs[i] = Handle(run)
    BY <1>2, <2>2, PendingCovered DEF RunsOf
  <2>4. fs \in Seq(RunHandles)
    BY <2>2, PendingRunsOf
  <2> HIDE DEF fs
  <2>5. /\ Len(line) = Len(queue.queue) + Len(fs) /\ Len(fs) \in Nat
        /\ \A j \in 1 .. Len(queue.queue) + Len(fs) :
             line[j] = IF j <= Len(queue.queue) THEN queue.queue[j] ELSE fs[j - Len(queue.queue)]
    BY <1>0, <2>4, ConcatProperties
  <2> HIDE DEF line
  <2>6. Len(queue.queue) + i \in 1 .. Len(line) /\ line[Len(queue.queue) + i] = Handle(run)
    <3> DEFINE n == Len(queue.queue)
    <3>1. n \in Nat /\ i \in 1 .. Len(fs)
      BY <1>0, <2>3
    <3> HIDE DEF n
    <3>2. n + i \in 1 .. n + Len(fs) /\ ~(n + i <= n) /\ (n + i) - n = i
      BY <2>5, <3>1
    <3> QED BY <2>3, <2>5, <3>2 DEF n
  <2> QED BY <1>2, <2>2, <2>6, ServedFacts DEF New
<1> QED BY <1>1, <1>2

\* The executor of a run has not written its status yet, and leaves only by
\* way of a step that writes it or of one that finds the task inactive.
Underway(r) ==
  \/ proc[r].op = "run" /\ proc[r].pc \in {"check", "run", "start"}
  \/ proc[r].op = "stop" /\ proc[r].pc \in {"find", "deactivate"}

\* A pending run that will be executed, or that the next start-up finds.
CaredFor(run) ==
  \/ Handle(run) \in Queue!Queued(queue)
  \/ Handle(run) \in queue.executing /\ Underway(run.id)
  \/ \E p \in Callers : Holds(p) /\ tick[p].runId = run.id
  \/ server = "down"
  \/ run.taskId \in toBoot

\* As long as no client starts a task, an active task was never stopped, and its
\* pending runs are cared for.
PendInv ==
  /\ Never("start")
  /\ \A run \in runs :
       status[run.id] = "pending" /\ row[run.taskId].active => CaredFor(run)

\* A pending run of a task that stays active was pending, and the task active,
\* unless the run is new.
LEMMA PendingBefore ==
  ASSUME LifeInv, [LifeNext]_vars, Never("start"), NEW run \in runs',
         status'[run.id] = "pending", row'[run.taskId].active
  PROVE  \/ /\ run \in runs /\ status[run.id] = "pending" /\ row[run.taskId].active
            /\ run.taskId \in tasks /\ run.id \in RunIds
         \/ \E p \in Callers : Holds(p)' /\ tick'[p].runId = run.id
<1>1. ASSUME NEW p \in Callers, TickCreate(p), run \notin runs
      PROVE  Holds(p)' /\ tick'[p].runId = run.id
  <2>1. /\ CreateRun(p) /\ tick[p] \in Tick /\ DOMAIN tick = Callers /\ DOMAIN body = Callers
        /\ tick' = [tick EXCEPT ![p].runId = lastId', ![p].runRank = Rank(body[p].runsCount)]
        /\ body[p] \in Body
    BY <1>1, TaskTypes DEF TickCreate, LifeInv, RegInv, RegTypeOK, Core, TickInv, Tick
  <2>2. run.id = lastId'
    BY <1>1, <2>1 DEF CreateRun
  <2>3. body'[p].stage = "created"
    BY <2>1 DEF CreateRun, Body
  <2> QED BY <2>1, <2>2, <2>3 DEF Holds, Tick
<1>2. ASSUME run \notin runs
      PROVE  \E p \in Callers : TickCreate(p)
  <2>1. ASSUME NEW x \in Procs, DeleteRow(x)
        PROVE  FALSE
    BY <1>2, <2>1 DEF DeleteRow, DeleteTask, regVars, tableVars
  <2> QED BY <1>2, <2>1, WhoChangesWhat DEF WhoChanges, ChangesRuns
<1>3. ASSUME run \in runs
      PROVE  /\ status[run.id] = "pending" /\ row[run.taskId].active
             /\ run.taskId \in tasks /\ run.id \in RunIds
  <2>1. /\ run.id \in 1 .. lastId /\ lastId \in 0 .. MaxRunId /\ run.taskId \in tasks
        /\ run.taskId \in tasks' /\ run.taskId \notin unused
    <3>1. LifeInv'
      BY LifeInvStep
    <3> QED BY <1>3, <3>1, TaskTypes DEF LifeInv, RegInv, RegTypeOK, Core, IdsInv
  <2>2. run.id \in RunIds /\ run.id # lastId + 1
    BY <2>1, MaxRunIdAssumption DEF RunIds
  <2>3. RowExists(run.id)
    BY <1>3 DEF RowExists
  <2>4. ~RunFinish(run.id)
    <3> SUFFICES ASSUME RunFinish(run.id) PROVE FALSE
      OBVIOUS
    <3>1. status' = [status EXCEPT ![run.id] =
                       IF proc[run.id].code = 0 THEN "succeed" ELSE "failed"]
      BY <2>3 DEF RunFinish, SetStatus
    <3>2. DOMAIN status = RunIds
      BY DEF LifeInv, Core, LifeTypeOK
    <3> QED BY <2>2, <3>1, <3>2
  <2>5. status[run.id] = "pending"
    BY <2>2, <2>4, StatusChange
  <2>6. ~\E x \in Procs : Activate(x)
    BY OpAt DEF Activate, Never, LifeInv, Core
  <2>7. row[run.taskId].active
    BY <2>1, <2>6, RowChange
  <2> QED BY <2>1, <2>2, <2>5, <2>7
<1> QED BY <1>1, <1>2, <1>3

\* The executor of a run that stays pending, of a task that stays active.
LEMMA UnderwayStep ==
  ASSUME LifeInv, [LifeNext]_vars, NEW run \in runs, run \in runs',
         run.id \in RunIds, run.taskId \in tasks,
         Handle(run) \in queue.executing, Underway(run.id), ~Crash,
         row[run.taskId].active, row'[run.taskId].active, status'[run.id] = "pending"
  PROVE  Handle(run) \in queue'.executing /\ Underway(run.id)'
<1> DEFINE r == run.id
           f == proc[r]
<1>1. /\ r \in Procs /\ r \notin Clients /\ DOMAIN proc = Procs /\ f \in Frames /\ ProcInv
      /\ f.task = run.taskId
  <2>1. f.op # "none" /\ Handle(run).runId = r /\ Handle(run).taskId = run.taskId
    BY DEF Underway, Handle
  <2>2. f.task = run.taskId
    BY <2>1 DEF LifeInv, Core, ExecInv
  <2> QED BY <2>2, ProcKinds DEF LifeInv, Core, ProcInv, FrameOK
<1>2. f.pc \notin {"settle", "idle"}
  BY DEF Underway
<1>3. Handle(run) \in queue'.executing
  <2>1. ~RunSettles(r)
    BY <1>2 DEF RunSettles, At
  <2>2. Handle(run).runId = r
    BY DEF Handle
  <2> QED BY <2>1, <2>2, Origins
<1>4. CASE FrameStep(r) /\ f.op = "run"
  <2>0. CASE CommandFails(r)
    <3>1. proc'[r].op = "stop" /\ proc'[r].pc = "find"
      BY <1>1, <1>4, <2>0, CommandFailsFacts DEF Frames
    <3> QED BY <1>3, <3>1 DEF Underway
  <2> SUFFICES ASSUME ~CommandFails(r) PROVE Handle(run) \in queue'.executing /\ Underway(run.id)'
    BY <2>0
  <2>1. RunStep(r)
    BY <1>4, RunTrack
  <2>2. CASE f.pc = "check"
    <3>1. RunCheck(r)
      BY <1>1, <1>4, <2>1, <2>2, OpAt DEF RunStep, RunDocker, RunDockerFails, RunStart, RunWait,
         RunFinish, RunRemove, RemoveUnusedImage, RunSettles, At
    <3>2. proc' = [proc EXCEPT ![r] = After(r, f, "check")]
      BY <1>1, <2>2, <3>1 DEF RunCheck, Active, Advance
    <3>3. proc'[r] = [f EXCEPT !.pc = "run"]
      BY <1>1, <1>4, <3>2, AfterRun
    <3>4. proc'[r].op = "run" /\ proc'[r].pc = "run"
      BY <1>1, <1>4, <3>3 DEF Frames
    <3> QED BY <1>3, <3>4 DEF Underway
  <2>3. CASE f.pc = "run"
    <3>1. RunDocker(r) \/ RunDockerFails(r)
      BY <1>1, <1>4, <2>1, <2>3, OpAt DEF RunStep, RunCheck, RunStart, RunWait,
         RunFinish, RunRemove, RemoveUnusedImage, RunSettles, At
    <3>2. CASE RunDocker(r)
      <4>1. proc' = [proc EXCEPT ![r] = After(r, f, "run")]
        BY <1>1, <2>3, <3>2 DEF RunDocker, Advance
      <4>2. proc'[r] = [f EXCEPT !.pc = "start"]
        BY <1>1, <1>4, <4>1, AfterRun
      <4>3. proc'[r].op = "run" /\ proc'[r].pc = "start"
        BY <1>1, <1>4, <4>2 DEF Frames
      <4> QED BY <1>3, <4>3 DEF Underway
    <3>3. CASE RunDockerFails(r)
      <4>1. proc'[r].op = "stop" /\ proc'[r].pc = "find"
        BY <1>1, <3>3 DEF RunDockerFails, Catch, Frames
      <4> QED BY <1>3, <4>1 DEF Underway
    <3> QED BY <3>1, <3>2, <3>3
  <2>4. f.pc # "start"
    <3> SUFFICES ASSUME f.pc = "start" PROVE FALSE
      OBVIOUS
    <3>1. RunStart(r)
      BY <1>1, <1>4, <2>1, OpAt DEF RunStep, RunCheck, RunDocker, RunDockerFails, RunWait,
         RunFinish, RunRemove, RemoveUnusedImage, RunSettles, At
    <3>2. status' = [status EXCEPT ![r] = "running"] /\ DOMAIN status = RunIds
      BY <3>1 DEF RunStart, SetStatus, RowExists, LifeInv, Core, LifeTypeOK
    <3> QED BY <3>2
  <2> QED BY <1>4, <2>2, <2>3, <2>4 DEF Underway
<1>5. CASE FrameStep(r) /\ f.op = "stop"
  <2>1. f.pc \in {"find", "deactivate"}
    BY <1>5 DEF Underway
  <2>2. RoutineStep(r)
    BY <1>1, <1>5, <2>1 DEF FrameStep, RunStep, RunCheck, RunDocker, RunDockerFails, RunStart,
       RunWait, RunFinish, RunRemove, RemoveUnusedImage, RunSettles, At
  <2>5. ~CommandFails(r)
    BY <2>1 DEF CommandFails, At
  <2>3. CASE f.pc = "find"
    <3>1. Find(r)
      BY <2>2, <2>3, <2>5, StepAt DEF At
    <3>2. proc' = [proc EXCEPT ![r] = After(r, f, "find")]
      BY <1>1, <1>5, <3>1 DEF Find
    <3>3. proc'[r] = [f EXCEPT !.pc = "deactivate"]
      BY <1>1, <1>5, <3>2, AfterStop
    <3>4. proc'[r].op = "stop" /\ proc'[r].pc = "deactivate"
      BY <1>1, <1>5, <3>3 DEF Frames
    <3> QED BY <1>3, <3>4 DEF Underway
  <2>4. f.pc # "deactivate"
    <3> SUFFICES ASSUME f.pc = "deactivate" PROVE FALSE
      OBVIOUS
    <3>1. Deactivate(r)
      BY <2>2, <2>5, StepAt DEF At
    <3>2. row' = [row EXCEPT ![run.taskId].active = FALSE]
      BY <1>1, <3>1 DEF Deactivate, SetActive
    <3>3. row[run.taskId] \in Row /\ row \in [Labels -> {Nil} \cup Row] /\ run.taskId \in Labels
      BY TaskTypes DEF LifeInv, Core, LifeTypeOK, Row
    <3> QED BY <3>2, <3>3 DEF Row
  <2> QED BY <2>1, <2>3, <2>4
<1>6. CASE proc'[r] = f
  BY <1>3, <1>6 DEF Underway
<1>7. ~RunSettles(r)
  BY <1>2 DEF RunSettles, At
<1>8. f.op \in {"run", "stop"}
  BY DEF Underway
<1> HIDE DEF r
<1>9. proc'[r] = proc[r] \/ FrameStep(r)
  BY <1>1, <1>2, <1>7, RunFrames DEF r
<1> QED BY <1>4, <1>5, <1>6, <1>8, <1>9

\* Every step keeps that.
LEMMA PendStep ==
  ASSUME LifeInv, [LifeNext]_vars, "start" \notin Ops, PendInv
  PROVE  PendInv'
<1>1. Never("start") /\ Never("start")'
  BY NeverStep DEF PendInv
<1> SUFFICES ASSUME NEW run \in runs', status'[run.id] = "pending", row'[run.taskId].active
             PROVE  CaredFor(run)'
  BY <1>1 DEF PendInv
<1>2. CASE \E p \in Callers : Holds(p)' /\ tick'[p].runId = run.id
  BY <1>2 DEF CaredFor
<1>3. CASE Crash
  BY <1>3 DEF Crash, CaredFor
<1>4. CASE /\ run \in runs /\ status[run.id] = "pending" /\ row[run.taskId].active
           /\ run.taskId \in tasks /\ run.id \in RunIds /\ ~Crash
  <2> DEFINE h == Handle(run)
  <2>1. h.runId = run.id /\ h.taskId = run.taskId
    BY DEF Handle
  <2>2. ASSUME h \in Queue!Queued(queue) \/ New(h),
               h \in Queue!Queued(queue)' \cup queue'.executing
        PROVE  CaredFor(run)'
    BY <2>1, <2>2, PlacedRun DEF CaredFor, Underway
  <2>3. CASE h \in Queue!Queued(queue)
    BY <1>4, <2>2, <2>3, Origins
  <2>4. CASE h \in queue.executing /\ Underway(run.id)
    BY <1>4, <2>4, UnderwayStep DEF CaredFor
  <2>5. ASSUME NEW p \in Callers, Holds(p), tick[p].runId = run.id
        PROVE  CaredFor(run)'
    <3>1. CASE Holds(p)' /\ tick'[p] = tick[p]
      BY <2>5, <3>1 DEF CaredFor
    <3>2. CASE TickReturn(p)
      <4>1. Held(p) = h
        BY <1>4, <2>5, HeldOK DEF Known
      <4>2. New(Held(p)) /\ Held(p) \in Queue!Queued(queue)' \cup queue'.executing
        BY <2>5, <3>2, NewPlaced
      <4> QED BY <2>2, <4>1, <4>2
    <3> QED BY <1>4, <2>5, <3>1, <3>2, HeldOrReturned
  <2>6. CASE server = "down"
    <3>1. CASE BootList
      <4>1. toBoot' = {t \in tasks : row[t].active}
        BY <3>1 DEF BootList
      <4> QED BY <1>4, <4>1 DEF CaredFor
    <3>2. CASE ~BootList
      <4>1. server' = "down"
        BY <1>4, <2>6, <3>2, WhoChangesWhat DEF WhoChanges, ChangesServer, BootStep,
           BootTask, Listen
      <4> QED BY <4>1 DEF CaredFor
    <3> QED BY <3>1, <3>2
  <2>7. CASE run.taskId \in toBoot
    <3>1. CASE run.taskId \in toBoot'
      BY <3>1 DEF CaredFor
    <3>2. CASE run.taskId \notin toBoot' /\ BootTask
      <4>1. New(h) /\ h \in Queue!Queued(queue)' \cup queue'.executing
        BY <1>4, <2>7, <3>2, NewPlaced
      <4> QED BY <2>2, <4>1
    <3>3. ~BootTask => run.taskId \in toBoot' \/ server = "down"
      BY <1>4, <2>7, WhoChangesWhat DEF WhoChanges, ChangesServer, BootStep, BootList, Listen
    <3> QED BY <2>6, <3>1, <3>2, <3>3
  <2> QED BY <1>4, <2>3, <2>4, <2>5, <2>6, <2>7 DEF PendInv, CaredFor
<1> QED BY <1>1, <1>2, <1>3, <1>4, PendingBefore

\* While the server is up, a pending run of an active task is queued, executing,
\* or held by its tick (task.service.ts, lines 35-81): no order of steps strands
\* it, as long as no stopped task is started again.  A tick that passed its look
\* at `active` before a stop registers a run that its executor then skips; a start
\* makes the task active with that run still pending: the hypothesis cannot be
\* dropped.
THEOREM LifecyclePendingIsHeld ==
  ASSUME "start" \notin Ops
  PROVE  LifeSpec => []PendingIsHeld
<1>1. LifeInit => PendInv
  <2> SUFFICES ASSUME LifeInit PROVE PendInv
    OBVIOUS
  <2>1. runs = {} /\ \A x \in Procs : proc[x].op = "none"
    BY DEF LifeInit, RegInit, IdleProc
  <2> QED BY <2>1 DEF PendInv, Never
<1>2. LifeInv /\ PendInv /\ [LifeNext]_vars => PendInv'
  BY PendStep
<1>3. LifeInv /\ PendInv => PendingIsHeld
  <2> SUFFICES ASSUME LifeInv, PendInv, server = "up", NEW r \in runs,
                      status[r.id] = "pending", row[r.taskId].active
               PROVE  \/ Handle(r) \in Queue!Queued(queue) \cup queue.executing
                      \/ \E p \in Callers : tick[p].pc = "mutex" /\ tick[p].runId = r.id
    BY DEF PendingIsHeld
  <2>1. CaredFor(r) /\ toBoot = {}
    BY DEF PendInv, LifeInv, Core, ServerInv
  <2> QED BY <2>1, HoldsInMutex DEF CaredFor
<1> QED BY <1>1, <1>2, <1>3, LifeInvAlways, PTL DEF LifeSpec

-----------------------------------------------------------------------------
(* Whose image, whose container.                                           *)

\* If run r has a row, it is a run of t, and this will not change.
BelongsTo(r, t) == r <= lastId /\ \A run \in runs : run.id = r => run.taskId = t

\* An image, a container and a list of containers serve one task: a request
\* that pulls away the containers of a task touches no others.
OwnInv ==
  /\ \A t \in Labels : image[t] # Nil => builds[image[t]].task = t
  /\ \A b \in Boxes : box[b] # Nil => BelongsTo(b[1], builds[box[b].image].task)
  /\ \A x \in Procs : At(x, "children") =>
       \A b \in proc[x].children : BelongsTo(b[1], proc[x].task)

\* The executor of a run works for the task of the run.
LEMMA ExecutorOwns ==
  ASSUME LifeInv, NEW r \in RunIds, proc[r].op # "none"
  PROVE  BelongsTo(r, proc[r].task)
<1>1. r \in Procs /\ proc[r].pc # "idle"
  <2>1. r \in Procs /\ ProcInv
    BY ProcKinds DEF LifeInv, Core
  <2> QED BY <2>1, OpAt DEF At
<1>2. PICK h \in queue.executing : h.runId = r
  BY <1>1 DEF LifeInv, Core, ExecInv
<1>3. h.taskId = proc[r].task /\ h \in AllHandles
  BY <1>2 DEF LifeInv, Core, ExecInv, AllHandles
<1>4. /\ h.runId \in 1 .. lastId /\ lastId \in 0 .. MaxRunId
      /\ \A run \in runs : run.id = h.runId => Handle(run) = h
  BY <1>3 DEF LifeInv, Core, IdsInv
<1>5. \A run \in runs : run.id = r => run.taskId = h.taskId
  BY <1>2, <1>4 DEF Handle
<1>6. r <= lastId
  BY <1>2, <1>4
<1> QED BY <1>3, <1>5, <1>6 DEF BelongsTo

\* A new row has an id of its own.
LEMMA NewRow ==
  ASSUME LifeInv, [LifeNext]_vars, NEW run \in runs' \ runs
  PROVE  run.id = lastId' /\ lastId' = lastId + 1 /\ \E p \in Callers : TickCreate(p)
<1>1. ASSUME NEW p \in Callers, TickCreate(p)
      PROVE  run.id = lastId' /\ lastId' = lastId + 1
  BY <1>1 DEF TickCreate, CreateRun
<1>2. ASSUME NEW x \in Procs, DeleteRow(x)
      PROVE  FALSE
  BY <1>2 DEF DeleteRow, DeleteTask, regVars, tableVars
<1> QED BY <1>1, <1>2, WhoChangesWhat DEF WhoChanges, ChangesRuns

\* A run keeps its task.
LEMMA BelongsKept ==
  ASSUME LifeInv, [LifeNext]_vars, NEW r \in Nat, NEW t, BelongsTo(r, t)
  PROVE  r <= lastId' /\ \A run \in runs' : run.id = r => run.taskId = t
<1>1. lastId \in Nat /\ lastId' \in Nat /\ lastId <= lastId'
  BY LastIdGrows
<1>2. ASSUME NEW run \in runs' \ runs
      PROVE  run.id # r
  BY <1>1, <1>2, NewRow DEF BelongsTo
<1> QED BY <1>1, <1>2 DEF BelongsTo

\* A build is dispatched for one task and one configuration.
LEMMA BuildsKeep ==
  ASSUME LifeInv, [LifeNext]_vars, NEW i \in DOMAIN builds
  PROVE  /\ i \in DOMAIN builds'
         /\ builds'[i].task = builds[i].task /\ builds'[i].config = builds[i].config
<1>1. builds \in Seq(Build) /\ builds[i] \in Build /\ DOMAIN builds \subseteq DOMAIN builds'
  BY BuildsStep DEF LifeInv, Core, FreshInv
<1>2. ASSUME NEW j \in DOMAIN builds, NEW pc, builds' = [builds EXCEPT ![j].pc = pc]
      PROVE  builds'[i].task = builds[i].task /\ builds'[i].config = builds[i].config
  <2>1. [builds[i] EXCEPT !.pc = pc].task = builds[i].task
        /\ [builds[i] EXCEPT !.pc = pc].config = builds[i].config
    BY <1>1 DEF Build
  <2>2. builds'[i] = builds[i] \/ builds'[i] = [builds[i] EXCEPT !.pc = pc]
    BY <1>1, <1>2
  <2> QED BY <2>1, <2>2
<1>3. ASSUME NEW t \in Labels \ unused, NEW config \in Configs,
             ScheduleExecutable(t, config)
      PROVE  builds'[i].task = builds[i].task /\ builds'[i].config = builds[i].config
  BY <1>3, ScheduleOK
<1>4. ASSUME NEW j \in DOMAIN builds, BuildStep(j)
      PROVE  builds'[i].task = builds[i].task /\ builds'[i].config = builds[i].config
  BY <1>2, <1>4 DEF BuildStep, BuildImage, BuildFails, BuildStart
<1>5. ASSUME NEW x \in Procs, Register(x)
      PROVE  builds'[i].task = builds[i].task /\ builds'[i].config = builds[i].config
  BY <1>3, <1>5, RegisterSchedules
<1>6. CASE BootTask
  BY <1>1, <1>3, <1>6, BootTaskSchedules
<1>7. CASE Crash
  <2>1. \E pc : builds'[i] = [builds[i] EXCEPT !.pc = pc]
    BY <1>7 DEF Crash
  <2> QED BY <1>1, <2>1 DEF Build
<1> QED BY <1>1, <1>4, <1>5, <1>6, <1>7, WhoChangesWhat DEF WhoChanges, ChangesBuilds

\* Where a container, and its image, come from.
LEMMA BoxOrigin ==
  ASSUME LifeInv, [LifeNext]_vars, NEW b \in Boxes, box'[b] # Nil
  PROVE  \/ box[b] # Nil /\ box'[b].image = box[b].image
         \/ \E r \in RunIds : /\ RunDocker(r) \/ RunDockerFails(r)
                              /\ b = BoxOf(r) /\ image[proc[r].task] # Nil
                              /\ box'[b].image = image[proc[r].task]
<1>1. box \in [Boxes -> {Nil} \cup Box]
  BY DEF LifeInv, Core, LifeTypeOK, Box
<1>2. ASSUME NEW c, box' = Removed(c) \/ box' = Stopped(c)
      PROVE  box[b] # Nil /\ box'[b].image = box[b].image
  <2>1. box'[b] = box[b] \/ box'[b] = [box[b] EXCEPT !.state = "exited", !.code = 1]
        \/ box'[b] = Nil
    BY <1>1, <1>2 DEF Removed, Stopped
  <2>2. box[b] # Nil
    <3> SUFFICES ASSUME box[b] = Nil PROVE box'[b] = Nil
      OBVIOUS
    <3> QED BY <1>1, <1>2 DEF Removed, Stopped
  <2> QED BY <1>1, <2>1, <2>2 DEF Box
<1>3. ASSUME NEW r \in RunIds, RunDocker(r) \/ RunDockerFails(r)
      PROVE  \/ box'[b] = box[b]
             \/ /\ b = BoxOf(r) /\ image[proc[r].task] # Nil
                /\ box'[b].image = image[proc[r].task]
  BY <1>1, <1>3 DEF RunDocker, RunDockerFails
<1>4. ASSUME NEW c \in Boxes, BoxExits(c)
      PROVE  box[b] # Nil /\ box'[b].image = box[b].image
  <2>1. box'[b] = box[b] \/ \E code : box'[b] = [box[b] EXCEPT !.state = "exited", !.code = code]
    BY <1>1, <1>4 DEF BoxExits
  <2>2. box[b] # Nil
    BY <1>1, <1>4 DEF BoxExits
  <2> QED BY <1>1, <2>1, <2>2 DEF Box
<1>5. ASSUME NEW r \in RunIds, RunRemove(r)
      PROVE  box'[b] = box[b] \/ (box[b] # Nil /\ box'[b].image = box[b].image)
  BY <1>2, <1>5 DEF RunRemove
<1>6. ASSUME NEW x \in Procs, NEW c \in Boxes, HandleChild(x, c)
      PROVE  box[b] # Nil /\ box'[b].image = box[b].image
  BY <1>1, <1>2, <1>6 DEF HandleChild
<1> QED BY <1>3, <1>4, <1>5, <1>6, WhoChangesWhat DEF WhoChanges, ChangesBox

\* No other step of a routine than listing them leads to the containers.
LEMMA AdvanceElsewhere ==
  ASSUME LifeInv, NEW x \in Procs, Advance(x), proc[x].op # "none",
         proc[x].pc \notin {"list", "wait", "insert"}
  PROVE  proc'[x].pc # "children"
<1> DEFINE f == proc[x]
<1>1. /\ f \in Frames /\ f.op \in DOMAIN Routine /\ f.pc \in Steps(f.op) /\ DOMAIN proc = Procs
  BY StepsOf DEF LifeInv, Core, ProcInv, FrameOK, Frames
<1>2. proc'[x] = After(x, f, f.pc)
  BY <1>1 DEF Advance
<1>3. Done(x).pc # "children"
  BY DEF Done
<1>4. ASSUME NEW q, q # "children", After(x, f, f.pc) = [f EXCEPT !.pc = q]
      PROVE  proc'[x].pc # "children"
  BY <1>1, <1>2, <1>4 DEF Frames
<1>5. CASE After(x, f, f.pc) = Done(x)
  BY <1>2, <1>3, <1>5
<1> HIDE DEF f
<1>6. CASE f.op = "create"
  BY <1>1, <1>4, <1>5, <1>6, AfterCreate, StepsOf DEF f
<1>7. CASE f.op = "start"
  BY <1>1, <1>4, <1>5, <1>7, AfterStart, StepsOf
<1>8. CASE f.op = "stop"
  BY <1>1, <1>4, <1>5, <1>8, AfterStop, StepsOf DEF f
<1>9. CASE f.op = "delete"
  BY <1>1, <1>4, <1>5, <1>9, AfterDelete, StepsOf DEF f
<1>10. CASE f.op = "update"
  BY <1>1, <1>4, <1>5, <1>10, AfterUpdate, StepsOf DEF f
<1>11. CASE f.op = "run"
  BY <1>1, <1>4, <1>5, <1>11, AfterRun, StepsOf DEF f
<1>12. CASE f.op = "limit"
  BY <1>1, <1>4, <1>5, <1>12, AfterLimit, StepsOf DEF f
<1> QED BY <1>1, <1>6, <1>7, <1>8, <1>9, <1>10, <1>11, <1>12, StepsOf

\* How a flow comes to have containers to pull away.
LEMMA ChildrenStep ==
  ASSUME LifeInv, NEW x \in Procs, FrameStep(x), proc'[x].pc = "children"
  PROVE  /\ proc[x].op # "none" /\ proc[x].pc \in {"list", "children"}
         /\ proc'[x].task = proc[x].task
         /\ \/ proc'[x].children = Children(proc[x].task)
            \/ At(x, "children") /\ proc'[x].children \subseteq proc[x].children
<1> DEFINE f == proc[x]
<1>1. /\ f \in Frames /\ DOMAIN proc = Procs /\ ProcInv /\ LifeTypeOK
      /\ f.op # "none" => f.op \in DOMAIN Routine /\ f.pc \in Steps(f.op)
  BY StepsOf DEF LifeInv, Core, ProcInv, FrameOK, Frames
<1>2. Done(x).pc # "children"
  BY DEF Done
<1>3. ~Finish(x)
  BY <1>1, <1>2 DEF Finish
<1>4. x \in RunIds => ~Catch(x)
  BY <1>1 DEF Catch, Frames
<1>5. Advance(x) => f.op = "none" \/ f.pc \in {"list", "wait", "insert"}
  BY AdvanceElsewhere
<1>6. ~(x \in Clients /\ Request(x))
  BY <1>1, RequestMoves
<1>7. ~(x \in Clients /\ FindName(x))
  BY <1>1, <1>3, <1>5, OpAt DEF FindName, At
<1>8. ~(x \in Clients /\ InsertRow(x))
  <2> SUFFICES ASSUME x \in Clients, InsertRow(x) PROVE FALSE
    OBVIOUS
  <2>1. f.op = "create"
    BY <1>1, OpAt DEF InsertRow
  <2>2. PICK t : proc' = [proc EXCEPT ![x] = After(x, [f EXCEPT !.task = t], "insert")]
    BY <1>1, <1>3 DEF InsertRow
  <2> DEFINE g == [f EXCEPT !.task = t]
  <2>3. g.op = "create" /\ DOMAIN g = DOMAIN f /\ "pc" \in DOMAIN f
    BY <1>1, <2>1 DEF Frames
  <2>4. proc'[x] = After(x, g, "insert")
    BY <1>1, <2>2
  <2> HIDE DEF g
  <2>5. After(x, g, "insert") = [g EXCEPT !.pc = "register"]
    BY <2>3, AfterCreate
  <2> QED BY <2>3, <2>4, <2>5
<1>9. ~Find(x)
  <2> SUFFICES ASSUME Find(x) PROVE FALSE
    OBVIOUS
  <2>1. f.op \in {"start", "stop", "delete", "update"}
    BY <1>1, OpAt DEF Find
  <2>2. CASE f.op # "start"
    <3>1. proc'[x] = After(x, f, "find")
      BY <1>1, <1>3, <2>2 DEF Find
    <3>2. \E q \in {"deactivate", "unschedule"} : After(x, f, "find") = [f EXCEPT !.pc = q]
      BY <2>1, <2>2, AfterStop, AfterDelete, AfterUpdate
    <3> QED BY <1>1, <3>1, <3>2 DEF Frames
  <2>3. CASE f.op = "start"
    <3> DEFINE g == [f EXCEPT !.config = row[f.task].config]
    <3>1. proc'[x] = After(x, g, "find")
      BY <1>1, <1>3, <2>3 DEF Find
    <3>2. g.op = "start" /\ DOMAIN g = DOMAIN f /\ "pc" \in DOMAIN f
      BY <1>1, <2>3 DEF Frames
    <3> HIDE DEF g
    <3>3. After(x, g, "find") = [g EXCEPT !.pc = "register"]
      BY <3>2, AfterStart
    <3> QED BY <3>1, <3>2, <3>3
  <2> QED BY <2>2, <2>3
<1>10. CASE ListChildren(x)
  <2> DEFINE C == Children(f.task)
  <2>1. f.op \in {"stop", "delete", "update", "limit"} /\ f.pc = "list"
    BY <1>1, <1>10, OpAt DEF ListChildren, At
  <2>2. CASE C = {}
    <3>1. proc'[x] = After(x, f, "children")
      BY <1>1, <1>10, <2>2 DEF ListChildren
    <3>2. \/ After(x, f, "children") = Done(x)
          \/ \E q \in {"pending", "image", "rmi"} : After(x, f, "children") = [f EXCEPT !.pc = q]
      BY <2>1, AfterStop, AfterDelete, AfterUpdate, AfterLimit
    <3> QED BY <1>1, <1>2, <3>1, <3>2 DEF Frames
  <2>3. CASE C # {}
    <3>1. proc'[x] = [f EXCEPT !.pc = "children", !.children = C]
      BY <1>1, <1>10, <2>3 DEF ListChildren
    <3> QED BY <1>1, <2>1, <3>1 DEF Frames
  <2> QED BY <2>2, <2>3
<1>11. ASSUME NEW b \in Boxes, HandleChild(x, b)
       PROVE  /\ proc'[x].task = f.task
              /\ At(x, "children") /\ proc'[x].children \subseteq f.children
              /\ f.op # "none"
  <2> DEFINE g == [f EXCEPT !.children = f.children \ {b}]
  <2>1. f.op \in {"stop", "delete", "update", "limit"} /\ At(x, "children")
    BY <1>1, <1>11, OpAt DEF HandleChild
  <2>2. g.op = f.op /\ g \in Frames /\ g.task = f.task /\ g.children = f.children \ {b}
    BY <1>1 DEF Frames
  <2>3. \/ proc'[x] = After(x, g, "children")
        \/ proc'[x] = g
    BY <1>1, <1>11 DEF HandleChild
  <2> HIDE DEF g
  <2>4. \/ After(x, g, "children") = Done(x)
        \/ \E q \in {"pending", "image", "rmi"} : After(x, g, "children") = [g EXCEPT !.pc = q]
    BY <2>1, <2>2, AfterStop, AfterDelete, AfterUpdate, AfterLimit
  <2>5. proc'[x] = g
    BY <1>2, <2>2, <2>3, <2>4 DEF Frames
  <2> QED BY <2>1, <2>2, <2>5
<1>12. ASSUME \/ Deactivate(x) \/ Activate(x) \/ Unschedule(x) \/ StopPending(x)
              \/ RemoveImage(x) \/ Register(x) \/ UpdateRow(x) \/ DeleteRow(x)
       PROVE  FALSE
  <2>1. Advance(x) /\ f.pc \notin {"list", "wait", "insert"} /\ f.op # "none"
    BY <1>1, <1>12, OpAt DEF Deactivate, Activate, Unschedule, StopPending,
       RemoveImage, Register, UpdateRow, DeleteRow, At
  <2> QED BY <1>5, <2>1
<1>13. ASSUME x \in RunIds, RunStep(x), ~RunSettles(x)
       PROVE  FALSE
  <2>1. f.op = "none" => f.pc \in {"idle", "settle"}
    BY <1>1 DEF ProcInv, FrameOK
  <2>2. CASE RunCheck(x) \/ RunDocker(x) \/ RunStart(x) \/ RunFinish(x) \/ RemoveUnusedImage(x)
    BY <1>3, <1>4, <1>5, <1>13, <2>1, <2>2
       DEF RunCheck, RunDocker, RunStart, RunFinish, RemoveUnusedImage, At
  <2>3. CASE RunWait(x)
    BY <1>1, <1>4, <1>13, <2>3 DEF RunWait, Frames
  <2>4. CASE RunRemove(x)
    BY <1>1, <1>3, <1>4, <1>13, <2>4 DEF RunRemove, Frames
  <2>5. CASE RunDockerFails(x)
    BY <1>4, <1>13, <2>5 DEF RunDockerFails
  <2> QED BY <1>13, <2>2, <2>3, <2>4, <2>5 DEF RunStep
<1>14. ~CommandFails(x)
  BY <1>2, <1>4, CommandFailsFacts DEF Frames
<1> QED BY <1>6, <1>7, <1>8, <1>9, <1>10, <1>11, <1>12, <1>13, <1>14
        DEF FrameStep, RoutineStep, At

\* Every step keeps that.
LEMMA OwnStep ==
  ASSUME LifeInv, [LifeNext]_vars, OwnInv
  PROVE  OwnInv'
<1>1. /\ image \in [Labels -> {Nil} \cup DOMAIN builds]
      /\ box \in [Boxes -> {Nil} \cup Box]
      /\ \A i \in DOMAIN builds : builds[i] \in Build
      /\ Nil \notin DOMAIN builds
  <2>1. DOMAIN builds \subseteq Nat /\ \A i \in DOMAIN builds : builds[i] \in Build
    BY DEF LifeInv, Core, FreshInv
  <2> QED BY <2>1, NilAssumption DEF LifeInv, Core, LifeTypeOK, Box
<1>2. ASSUME NEW t \in Labels, image'[t] # Nil
      PROVE  builds'[image'[t]].task = t
  <2>1. image'[t] = image[t] \/ \E i \in DOMAIN builds : image'[t] = i /\ builds[i].task = t
    <3>1. ASSUME NEW i \in DOMAIN builds, BuildImage(i)
          PROVE  image'[t] = image[t] \/ (image'[t] = i /\ builds[i].task = t)
      BY <1>1, <3>1 DEF BuildImage
    <3>2. ASSUME NEW x \in Procs, RemoveImage(x)
          PROVE  image'[t] = image[t]
      BY <1>1, <1>2, <3>2 DEF RemoveImage
    <3>3. ASSUME NEW r \in RunIds, RemoveUnusedImage(r)
          PROVE  image'[t] = image[t]
      BY <1>1, <1>2, <3>3 DEF RemoveUnusedImage
    <3> QED BY <3>1, <3>2, <3>3, WhoChangesWhat DEF WhoChanges, ChangesImage
  <2> QED BY <1>1, <1>2, <2>1, BuildsKeep DEF OwnInv
<1>3. ASSUME NEW b \in Boxes, box'[b] # Nil
      PROVE  BelongsTo(b[1], builds[box[b].image].task)'
  <2>1. b[1] \in Nat
    BY ProcKinds DEF Boxes
  <2>2. CASE box[b] # Nil /\ box'[b].image = box[b].image
    <3>1. box[b].image \in DOMAIN builds /\ BelongsTo(b[1], builds[box[b].image].task)
      BY <1>1, <2>2 DEF OwnInv, Box
    <3>2. builds'[box'[b].image].task = builds[box[b].image].task
      BY <2>2, <3>1, BuildsKeep
    <3>3. PICK t : t = builds[box[b].image].task
      OBVIOUS
    <3>4. b[1] <= lastId' /\ \A run \in runs' : run.id = b[1] => run.taskId = t
      BY <2>1, <3>1, <3>3, BelongsKept
    <3> QED BY <3>2, <3>3, <3>4 DEF BelongsTo
  <2>3. ASSUME NEW r \in RunIds, RunDocker(r) \/ RunDockerFails(r), b = BoxOf(r),
               image[proc[r].task] # Nil, box'[b].image = image[proc[r].task]
        PROVE  BelongsTo(b[1], builds[box[b].image].task)'
    <3>1. proc[r].op = "run" /\ proc[r].task \in Labels /\ b[1] = r
      <4>1. r \in Procs /\ proc[r].op = "run" /\ proc[r].pc = "run"
        BY <2>3, OpAt, ProcKinds, StepsOf DEF LifeInv, Core, RunDocker, RunDockerFails, At
      <4> QED BY <2>3, <4>1 DEF LifeInv, Core, ProcInv, FrameOK, BoxOf
    <3>2. BelongsTo(r, proc[r].task)
      BY <3>1, ExecutorOwns
    <3>4. /\ image[proc[r].task] \in DOMAIN builds
          /\ builds[image[proc[r].task]].task = proc[r].task
      BY <1>1, <2>3, <3>1 DEF OwnInv
    <3>5. builds'[box'[b].image].task = proc[r].task
      BY <2>3, <3>4, BuildsKeep
    <3>6. PICK t : t = proc[r].task
      OBVIOUS
    <3>7. r <= lastId' /\ \A run \in runs' : run.id = r => run.taskId = t
      BY <2>1, <3>1, <3>2, <3>6, BelongsKept
    <3> QED BY <3>1, <3>5, <3>6, <3>7 DEF BelongsTo
  <2> QED BY <1>3, <2>2, <2>3, BoxOrigin
<1>4. ASSUME NEW x \in Procs, proc'[x].pc = "children", NEW b \in proc'[x].children
      PROVE  BelongsTo(b[1], proc[x].task)'
  <2>1. proc'[x] \in Frames
    <3>1. LifeInv'
      BY LifeInvStep
    <3> QED BY <3>1 DEF LifeInv, Core, ProcInv, FrameOK
  <2>2. b \in Boxes /\ b[1] \in Nat
    BY <2>1, ProcKinds DEF Frames, Boxes
  <2>3. ASSUME BelongsTo(b[1], proc[x].task), proc'[x].task = proc[x].task
        PROVE  BelongsTo(b[1], proc[x].task)'
    BY <2>2, <2>3, BelongsKept DEF BelongsTo
  <2>4. CASE proc'[x] = proc[x]
    BY <1>4, <2>3, <2>4 DEF OwnInv, At
  <2>5. CASE FrameStep(x)
    <3>1. CASE b \in Children(proc[x].task)
      <4>1. box[b] # Nil /\ image[proc[x].task] # Nil /\ box[b].image = image[proc[x].task]
        BY <3>1 DEF Children
      <4>2. proc[x].task \in Labels
        <5>1. proc[x].op # "none" /\ proc[x].pc \notin {"findName", "insert"}
          BY <1>4, <2>5, ChildrenStep
        <5> QED BY <5>1 DEF LifeInv, Core, ProcInv, FrameOK
      <4>3. BelongsTo(b[1], proc[x].task)
        BY <2>2, <4>1, <4>2 DEF OwnInv
      <4> QED BY <1>4, <2>3, <2>5, <4>3, ChildrenStep
    <3>2. CASE At(x, "children") /\ b \in proc[x].children
      BY <1>4, <2>3, <2>5, <3>2, ChildrenStep DEF OwnInv
    <3> QED BY <1>4, <2>5, <3>1, <3>2, ChildrenStep
  <2>6. \A h : FrameOf(h).pc # "children"
    BY DEF FrameOf
  <2>7. IdleProc.pc # "children"
    BY DEF IdleProc
  <2>8. CASE x \in Clients
    BY <1>4, <2>4, <2>5, <2>7, <2>8, ClientFrames
  <2>9. CASE x \in RunIds
    <3>1. \/ proc'[x] = proc[x] \/ FrameStep(x) \/ proc'[x] = IdleProc
          \/ \E h : proc'[x] = FrameOf(h)
      BY <2>9, RunFrames
    <3> QED BY <1>4, <2>4, <2>5, <2>6, <2>7, <3>1
  <2> QED BY <2>8, <2>9, ProcKinds
<1> QED BY <1>2, <1>3, <1>4 DEF OwnInv, At, BelongsTo

-----------------------------------------------------------------------------
(* Runs that are marked as running.                                        *)

\* Run r has no row, or a deletion that nothing stops will remove it.
Doomed(r) ==
  /\ r <= lastId
  /\ \/ ~RowExists(r)
     \/ \E c \in Clients :
          /\ proc[c].op = "delete" /\ proc[c].pc \in {"children", "image", "deleteRow"}
          /\ BelongsTo(r, proc[c].task)

\* As long as nobody updates a task, a container is pulled away from its run
\* by deletions only, and a run marked as running has an executor that will
\* write its result.
RunningInv ==
  /\ Never("update")
  /\ \A r \in RunIds : status[r] # "none" => RowExists(r)
  /\ \A r \in RunIds : proc[r].op = "run" /\ proc[r].pc \in {"start", "wait"} =>
       box[BoxOf(r)] # Nil \/ Doomed(r)
  /\ \A r \in RunIds : status[r] = "running" =>
       Doomed(r) \/ (proc[r].op = "run" /\ proc[r].pc \in {"wait", "finish"})

\* The status of a run that has no row is cleared with it.
LEMMA StatusHasRow ==
  ASSUME LifeInv, [LifeNext]_vars, NEW r \in RunIds, status[r] # "none" => RowExists(r),
         status'[r] # "none"
  PROVE  RowExists(r)'
<1>1. status \in [RunIds -> Statuses]
  BY DEF LifeInv, Core, LifeTypeOK, Statuses
<1>2. ASSUME runs \subseteq runs', ~\E p \in Callers : TickCreate(p)
      PROVE  RowExists(r)'
  <2>1. CASE RunFinish(r)
    BY <1>2, <2>1 DEF RunFinish, SetStatus, RowExists
  <2>2. CASE ~RunFinish(r)
    BY <1>2, <2>2, StatusChange DEF RowExists
  <2> QED BY <2>1, <2>2
<1>3. ASSUME NEW p \in Callers, TickCreate(p)
      PROVE  RowExists(r)'
  <2>1. runs \subseteq runs' /\ \E run \in runs' : run.id = lastId + 1
    <3> DEFINE new == [id |-> lastId + 1, taskId |-> call[p].label,
                       rank |-> Rank(body[p].runsCount)]
    <3>1. runs' = runs \cup {new}
      BY <1>3 DEF TickCreate, CreateRun
    <3>2. new.id = lastId + 1
      OBVIOUS
    <3> QED BY <3>1, <3>2
  <2>2. status' = [status EXCEPT ![lastId'] = "pending"] /\ lastId' = lastId + 1
    BY <1>3 DEF TickCreate, CreateRun
  <2>3. r = lastId + 1 \/ status'[r] = status[r]
    BY <1>1, <2>2
  <2> QED BY <2>1, <2>3 DEF RowExists
<1>4. ASSUME NEW x \in Procs, DeleteRow(x), proc[x].task \in tasks
      PROVE  RowExists(r)'
  <2>1. /\ runs' = runs \ RunsOf(proc[x].task)
        /\ status'[r] = IF \E run \in RunsOf(proc[x].task) : run.id = r
                          THEN "none" ELSE status[r]
    BY <1>4 DEF DeleteRow, DeleteTask
  <2> QED BY <2>1 DEF RowExists
<1>5. ASSUME NEW x \in Procs, DeleteRow(x), proc[x].task \notin tasks
      PROVE  status' = status /\ runs' = runs
  BY <1>5 DEF DeleteRow, regVars, tableVars
<1> QED BY <1>2, <1>3, <1>4, <1>5, WhoChangesWhat DEF WhoChanges, ChangesRuns, RowExists

\* What is doomed stays doomed, until the row is gone, and then for ever.
LEMMA DoomedStep ==
  ASSUME LifeInv, [LifeNext]_vars, ~Crash, "rmi" \notin Failures, NEW r \in RunIds, Doomed(r)
  PROVE  Doomed(r)'
<1>1. r \in Nat /\ r <= lastId' /\ lastId \in Nat /\ lastId' \in Nat
  BY LastIdGrows, ProcKinds DEF Doomed
<1>2. CASE ~RowExists(r)
  <2>1. \A run \in runs' \ runs : run.id # r
    BY <1>1, NewRow DEF Doomed
  <2> QED BY <1>1, <1>2, <2>1 DEF Doomed, RowExists
<1>3. ASSUME NEW c \in Clients, proc[c].op = "delete",
             proc[c].pc \in {"children", "image", "deleteRow"}, BelongsTo(r, proc[c].task)
      PROVE  Doomed(r)'
  <2>1. PICK t : t = proc[c].task
    OBVIOUS
  <2>2. r <= lastId' /\ \A run \in runs' : run.id = r => run.taskId = t
    BY <1>1, <1>3, <2>1, BelongsKept
  <2>3. CASE proc'[c] = proc[c]
    BY <1>3, <2>1, <2>2, <2>3 DEF Doomed, BelongsTo
  <2>4. CASE FrameStep(c)
    <3>1. c \in Procs /\ c \notin RunIds /\ RoutineStep(c) /\ ~CommandFails(c)
      <4>1. c \in Procs /\ c \notin RunIds
        BY ProcKinds
      <4>2. ~CommandFails(c)
        BY <1>3, <4>1, CommandFailsFacts DEF At
      <4> QED BY <1>3, <2>4, <4>1, <4>2 DEF FrameStep, Request, FindName, InsertRow, At
    <3>2. Done(c).pc = "idle"
      BY <3>1, DoneOK
    <3>3. CASE proc[c].pc \in {"children", "image"}
      <4>1. proc'[c].pc \in {"children", "image", "deleteRow"}
        BY <1>3, <3>1, <3>3, NextStep DEF At
      <4>2. proc'[c].op = "delete" /\ proc'[c].task = t
        BY <1>3, <2>1, <3>1, <3>2, <4>1, RoutineTrack
      <4> QED BY <2>2, <4>1, <4>2 DEF Doomed, BelongsTo
    <3>4. CASE proc[c].pc = "deleteRow"
      <4>1. DeleteRow(c)
        BY <3>1, <3>4, StepAt DEF At
      <4>2. ASSUME t \in tasks PROVE ~RowExists(r)'
        <5>1. runs' = runs \ RunsOf(t)
          BY <2>1, <4>1, <4>2 DEF DeleteRow, DeleteTask
        <5> QED BY <1>3, <2>1, <5>1 DEF RowExists, RunsOf, BelongsTo
      <4>3. ASSUME t \notin tasks PROVE ~RowExists(r)'
        <5>1. runs' = runs
          BY <2>1, <4>1, <4>3 DEF DeleteRow, regVars, tableVars
        <5>2. \A run \in runs : run.taskId \in tasks
          BY DEF LifeInv, RegInv, RegTypeOK
        <5> QED BY <1>3, <2>1, <4>3, <5>1, <5>2 DEF RowExists, BelongsTo
      <4> QED BY <1>1, <4>2, <4>3 DEF Doomed
    <3> QED BY <1>3, <3>3, <3>4
  <2> QED BY <2>3, <2>4, ClientFrames
<1> QED BY <1>2, <1>3 DEF Doomed

\* Who takes away the container of run r.
LEMMA BoxGone ==
  ASSUME LifeInv, [LifeNext]_vars, NEW b \in Boxes, box[b] # Nil, box'[b] = Nil
  PROVE  \/ \E r \in RunIds : RunRemove(r) /\ b = BoxOf(r)
         \/ \E x \in Procs : HandleChild(x, b) /\ proc[x].op \in {"delete", "update"}
<1>1. box \in [Boxes -> {Nil} \cup Box] /\ Nil \notin Box
  <2>1. DOMAIN builds \subseteq Nat
    BY DEF LifeInv, Core, FreshInv
  <2>2. Box \subseteq [state : {"running", "exited"}, code : {0, 1}, image : Nat]
    BY <2>1 DEF Box
  <2> QED BY <2>2, NilAssumption DEF LifeInv, Core, LifeTypeOK, Box
<1>2. ASSUME NEW e \in {0, 1}, NEW c, box' = [box EXCEPT ![c].state = "exited", ![c].code = e]
      PROVE  FALSE
  <2>1. box'[b] = box[b] \/ box'[b] = [box[b] EXCEPT !.state = "exited", !.code = e]
    BY <1>1, <1>2
  <2>2. [box[b] EXCEPT !.state = "exited", !.code = e] \in Box
    BY <1>1 DEF Box
  <2> QED BY <1>1, <2>1, <2>2
<1>3. ASSUME NEW c, box' = Stopped(c)
      PROVE  FALSE
  BY <1>2, <1>3 DEF Stopped
<1>4. ASSUME NEW c, box' = Removed(c)
      PROVE  b = c
  BY <1>1, <1>4 DEF Removed
<1>5. ASSUME NEW r \in RunIds, RunRemove(r)
      PROVE  b = BoxOf(r)
  BY <1>4, <1>5 DEF RunRemove
<1>6. ASSUME NEW x \in Procs, NEW c \in Boxes, HandleChild(x, c)
      PROVE  b = c /\ proc[x].op \in {"delete", "update"}
  BY <1>1, <1>3, <1>4, <1>6 DEF HandleChild
<1>7. ASSUME NEW r \in RunIds, RunDocker(r) \/ RunDockerFails(r)
      PROVE  FALSE
  <2>1. proc[r].task \in Labels
    <3>1. r \in Procs /\ proc[r].op = "run" /\ proc[r].pc = "run"
      BY <1>7, OpAt, ProcKinds, StepsOf DEF LifeInv, Core, RunDocker, RunDockerFails, At
    <3> QED BY <3>1 DEF LifeInv, Core, ProcInv, FrameOK
  <2>2. CASE image[proc[r].task] # Nil
    <3>1. image[proc[r].task] \in DOMAIN builds
      BY <2>1, <2>2 DEF LifeInv, Core, LifeTypeOK
    <3>2. /\ [state |-> "running", code |-> 0, image |-> image[proc[r].task]] # Nil
          /\ [state |-> "exited", code |-> 1, image |-> image[proc[r].task]] # Nil
      BY <1>1, <3>1 DEF Box
    <3> QED BY <1>1, <1>7, <3>2 DEF RunDocker, RunDockerFails
  <2>3. CASE image[proc[r].task] = Nil
    BY <1>1, <1>7, <2>3 DEF RunDocker, RunDockerFails
  <2> QED BY <2>2, <2>3
<1>8. ASSUME NEW c \in Boxes, BoxExits(c)
      PROVE  FALSE
  BY <1>2, <1>8 DEF BoxExits
<1> QED BY <1>5, <1>6, <1>7, <1>8, WhoChangesWhat DEF WhoChanges, ChangesBox

\* Every step other than a crash keeps that.
LEMMA RunningStep ==
  ASSUME LifeInv, [LifeNext]_vars, "update" \notin Ops, ~Crash, OwnInv, RunningInv,
         "rmi" \notin Failures, "status" \notin Failures
  PROVE  RunningInv'
<1>0. ProcInv /\ DOMAIN proc = Procs /\ boots \in 0 .. MaxBoot /\ LifeInv'
  BY LifeInvStep DEF LifeInv, Core, ProcInv, ServerInv
<1>1. Never("update")'
  BY NeverStep DEF RunningInv
<1>2. \A r \in RunIds : status'[r] # "none" => RowExists(r)'
  BY StatusHasRow DEF RunningInv
<1>3. \A r \in RunIds : Doomed(r) => Doomed(r)'
  BY DoomedStep
<1>4. boots' = boots
  BY WhoChangesWhat, BootFrame DEF WhoChanges, ChangesServer
<1>5. ASSUME NEW r \in RunIds, box[BoxOf(r)] # Nil, proc[r].op = "run",
             proc[r].pc \in {"start", "wait"}
      PROVE  box'[BoxOf(r)] # Nil \/ Doomed(r)'
  <2> DEFINE b == BoxOf(r)
  <2>1. b \in Boxes /\ b[1] = r
    BY <1>0, BoxOfBox DEF BoxOf
  <2>2. ~\E s \in RunIds : RunRemove(s) /\ b = BoxOf(s)
    BY <1>5 DEF RunRemove, At, BoxOf
  <2>3. ASSUME NEW x \in Procs, HandleChild(x, b), proc[x].op \in {"delete", "update"}
        PROVE  Doomed(r)'
    <3>1. proc[x].op = "delete" /\ x \in Clients
      BY <1>0, <2>3, ProcKinds DEF RunningInv, Never, ProcInv
    <3>2. /\ BelongsTo(r, proc[x].task) /\ At(x, "children") /\ RoutineStep(x)
          /\ ~CommandFails(x) /\ x \notin RunIds
      BY <2>1, <2>3, <3>1, ProcKinds
         DEF OwnInv, HandleChild, RoutineStep, CommandFails, At
    <3>3. proc'[x].pc \in {"children", "image"}
      BY <3>1, <3>2, NextStep DEF At
    <3>4. proc'[x].op = "delete" /\ proc'[x].task = proc[x].task
      <4>1. Done(x).pc = "idle"
        BY <2>3, <3>1, DoneOK
      <4> QED BY <3>1, <3>2, <3>3, <4>1, RoutineTrack
    <3>5. PICK t : t = proc[x].task
      OBVIOUS
    <3>6. r <= lastId' /\ \A run \in runs' : run.id = r => run.taskId = t
      BY <3>2, <3>5, BelongsKept, ProcKinds
    <3> QED BY <3>1, <3>3, <3>4, <3>5, <3>6 DEF Doomed, BelongsTo
  <2> HIDE DEF b
  <2>4. box[b] # Nil /\ box' \in [Boxes -> {Nil} \cup Box']
    BY <1>5, BoxStep DEF b
  <2>5. box'[b] # Nil \/ Doomed(r)'
    BY <2>1, <2>2, <2>3, <2>4, BoxGone
  <2> QED BY <2>5 DEF b
<1>6. ASSUME NEW r \in RunIds, proc'[r].op = "run", proc'[r].pc \in {"start", "wait"}
      PROVE  box'[BoxOf(r)] # Nil \/ Doomed(r)'
  <2>1. CASE proc'[r] = proc[r]
    BY <1>3, <1>5, <1>6, <2>1 DEF RunningInv
  <2>2. CASE FrameStep(r)
    <3>1. CASE RunDocker(r)
      <4>1. BoxOf(r) \in Boxes /\ box \in [Boxes -> {Nil} \cup Box] /\ Nil \notin Box
        <5>1. DOMAIN builds \subseteq Nat
          BY DEF LifeInv, Core, FreshInv
        <5>2. Box \subseteq [state : {"running", "exited"}, code : {0, 1}, image : Nat]
          BY <5>1 DEF Box
        <5> QED BY <1>0, <5>2, BoxOfBox, NilAssumption DEF LifeInv, Core, LifeTypeOK, Box
      <4>2. proc[r].task \in Labels
        <5>1. r \in Procs /\ proc[r].op = "run" /\ proc[r].pc = "run"
          BY <1>0, <3>1, OpAt, ProcKinds, StepsOf DEF RunDocker, At
        <5> QED BY <1>0, <5>1 DEF ProcInv, FrameOK
      <4>3. image[proc[r].task] \in DOMAIN builds
        BY <3>1, <4>2 DEF RunDocker, LifeInv, Core, LifeTypeOK
      <4>4. [state |-> "running", code |-> 0, image |-> image[proc[r].task]] \in Box
        BY <4>3 DEF Box
      <4> QED BY <3>1, <4>1, <4>4 DEF RunDocker
    <3>2. CASE RunStart(r)
      <4>1. proc[r].op = "run" /\ proc[r].pc = "start" /\ box' = box
        BY <1>6, <2>2, <3>2, RunTrack DEF RunStart, dockerVars, At
      <4> QED BY <1>3, <4>1 DEF RunningInv
    <3>3. RunDocker(r) \/ RunStart(r)
      BY <1>6, <2>2, RunTrack
    <3> QED BY <3>1, <3>2, <3>3
  <2>3. IdleProc.op # "run" /\ \A h : FrameOf(h).pc = "check"
    BY DEF IdleProc, FrameOf
  <2> QED BY <1>6, <2>1, <2>2, <2>3, RunFrames
<1>7. ASSUME NEW r \in RunIds, status'[r] = "running"
      PROVE  Doomed(r)' \/ (proc'[r].op = "run" /\ proc'[r].pc \in {"wait", "finish"})
  <2>1. CASE RunStart(r)
    <3>1. proc[r].op = "run" /\ proc[r].pc = "start"
      BY <1>0, <2>1, OpAt, ProcKinds, StepsOf DEF RunStart, At
    <3>2. proc'[r] = After(r, proc[r], "start") /\ proc[r] \in Frames
      BY <1>0, <2>1, <3>1, ProcKinds DEF RunStart, Advance, ProcInv, FrameOK
    <3>3. proc'[r] = [proc[r] EXCEPT !.pc = "wait"]
      BY <3>1, <3>2, AfterRun
    <3> QED BY <3>1, <3>2, <3>3 DEF Frames
  <2>2. CASE status[r] = "running" /\ ~RunFinish(r) /\ ~Doomed(r)
    <3>1. proc[r].op = "run" /\ proc[r].pc \in {"wait", "finish"}
      BY <2>2 DEF RunningInv
    <3>2. CASE proc'[r] = proc[r]
      BY <3>1, <3>2
    <3>3. CASE FrameStep(r)
      <4>1. RunStep(r) /\ ~RunCheck(r) /\ ~RunDockerFails(r) /\ ~RunRemove(r)
        BY <3>1, <3>3, RunTrack DEF RunCheck, RunDockerFails, RunRemove, At
      <4>2. proc'[r].op = "run" => RunWait(r) /\ proc'[r].pc = "finish"
        BY <2>2, <3>1, <3>3, RunTrack
      <4>3. proc'[r].op # "run" => proc[r].pc = "wait" /\ box[BoxOf(r)] = Nil
        BY <3>1, <3>3, <4>1, RunTrack DEF RunWait, At
      <4> QED BY <2>2, <3>1, <4>2, <4>3 DEF RunningInv
    <3>4. ~RunSettles(r) /\ proc[r].pc # "idle"
      BY <3>1 DEF RunSettles, At
    <3> QED BY <3>2, <3>3, <3>4, RunFrames
  <2>3. CASE RunFinish(r)
    <3>1. RowExists(r)
      BY <1>7, <2>3 DEF RunFinish, SetStatus, RunningInv
    <3>2. status' = [status EXCEPT ![r] = IF proc[r].code = 0 THEN "succeed" ELSE "failed"]
          /\ DOMAIN status = RunIds
      BY <2>3, <3>1 DEF RunFinish, SetStatus, LifeInv, Core, LifeTypeOK
    <3> QED BY <1>7, <3>2
  <2> QED BY <1>3, <1>7, <2>1, <2>2, <2>3, StatusChange
<1>8. \A r \in RunIds : BoxOf(r)' = BoxOf(r)
  BY <1>4 DEF BoxOf
<1> QED BY <1>1, <1>2, <1>6, <1>7, <1>8 DEF RunningInv

\* When nothing is under way, no run is marked as running: every way through
\* runTask writes the result (task.service.ts, lines 87-126), as long as no update
\* pulls away the container of the run, the process does not crash, and neither
\* docker rmi nor an update of the status fails.  Each of them leaves a run marked
\* as running for ever: the hypotheses cannot be dropped.  Deletions, which pull
\* away containers as well, are covered: they remove the row in the end.
THEOREM LifecycleNoZombieRun ==
  ASSUME "update" \notin Ops, MaxBoot = 0,
         "rmi" \notin Failures, "status" \notin Failures
  PROVE  LifeSpec => []NoZombieRun
<1>1. LifeInit => OwnInv /\ RunningInv
  <2> SUFFICES ASSUME LifeInit PROVE OwnInv /\ RunningInv
    OBVIOUS
  <2>1. \A x \in Procs : proc[x].op = "none" /\ proc[x].pc = "idle"
    BY DEF LifeInit, IdleProc
  <2>2. \A r \in RunIds : r \in Procs /\ status[r] = "none"
    BY ProcKinds DEF LifeInit
  <2> QED BY <2>1, <2>2 DEF LifeInit, OwnInv, RunningInv, Never, At
<1>2. LifeInv /\ OwnInv /\ RunningInv /\ [LifeNext]_vars => (OwnInv /\ RunningInv)'
  <2> SUFFICES ASSUME LifeInv, OwnInv, RunningInv, [LifeNext]_vars
               PROVE  (OwnInv /\ RunningInv)'
    OBVIOUS
  <2>1. ~Crash
    BY DEF Crash, LifeInv, Core, ServerInv
  <2> QED BY <2>1, OwnStep, RunningStep
<1>3. LifeInv /\ RunningInv => NoZombieRun
  <2> SUFFICES ASSUME LifeInv, RunningInv, Quiet, NEW r \in RunIds, status[r] = "running"
               PROVE  FALSE
    BY DEF NoZombieRun
  <2>1. \A x \in Procs : proc[x].pc = "idle"
    BY DEF Quiet
  <2>2. RowExists(r)
    BY DEF RunningInv
  <2> QED BY <2>1, <2>2, ProcKinds DEF RunningInv, Doomed
<1> QED BY <1>1, <1>2, <1>3, LifeInvAlways, PTL DEF LifeSpec

-----------------------------------------------------------------------------
(* A started entry has an image.                                           *)

\* Cron does not fire for t; the build of the image of t has ended well.
Off(t) == sched[t] = Nil \/ ~sched[t].on
Built(t) == \E i \in DOMAIN builds : builds[i].task = t /\ builds[i].pc = "done"

\* An entry and its build belong together, once and for all.
OneBuild ==
  /\ \A i, j \in DOMAIN builds : builds[i].task = builds[j].task => i = j
  /\ \A i \in DOMAIN builds : /\ sched[builds[i].task] # Nil
                              /\ sched[builds[i].task].config = builds[i].config
  /\ \A t \in Labels : sched[t] # Nil => \E i \in DOMAIN builds : builds[i].task = t

\* How far build i has come, and what its entry and the image are meanwhile.
BuildOK(i) ==
  LET t == builds[i].task
  IN  /\ builds[i].pc # "orphan"
      /\ builds[i].pc \in {"build", "failed"} => Off(t)
      /\ builds[i].pc = "start" => Off(t) /\ image[t] = i
      /\ builds[i].pc = "done" => Off(t) \/ image[t] = i

\* The runs of a task, and its ticks, come after its build; the image is removed
\* after the last run has stopped the entry.
BuildInv ==
  /\ server = "up" /\ Never("update") /\ Never("delete")
  /\ OneBuild
  /\ \A i \in DOMAIN builds : BuildOK(i)
  /\ \A p \in Callers : tick[p].pc # "idle" => Built(tick[p].task)
  /\ \A h \in AllHandles : Built(h.taskId)
  /\ \A r \in RunIds : proc[r].op = "limit" /\ proc[r].pc # "unschedule" => Off(proc[r].task)

\* An entry for t is made, which is off, and a build.
Makes(t, config) ==
  /\ sched'[t] # Nil /\ ~sched'[t].on /\ sched'[t].config = config
  /\ \E n \in DOMAIN builds' :
       /\ DOMAIN builds' = DOMAIN builds \cup {n} /\ n \notin DOMAIN builds
       /\ \A i \in DOMAIN builds : builds'[i] = builds[i]
       /\ builds'[n].task = t /\ builds'[n].config = config /\ builds'[n].pc = "build"

\* register does that, unless there is an entry.
LEMMA RegisterMakes ==
  ASSUME LifeInv, NEW x \in Procs, Register(x), NEW t, t = proc[x].task
  PROVE  /\ image' = image
         /\ t \in Labels /\ proc[x].op # "none"
         /\ \A u \in Labels \ {t} : sched'[u] = sched[u]
         /\ sched[t] # Nil => sched' = sched /\ builds' = builds
         /\ sched[t] = Nil => Makes(t, proc[x].config)
<1>1. /\ t \in Labels \ unused /\ proc[x].config \in Configs
      /\ ScheduleExecutable(t, proc[x].config)
  BY RegisterSchedules
<1>2. proc[x].op # "none"
  BY OpAt DEF Register, LifeInv, Core
<1>3. image' = image
  BY DEF Register, dockerVars
<1>4. \A u \in Labels \ {t} : sched'[u] = sched[u]
  BY <1>1, ScheduleOK
<1>5. sched[t] # Nil => sched' = sched /\ builds' = builds
  BY <1>1 DEF ScheduleExecutable, Scheduler!Exists
<1>6. ASSUME sched[t] = Nil
      PROVE  Makes(t, proc[x].config)
  <2>1. sched' = [sched EXCEPT ![t] = [on |-> FALSE, config |-> proc[x].config]]
        /\ builds' = Append(builds, [task |-> t, config |-> proc[x].config, pc |-> "build"])
    BY <1>1, <1>6 DEF ScheduleExecutable, Scheduler!Exists, Scheduler!Schedule, Scheduler!Entry
  <2>2. builds \in Seq(Build) /\ DOMAIN sched = Labels
    BY DEF LifeInv, Core, FreshInv, LifeTypeOK
  <2>3. sched'[t] = [on |-> FALSE, config |-> proc[x].config] /\ sched'[t] # Nil
    BY <1>1, <1>6, <2>1, <2>2, ScheduleOK
  <2>4. Len(builds) \in Nat /\ DOMAIN builds = 1 .. Len(builds)
    BY <2>2
  <2>5. DOMAIN builds' = 1 .. Len(builds) + 1
    BY <2>1, <2>2, <2>4
  <2>6. \A i \in DOMAIN builds : builds'[i] = builds[i]
    BY <2>1, <2>2, <2>4
  <2>7. builds'[Len(builds) + 1] = [task |-> t, config |-> proc[x].config, pc |-> "build"]
    BY <2>1, <2>2, <2>4
  <2>8. Len(builds) + 1 \in DOMAIN builds' /\ Len(builds) + 1 \notin DOMAIN builds
        /\ DOMAIN builds' = DOMAIN builds \cup {Len(builds) + 1}
    BY <2>4, <2>5
  <2> QED BY <2>3, <2>6, <2>7, <2>8 DEF Makes
<1> QED BY <1>1, <1>2, <1>3, <1>4, <1>5, <1>6

\* Who changes the step of a build, while the server is up.
LEMMA BuildChange ==
  ASSUME LifeInv, [LifeNext]_vars, ~Crash, server = "up", NEW i \in DOMAIN builds
  PROVE  builds'[i].pc = builds[i].pc \/ BuildStep(i)
<1>1. ASSUME NEW j \in DOMAIN builds, BuildStep(j)
      PROVE  builds'[i] = builds[i] \/ BuildStep(i)
  BY <1>1 DEF BuildStep, BuildImage, BuildFails, BuildStart
<1>2. ASSUME NEW x \in Procs, Register(x)
      PROVE  builds'[i] = builds[i]
  <2>1. PICK t : t = proc[x].task
    OBVIOUS
  <2> QED BY <1>2, <2>1, RegisterMakes DEF Makes
<1>3. ~BootTask
  BY DEF BootTask
<1> QED BY <1>1, <1>2, <1>3, WhoChangesWhat DEF WhoChanges, ChangesBuilds

\* Who moves the tag of a task, when nobody deletes or updates tasks.
LEMMA ImageChange ==
  ASSUME LifeInv, [LifeNext]_vars, Never("update"), Never("delete"), NEW t \in Labels
  PROVE  \/ image'[t] = image[t]
         \/ \E i \in DOMAIN builds : BuildImage(i) /\ builds[i].task = t
         \/ \E r \in RunIds : RemoveUnusedImage(r) /\ proc[r].task = t
<1>1. \A x \in Procs : ~RemoveImage(x)
  BY OpAt DEF RemoveImage, Never, LifeInv, Core
<1>2. ASSUME NEW i \in DOMAIN builds, BuildImage(i)
      PROVE  image'[t] = image[t] \/ builds[i].task = t
  BY <1>2 DEF BuildImage, LifeInv, Core, LifeTypeOK
<1>3. ASSUME NEW r \in RunIds, RemoveUnusedImage(r)
      PROVE  image'[t] = image[t] \/ proc[r].task = t
  BY <1>3 DEF RemoveUnusedImage, LifeInv, Core, LifeTypeOK
<1> QED BY <1>1, <1>2, <1>3, WhoChangesWhat DEF WhoChanges, ChangesImage

\* Only the end of its build turns the entry of a task on.
LEMMA StaysOff ==
  ASSUME LifeInv, [LifeNext]_vars, server = "up", NEW t \in Labels, Off(t)
  PROVE  Off(t)' \/ \E i \in DOMAIN builds : BuildStart(i) /\ builds[i].task = t
<1>1. DOMAIN sched = Labels /\ sched \in [Labels -> {Nil} \cup Entries]
  BY DEF LifeInv, Core, LifeTypeOK, Entries
<1>2. ASSUME NEW u
      PROVE  /\ Off(t) => Scheduler!Stop(sched, u)[t] = Nil \/ ~Scheduler!Stop(sched, u)[t].on
             /\ Scheduler!Delete(sched, u)[t] = Nil \/ Scheduler!Delete(sched, u)[t] = sched[t]
             /\ u # t => Scheduler!Start(sched, u)[t] = sched[t]
  <2>1. CASE sched[t] = Nil
    BY <1>1, <2>1 DEF Scheduler!Stop, Scheduler!Delete, Scheduler!Start, Scheduler!Exists
  <2>2. CASE sched[t] # Nil
    <3>1. sched[t] \in Entries
      BY <1>1, <2>2
    <3>2. CASE u = t
      <4>1. Scheduler!Stop(sched, u)[t] = [sched[t] EXCEPT !.on = FALSE]
        BY <1>1, <2>2, <3>2 DEF Scheduler!Stop, Scheduler!Exists
      <4>2. Scheduler!Delete(sched, u)[t] = Nil
        BY <1>1, <3>2 DEF Scheduler!Delete
      <4>3. ~[sched[t] EXCEPT !.on = FALSE].on
        BY <3>1 DEF Entries
      <4> QED BY <3>2, <4>1, <4>2, <4>3
    <3>3. CASE u # t
      BY <1>1, <3>3 DEF Scheduler!Stop, Scheduler!Delete, Scheduler!Start, Scheduler!Exists, Off
    <3> QED BY <3>2, <3>3
  <2> QED BY <2>1, <2>2
<1>3. ASSUME NEW i \in DOMAIN builds, BuildStart(i)
      PROVE  sched'[t] = sched[t] \/ builds[i].task = t
  BY <1>2, <1>3 DEF BuildStart
<1>4. ASSUME NEW p \in Callers, TickReturn(p)
      PROVE  Off(t)'
  BY <1>2, <1>4 DEF TickReturn, Off
<1>5. ASSUME NEW x \in Procs, Unschedule(x)
      PROVE  Off(t)'
  BY <1>2, <1>5 DEF Unschedule, Off
<1>6. ASSUME NEW x \in Procs, Register(x)
      PROVE  Off(t)'
  <2>1. PICK u : u = proc[x].task
    OBVIOUS
  <2>2. CASE u = t
    BY <1>6, <2>1, <2>2, RegisterMakes DEF Off, Makes
  <2>3. CASE u # t
    BY <1>6, <2>1, <2>3, RegisterMakes DEF Off, Makes
  <2> QED BY <2>2, <2>3
<1>7. ~BootTask
  BY DEF BootTask
<1>8. Crash => Off(t)'
  BY DEF Crash, Off
<1>9. sched'[t] = sched[t] => Off(t)'
  BY DEF Off
<1> QED BY <1>3, <1>4, <1>5, <1>6, <1>7, <1>8, <1>9, WhoChangesWhat
        DEF WhoChanges, ChangesSched

\* What is built stays built.
LEMMA BuiltKept ==
  ASSUME LifeInv, [LifeNext]_vars, ~Crash, server = "up", NEW t, Built(t)
  PROVE  Built(t)'
<1>1. PICK i \in DOMAIN builds : builds[i].task = t /\ builds[i].pc = "done"
  BY DEF Built
<1>2. ~BuildStep(i)
  BY <1>1 DEF BuildStep, BuildImage, BuildFails, BuildStart
<1>3. builds'[i].pc = "done" /\ builds'[i].task = t /\ i \in DOMAIN builds'
  BY <1>1, <1>2, BuildChange, BuildsKeep
<1> QED BY <1>3 DEF Built

\* No build of a task that has been built goes on.
LEMMA BuiltIsDone ==
  ASSUME OneBuild, NEW i \in DOMAIN builds, Built(builds[i].task)
  PROVE  builds[i].pc = "done"
BY DEF OneBuild, Built

\* The executor of a run works for a task that has been built.
LEMMA ExecutorBuilt ==
  ASSUME LifeInv, BuildInv, NEW r \in RunIds, proc[r].op # "none"
  PROVE  Built(proc[r].task)
<1>1. r \in Procs /\ proc[r].pc # "idle"
  <2>1. r \in Procs /\ ProcInv
    BY ProcKinds DEF LifeInv, Core
  <2> QED BY <2>1, OpAt DEF At
<1>2. PICK h \in queue.executing : h.runId = r
  BY <1>1 DEF LifeInv, Core, ExecInv
<1>3. h.taskId = proc[r].task /\ h \in AllHandles
  BY <1>2 DEF LifeInv, Core, ExecInv, AllHandles
<1> QED BY <1>3 DEF BuildInv

\* An entry that fires has been built.
LEMMA OnIsBuilt ==
  ASSUME LifeInv, BuildInv, NEW t \in Labels, ~Off(t)
  PROVE  \E i \in DOMAIN builds : /\ builds[i].task = t /\ builds[i].pc = "done"
                                  /\ image[t] = i /\ builds[i].config = sched[t].config
<1>1. PICK i \in DOMAIN builds : builds[i].task = t
  BY DEF BuildInv, OneBuild, Off
<1>2. BuildOK(i) /\ sched[t].config = builds[i].config
  BY <1>1 DEF BuildInv, OneBuild
<1>3. builds[i].pc \in {"build", "orphan", "start", "done", "failed"}
  BY DEF LifeInv, Core, LifeTypeOK
<1> QED BY <1>1, <1>2, <1>3 DEF BuildOK

\* A step other than a crash, of an instance without updates and deletions.
BuildNext ==
  /\ LifeInv /\ [LifeNext]_vars /\ BuildInv /\ ~Crash
  /\ "update" \notin Ops /\ "delete" \notin Ops

\* Without crashes the server stays up.
LEMMA ServerStaysUp ==
  ASSUME BuildNext
  PROVE  server' = "up" /\ Never("update")' /\ Never("delete")'
<1>1. server' = "up"
  BY WhoChangesWhat DEF BuildNext, BuildInv, WhoChanges, ChangesServer, BootStep, BootList, BootTask, Listen
<1>2. Never("update")' /\ Never("delete")'
  BY NeverStep DEF BuildNext, BuildInv
<1> QED BY <1>1, <1>2

\* An entry that was made stays.
LEMMA EntryStays ==
  ASSUME BuildNext, NEW t \in Labels
  PROVE  \/ sched[t] = Nil /\ sched'[t] = Nil
         \/ sched[t] # Nil /\ sched'[t] # Nil /\ sched'[t].config = sched[t].config
         \/ \E x \in Procs : Register(x) /\ proc[x].task = t /\ sched[t] = Nil
<1>1. LifeInv /\ [LifeNext]_vars /\ ~Crash /\ server = "up" /\ Never("update") /\ Never("delete")
  BY DEF BuildNext, BuildInv
<1>2. ~BootTask
  BY <1>1 DEF BootTask
<1>3. \A c \in Clients : c \in Procs /\ proc[c].op \notin {"delete", "update"}
  BY <1>1, ProcKinds DEF Never
<1> QED BY <1>1, <1>2, <1>3, EntryChange

\* An entry is made together with its build, and only if there is none.
LEMMA OneBuildStep ==
  ASSUME BuildNext
  PROVE  OneBuild'
<1>1. LifeInv /\ [LifeNext]_vars /\ ~Crash /\ server = "up" /\ OneBuild
  BY DEF BuildNext, BuildInv
<1>2. \A i \in DOMAIN builds : i \in DOMAIN builds' /\ builds'[i].task = builds[i].task
                                                    /\ builds'[i].config = builds[i].config
  BY <1>1, BuildsKeep
<1>3. \A i \in DOMAIN builds : builds[i].task \in Labels
  BY <1>1 DEF LifeInv, Core, LifeTypeOK
<1>4. CASE \E x \in Procs : Register(x) /\ sched[proc[x].task] = Nil
  <2>0. PICK x \in Procs : Register(x) /\ sched[proc[x].task] = Nil
    BY <1>4
  <2>1. PICK t : t = proc[x].task /\ Register(x) /\ sched[t] = Nil
    BY <2>0
  <2>2. /\ t \in Labels /\ t = proc[x].task
        /\ \A u \in Labels \ {t} : sched'[u] = sched[u]
        /\ Makes(t, proc[x].config)
    BY <1>1, <2>1, RegisterMakes
  <2>3. PICK n \in DOMAIN builds' :
          /\ DOMAIN builds' = DOMAIN builds \cup {n} /\ n \notin DOMAIN builds
          /\ \A i \in DOMAIN builds : builds'[i] = builds[i]
          /\ builds'[n].task = t /\ builds'[n].config = proc[x].config
    BY <2>2 DEF Makes
  <2>4. \A i \in DOMAIN builds : builds[i].task # t
    BY <1>1, <2>1 DEF OneBuild
  <2>5. \A i, j \in DOMAIN builds' : builds'[i].task = builds'[j].task => i = j
    BY <1>1, <2>3, <2>4 DEF OneBuild
  <2>6. ASSUME NEW i \in DOMAIN builds'
        PROVE  sched'[builds'[i].task] # Nil /\ sched'[builds'[i].task].config = builds'[i].config
    <3>1. CASE i = n
      BY <2>2, <2>3, <3>1 DEF Makes
    <3>2. CASE i \in DOMAIN builds
      BY <1>1, <1>3, <2>2, <2>3, <2>4, <3>2 DEF OneBuild
    <3> QED BY <2>3, <3>1, <3>2
  <2>7. \A u \in Labels : sched'[u] # Nil => \E i \in DOMAIN builds' : builds'[i].task = u
    BY <1>1, <1>2, <2>2, <2>3 DEF OneBuild
  <2> QED BY <2>5, <2>6, <2>7 DEF OneBuild
<1>5. CASE ~ \E x \in Procs : Register(x) /\ sched[proc[x].task] = Nil
  <2>1. \A t \in Labels : \/ sched[t] = Nil /\ sched'[t] = Nil
                          \/ sched[t] # Nil /\ sched'[t] # Nil /\ sched'[t].config = sched[t].config
    BY <1>5, EntryStays
  <2>2. DOMAIN builds' = DOMAIN builds
    <3>1. ASSUME NEW x \in Procs, Register(x)
          PROVE  builds' = builds
      <4>1. PICK t : t = proc[x].task
        OBVIOUS
      <4> QED BY <1>1, <1>5, <3>1, <4>1, RegisterMakes
    <3>2. ~BootTask
      BY <1>1 DEF BootTask
    <3>3. ASSUME NEW i \in DOMAIN builds, BuildStep(i)
          PROVE  DOMAIN builds' = DOMAIN builds
      BY <3>3 DEF BuildStep, BuildImage, BuildFails, BuildStart
    <3> QED BY <1>1, <3>1, <3>2, <3>3, WhoChangesWhat DEF WhoChanges, ChangesBuilds
  <2>3. \A i, j \in DOMAIN builds' : builds'[i].task = builds'[j].task => i = j
    BY <1>1, <1>2, <2>2 DEF OneBuild
  <2>4. \A i \in DOMAIN builds' :
          sched'[builds'[i].task] # Nil /\ sched'[builds'[i].task].config = builds'[i].config
    BY <1>1, <1>2, <1>3, <2>1, <2>2 DEF OneBuild
  <2>5. \A u \in Labels : sched'[u] # Nil => \E i \in DOMAIN builds' : builds'[i].task = u
    BY <1>1, <1>2, <2>1, <2>2 DEF OneBuild
  <2> QED BY <2>3, <2>4, <2>5 DEF OneBuild
<1> QED BY <1>4, <1>5

\* A build goes on in its order, and nothing removes the image meanwhile.
LEMMA BuildsStayOK ==
  ASSUME BuildNext, NEW i \in DOMAIN builds'
  PROVE  BuildOK(i)'
<1>1. LifeInv /\ [LifeNext]_vars /\ ~Crash /\ server = "up" /\ OneBuild
      /\ Never("update") /\ Never("delete")
  BY DEF BuildNext, BuildInv
<1>2. CASE i \in DOMAIN builds
  <2>1. PICK t : t = builds[i].task
    OBVIOUS
  <2>2. t \in Labels /\ builds'[i].task = t /\ BuildOK(i)
    BY <1>1, <1>2, <2>1, BuildsKeep DEF LifeInv, Core, LifeTypeOK, BuildNext, BuildInv
  <2>3. image \in [Labels -> {Nil} \cup DOMAIN builds] /\ builds \in Seq(Build) /\ builds[i] \in Build
    BY <1>1, <1>2 DEF LifeInv, Core, LifeTypeOK, FreshInv
  <2>4. CASE BuildImage(i)
    <3>1. builds[i].pc = "build" /\ Off(t)
      BY <2>1, <2>2, <2>4 DEF BuildImage, BuildOK
    <3>2. builds'[i].pc = "start" /\ image'[t] = i /\ sched' = sched
      BY <1>2, <2>1, <2>2, <2>3, <2>4, <3>1 DEF BuildImage, Build
    <3> QED BY <2>2, <3>1, <3>2 DEF BuildOK, Off
  <2>5. CASE BuildFails(i)
    <3>1. Off(t) /\ sched' = sched
      BY <2>1, <2>2, <2>5 DEF BuildFails, BuildOK
    <3>2. builds'[i].pc = "failed"
      BY <1>2, <2>3, <2>5 DEF BuildFails, Build
    <3> QED BY <2>2, <3>1, <3>2 DEF BuildOK, Off
  <2>6. CASE BuildStart(i)
    <3>1. image[t] = i /\ image' = image
      BY <2>1, <2>2, <2>6 DEF BuildStart, BuildOK, dockerVars
    <3>2. builds'[i].pc = "done"
      BY <1>2, <2>3, <2>6 DEF BuildStart, Build
    <3> QED BY <2>2, <3>1, <3>2 DEF BuildOK
  <2>7. CASE ~BuildStep(i)
    <3>1. builds'[i].pc = builds[i].pc
      BY <1>1, <1>2, <2>7, BuildChange
    <3>2. \A j \in DOMAIN builds : builds[j].task = t => ~BuildStep(j)
      BY <1>1, <1>2, <2>1, <2>7 DEF OneBuild
    <3>3. Off(t) => Off(t)'
      BY <1>1, <2>2, <3>2, StaysOff DEF BuildStep
    <3>4. image'[t] = image[t] \/ (Off(t) /\ builds[i].pc = "done")
      <4>1. ASSUME NEW r \in RunIds, RemoveUnusedImage(r), proc[r].task = t
            PROVE  Off(t) /\ builds[i].pc = "done"
        <5>1. proc[r].op = "limit" /\ proc[r].pc = "rmi"
          BY <1>1, <4>1, ProcKinds, OpAt DEF RemoveUnusedImage, At, LifeInv, Core
        <5>2. Off(t)
          BY <4>1, <5>1 DEF BuildNext, BuildInv
        <5>3. Built(t)
          BY <1>1, <4>1, <5>1, ExecutorBuilt DEF BuildNext
        <5> QED BY <1>1, <1>2, <2>1, <5>2, <5>3, BuiltIsDone
      <4> QED BY <1>1, <2>2, <3>2, <4>1, ImageChange DEF BuildStep
    <3> QED BY <2>1, <2>2, <3>1, <3>3, <3>4 DEF BuildOK
  <2> QED BY <2>4, <2>5, <2>6, <2>7 DEF BuildStep
<1>3. CASE i \notin DOMAIN builds
  <2>1. PICK x \in Procs : Register(x)
    <3>1. ASSUME NEW j \in DOMAIN builds, BuildStep(j)
          PROVE  DOMAIN builds' = DOMAIN builds
      BY <3>1 DEF BuildStep, BuildImage, BuildFails, BuildStart
    <3>2. ~BootTask
      BY <1>1 DEF BootTask
    <3> QED BY <1>1, <1>3, <3>1, <3>2, WhoChangesWhat DEF WhoChanges, ChangesBuilds
  <2>2. PICK t : t = proc[x].task
    OBVIOUS
  <2>3. sched[t] = Nil /\ Makes(t, proc[x].config)
    BY <1>1, <1>3, <2>1, <2>2, RegisterMakes
  <2>4. builds'[i].task = t /\ builds'[i].pc = "build" /\ ~sched'[t].on
    BY <1>3, <2>3 DEF Makes
  <2> QED BY <2>4 DEF BuildOK, Off
<1> QED BY <1>2, <1>3

\* A tick was fired by an entry that is on.
LEMMA TicksBuilt ==
  ASSUME BuildNext, NEW p \in Callers, tick'[p].pc # "idle"
  PROVE  Built(tick[p].task)'
<1>1. LifeInv /\ [LifeNext]_vars /\ ~Crash /\ server = "up" /\ BuildInv
  BY DEF BuildNext, BuildInv
<1>2. ASSUME tick[p].pc # "idle", tick'[p].task = tick[p].task
      PROVE  Built(tick[p].task)'
  <2>1. PICK t : t = tick[p].task
    OBVIOUS
  <2>2. Built(t)'
    BY <1>1, <1>2, <2>1, BuiltKept DEF BuildInv
  <2> QED BY <1>2, <2>1, <2>2 DEF Built
<1>3. ASSUME NEW q \in Callers, TickStep(q)
      PROVE  tick[p].pc # "idle" /\ tick'[p].task = tick[p].task
  <2>1. CASE p = q
    BY <1>1, <1>3, <2>1, TickStepTick, TickBusy
  <2>2. CASE p # q
    BY <1>1, <1>3, <2>2, TickStepTick
  <2> QED BY <2>1, <2>2
<1>4. ASSUME NEW q \in Callers, NEW t \in Labels, CronFires(q, t)
      PROVE  Built(tick[p].task)'
  <2>1. tick' = [tick EXCEPT ![q].pc = "check", ![q].task = t] /\ sched[t] # Nil /\ sched[t].on
    BY <1>4 DEF CronFires, Scheduler!Exists
  <2>2. DOMAIN tick = Callers /\ tick[p] \in Tick
    BY <1>1 DEF LifeInv, Core, TickInv, Tick
  <2>3. CASE p = q
    <3>1. tick'[p].task = t
      BY <2>1, <2>2, <2>3 DEF Tick
    <3>2. Built(t)
      BY <1>1, <2>1, OnIsBuilt DEF Off, Built
    <3>3. Built(t)'
      BY <1>1, <3>2, BuiltKept
    <3> QED BY <3>1, <3>3 DEF Built
  <2>4. CASE p # q
    BY <1>2, <2>1, <2>2, <2>4
  <2> QED BY <2>3, <2>4
<1> QED BY <1>1, <1>2, <1>3, <1>4, WhoChangesWhat DEF WhoChanges, ChangesTick

\* A run was registered by a tick.
LEMMA HandlesBuilt ==
  ASSUME BuildNext, NEW h \in AllHandles'
  PROVE  Built(h.taskId)'
<1>1. LifeInv /\ [LifeNext]_vars /\ ~Crash /\ server = "up" /\ BuildInv
  BY DEF BuildNext, BuildInv
<1>2. h \in AllHandles \/ New(h)
  BY <1>1, Origins DEF AllHandles
<1>3. ASSUME NEW p \in Callers, Holds(p), h = Held(p)
      PROVE  Built(h.taskId)
  <2>1. tick[p].pc = "mutex" /\ h.taskId = tick[p].task
    BY <1>1, <1>3, HoldsInMutex DEF Held
  <2> QED BY <1>1, <2>1 DEF BuildInv
<1>4. ~BootTask
  BY <1>1 DEF BootTask
<1>5. Built(h.taskId)
  BY <1>1, <1>2, <1>3, <1>4 DEF New, BuildInv
<1>6. PICK t : t = h.taskId
  OBVIOUS
<1>7. Built(t)'
  BY <1>1, <1>5, <1>6, BuiltKept
<1> QED BY <1>6, <1>7 DEF Built

\* How an executor comes to close its task, and how it goes on.
LEMMA LimitTrack ==
  ASSUME LifeInv, NEW r \in RunIds, FrameStep(r), proc'[r].op = "limit"
  PROVE  /\ proc'[r].task = proc[r].task /\ proc[r].op # "none"
         /\ \/ proc'[r].pc = "unschedule"
            \/ proc[r].op = "limit" /\ (At(r, "unschedule") => Unschedule(r))
<1>1. r \in Procs /\ r \notin Clients /\ ProcInv /\ DOMAIN proc = Procs /\ proc[r] \in Frames
  BY ProcKinds DEF LifeInv, Core, ProcInv, FrameOK
<1>2. proc'[r].task = proc[r].task /\ proc[r].op # "none"
  BY <1>1, FrameMoves DEF Moves
<1>6. ~CommandFails(r)
  BY <1>1, CommandFailsFacts, DoneOK DEF Frames
<1>3. CASE RoutineStep(r)
  <2>1. proc[r].op = "limit"
    BY <1>1, <1>3, <1>6, RoutineTrack, DoneOK
  <2>2. At(r, "unschedule") => Unschedule(r)
    BY <1>3, <1>6, StepAt
  <2> QED BY <1>2, <2>1, <2>2
<1>4. CASE RunStep(r) /\ proc[r].op = "run"
  <2>1. RunCheck(r) \/ RunDockerFails(r) \/ RunRemove(r) \/ (RunWait(r) /\ box[BoxOf(r)] = Nil)
    BY <1>1, <1>4, <1>6, RunTrack
  <2>2. CASE RunRemove(r)
    <3>1. \/ proc'[r] = [proc[r] EXCEPT !.op = "limit", !.pc = "unschedule"]
          \/ proc'[r] = [proc[r] EXCEPT !.op = "stop", !.pc = "find"]
          \/ proc'[r] = Done(r)
      BY <1>1, <2>2 DEF RunRemove, Catch, Finish
    <3>2. Done(r).op = "none"
      BY <1>1, DoneOK
    <3> QED BY <1>1, <1>2, <3>1, <3>2 DEF Frames
  <2>3. CASE RunCheck(r)
    <3>1. proc'[r] = Done(r) \/ proc'[r] = After(r, proc[r], "check")
      BY <1>1, <2>3 DEF RunCheck, Finish, Advance, At
    <3>2. After(r, proc[r], "check") = [proc[r] EXCEPT !.pc = "run"]
      BY <1>4, AfterRun
    <3> QED BY <1>1, <1>4, <3>1, <3>2, DoneOK DEF Frames
  <2>4. CASE RunDockerFails(r)
    BY <1>1, <2>4 DEF RunDockerFails, Catch, Frames
  <2>5. CASE RunWait(r)
    BY <1>1, <1>4, <2>5 DEF RunWait, Catch, Frames
  <2> QED BY <2>1, <2>2, <2>3, <2>4, <2>5
<1>5. CASE RunStep(r) /\ proc[r].op # "run"
  <2>1. RemoveUnusedImage(r)
    BY <1>1, <1>2, <1>5, OpAt, StepsOf
       DEF RunStep, RunCheck, RunDocker, RunDockerFails, RunStart, RunWait, RunFinish, RunRemove,
           RunSettles, FrameStep, At
  <2>2. proc[r].op = "limit" /\ ~At(r, "unschedule")
    BY <1>1, <2>1, OpAt DEF RemoveUnusedImage, At
  <2> QED BY <1>2, <2>2
<1> QED BY <1>1, <1>3, <1>4, <1>5 DEF FrameStep

\* The close of a task stops its entry, which nothing starts again.
LEMMA LimitStaysOff ==
  ASSUME BuildNext, NEW r \in RunIds, proc'[r].op = "limit", proc'[r].pc # "unschedule"
  PROVE  Off(proc[r].task)'
<1>1. LifeInv /\ [LifeNext]_vars /\ ~Crash /\ server = "up" /\ BuildInv /\ OneBuild
  BY DEF BuildNext, BuildInv
<1>2. /\ proc[r].op = "limit" /\ proc'[r].task = proc[r].task
      /\ proc[r].pc = "unschedule" => Unschedule(r)
  <2>1. \A h : FrameOf(h).op = "run"
    BY DEF FrameOf
  <2>2. IdleProc.op = "none"
    BY DEF IdleProc
  <2>3. proc'[r] = proc[r] \/ FrameStep(r)
    BY <1>1, <2>1, <2>2, RunFrames
  <2>4. FrameStep(r) => /\ proc[r].op = "limit" /\ proc'[r].task = proc[r].task
                        /\ proc[r].pc = "unschedule" => Unschedule(r)
    BY <1>1, LimitTrack DEF At
  <2> QED BY <2>3, <2>4
<1>3. PICK t \in Labels : t = proc[r].task
  <2>1. r \in Procs /\ proc[r].pc \in Steps("limit")
    BY <1>1, <1>2, ProcKinds DEF LifeInv, Core, ProcInv, FrameOK
  <2> QED BY <1>1, <1>2, <2>1, StepsOf DEF LifeInv, Core, ProcInv, FrameOK
<1>4. Off(t)'
  <2>1. CASE proc[r].pc = "unschedule"
    <3>1. sched' = Scheduler!Stop(sched, t)
      BY <1>2, <1>3, <2>1 DEF Unschedule
    <3>2. sched \in [Labels -> {Nil} \cup Entries]
      BY <1>1 DEF LifeInv, Core, LifeTypeOK, Entries
    <3>3. CASE sched[t] = Nil
      BY <3>1, <3>3 DEF Scheduler!Stop, Scheduler!Exists, Off
    <3>4. CASE sched[t] # Nil
      <4>1. sched[t] \in Entries /\ sched'[t] = [sched[t] EXCEPT !.on = FALSE]
        BY <3>1, <3>2, <3>4 DEF Scheduler!Stop, Scheduler!Exists
      <4> QED BY <4>1 DEF Off, Entries
    <3> QED BY <3>3, <3>4
  <2>2. CASE proc[r].pc # "unschedule"
    <3>1. Off(t)
      BY <1>1, <1>2, <1>3, <2>2 DEF BuildInv
    <3>2. Built(t)
      BY <1>1, <1>2, <1>3, ExecutorBuilt
    <3>3. \A i \in DOMAIN builds : builds[i].task = t => ~BuildStart(i)
      BY <1>1, <3>2, BuiltIsDone DEF BuildStart
    <3> QED BY <1>1, <3>1, <3>3, StaysOff
  <2> QED BY <2>1, <2>2
<1> QED BY <1>2, <1>3, <1>4 DEF Off

\* Every step other than a crash keeps the builds in order.
LEMMA BuildInvStep ==
  ASSUME BuildNext
  PROVE  BuildInv'
<1>1. server' = "up" /\ Never("update")' /\ Never("delete")'
  BY ServerStaysUp
<1>2. OneBuild'
  BY OneBuildStep
<1>3. (\A i \in DOMAIN builds : BuildOK(i))'
  BY BuildsStayOK
<1>4. (\A p \in Callers : tick[p].pc # "idle" => Built(tick[p].task))'
  BY TicksBuilt
<1>5. (\A h \in AllHandles : Built(h.taskId))'
  BY HandlesBuilt
<1>6. (\A r \in RunIds : proc[r].op = "limit" /\ proc[r].pc # "unschedule" => Off(proc[r].task))'
  BY LimitStaysOff
<1> QED BY <1>1, <1>2, <1>3, <1>4, <1>5, <1>6 DEF BuildInv

\* Cron fires for a task only once its image is built, and the image is there
\* and of the configuration of the entry as long as cron may fire
\* (task-executor.service.ts, lines 32-59; task.service.ts, lines 101-126), when
\* tasks are not updated or deleted and the process does not crash.  The build of
\* the entry that an update removed starts the new one before its own build ends;
\* a delete, or the close of a task whose last run a crash interrupted, removes
\* the image between docker build and the start of the entry: the hypotheses
\* cannot be dropped.
THEOREM LifecycleStartedHasImage ==
  ASSUME "update" \notin Ops, "delete" \notin Ops, MaxBoot = 0
  PROVE  LifeSpec => []StartedEntryHasImage
<1>1. LifeInit => BuildInv
  <2> SUFFICES ASSUME LifeInit PROVE BuildInv
    OBVIOUS
  <2>1. \A x \in Procs : proc[x].op = "none" /\ proc[x].pc = "idle"
    BY DEF LifeInit, IdleProc
  <2>2. \A r \in RunIds : r \in Procs
    BY ProcKinds
  <2>3. DOMAIN builds = {} /\ \A t \in Labels : sched[t] = Nil
    BY DEF LifeInit
  <2>4. AllHandles = {}
    BY DEF LifeInit, AllHandles, Queue!EmptyQueue, Queue!Queued
  <2>5. \A p \in Callers : tick[p].pc = "idle"
    BY DEF LifeInit, NoTick
  <2>6. server = "up"
    BY DEF LifeInit
  <2> QED BY <2>1, <2>2, <2>3, <2>4, <2>5, <2>6 DEF BuildInv, OneBuild, Never
<1>2. LifeInv /\ BuildInv /\ [LifeNext]_vars => BuildInv'
  <2> SUFFICES ASSUME LifeInv, BuildInv, [LifeNext]_vars PROVE BuildInv'
    OBVIOUS
  <2>1. ~Crash
    BY DEF Crash, LifeInv, Core, ServerInv
  <2> QED BY <2>1, BuildInvStep DEF BuildNext
<1>3. LifeInv /\ BuildInv => StartedEntryHasImage
  <2> SUFFICES ASSUME LifeInv, BuildInv, NEW t \in Labels, sched[t] # Nil, sched[t].on
               PROVE  image[t] # Nil /\ builds[image[t]].config = sched[t].config
    BY DEF StartedEntryHasImage
  <2>1. PICK i \in DOMAIN builds : image[t] = i /\ builds[i].config = sched[t].config
    BY OnIsBuilt DEF Off
  <2>2. i \in Nat
    BY DEF LifeInv, Core, FreshInv
  <2> QED BY <2>1, <2>2, NilAssumption
<1> QED BY <1>1, <1>2, <1>3, LifeInvAlways, PTL DEF LifeSpec
=============================================================================
