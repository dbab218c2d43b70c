---------------------------- MODULE TaskLifecycle ----------------------------
(***************************************************************************)
(* The life of tasks and their runs: TaskService, TaskExecutorService and  *)
(* TaskRunService (src/plugins/task) over the cron scheduler, the task     *)
(* queue, the docker environment (src/workdir/contract) and the database,  *)
(* with the start of the server (src/server.ts) and crashes of it.         *)
(*                                                                         *)
(* The flows are the requests of clients, the ticks of cron, the executor  *)
(* functions of runs, the builds that scheduleExecutable dispatches, and   *)
(* the start-up.  They interleave at awaits: every query and every docker  *)
(* command is a step, and so is every stretch of code between two of them  *)
(* that touches the scheduler, the queue or the mutex.                     *)
(*                                                                         *)
(* Tables tasks and task_runs are those of RunRegistration (tasks, runs),  *)
(* extended here by the columns that registration does not look at.        *)
(***************************************************************************)
EXTENDS RunRegistration, SequencesExt

CONSTANTS Clients,         \* request handlers that may be active at once
          Ops,             \* the requests they make
          Names, Configs,  \* names and configurations that tasks may get
          Nil,             \* no row, entry, image, container, configuration
          MaxConcurrency,  \* of the task queue
          NaN,             \* see InMemoryTaskQueue
          Failures,        \* what may fail for no reason of prescott's
          MaxRequests,     \* bound: requests made
          MaxBuild,        \* bound: images built
          MaxBoot          \* bound: crashes

\* Task ids come from AUTOINCREMENT, and start-up goes through them in order.
ASSUME LabelsAssumption == Labels \subseteq Nat
ASSUME ProcsAssumption == Clients \cap Nat = {}
\* docker build and run, a run that has made its container already, the listing,
\* the stop or removal of a listed container, docker rmi, the update of a status.
ASSUME FailuresAssumption ==
  Failures \subseteq {"build", "run", "created", "ls", "child", "rmi", "status"}
\* What is absent is no row, entry, image or container.
ASSUME NilAssumption ==
  /\ Nil \notin Nat
  /\ Nil \notin [name : Names, active : BOOLEAN, config : Configs]
  /\ Nil \notin [on : BOOLEAN, config : Configs]
  /\ Nil \notin [state : {"running", "exited"}, code : {0, 1}, image : Nat]
ASSUME MaxBootAssumption == MaxBoot \in Nat
\* As in InMemoryTaskQueue.
ASSUME ConcurrencyAssumption ==
  (MaxConcurrency \in Nat \/ MaxConcurrency = NaN) /\ NaN \notin Nat

RunIds   == 1 .. MaxRunId
BuildIds == 1 .. MaxBuild
Boxes    == RunIds \X (0 .. MaxBoot)
Procs    == Clients \cup RunIds

VARIABLES row,       \* table tasks: name, active, config
          status,    \* table task_runs: status, by run id
          sched,     \* the scheduler's entries
          queue,     \* the task queue, its functions being run handles
          tick,      \* per caller: the cron callback
          proc,      \* per client and per run: its request or its executor
          builds,    \* the builds that were dispatched
          image,     \* docker: the image that carries the tag of a task
          box,       \* docker: the containers, named by run and boot
          server,    \* "down", "booting" or "up"
          toBoot,    \* the tasks start-up has not registered yet
          boots,     \* crashes so far
          requests   \* requests so far

dbVars     == <<row, status>>
memVars    == <<sched, queue, tick, proc, builds>>
dockerVars == <<image, box>>
serverVars == <<server, toBoot, boots, requests>>
vars == <<regVars, dbVars, memVars, dockerVars, serverVars>>

Scheduler == INSTANCE CronTaskScheduler WITH NoEntry <- Nil
Queue == INSTANCE InMemoryTaskQueue
           WITH Fns <- [taskId : Labels, runId : RunIds,
                        runRank : Nat \cup {Infinity}],
                taskQueue <- queue

Handle(r) == [taskId |-> r.taskId, runId |-> r.id, runRank |-> r.rank]
Handles(s) == [i \in DOMAIN s |-> Handle(s[i])]
HandleIn(q, r) == CHOOSE h \in q.executing : h.runId = r

NoTick == [pc |-> "idle", task |-> NoLabel, runId |-> 0, runRank |-> 0]

\* The frame of a client or a run: the routine it is in and its step, the task,
\* name and configuration it works with, the containers it still has to stop
\* or delete, and the exit code (0, or 1 for any other) of its container.
IdleProc == [op |-> "none", pc |-> "idle", task |-> NoLabel, name |-> Nil,
             config |-> Nil, children |-> {}, code |-> 0]

\* The steps of TaskService's methods, those of the services they call
\* included, in the order of the code.  "stop" is also what runTask does when
\* runTaskImpl throws, "limit" is the end of runTaskImpl after the last run.
Routine ==
  [create |-> <<"findName", "insert", "register">>,
   start  |-> <<"find", "register", "activate">>,
   stop   |-> <<"find", "deactivate", "unschedule", "list", "children", "pending">>,
   delete |-> <<"find", "unschedule", "list", "children", "image", "deleteRow">>,
   update |-> <<"find", "unschedule", "list", "children", "image", "register",
                "updateRow">>,
   run    |-> <<"check", "run", "start", "wait", "finish", "remove">>,
   limit  |-> <<"unschedule", "list", "children", "rmi", "deactivate">>]

\* A request answers, with success or an error; an executor function settles.
Done(x) == [IdleProc EXCEPT !.pc = IF x \in RunIds THEN "settle" ELSE "idle"]

\* The frame f of x after its step pc: at the routine's next step.
After(x, f, pc) ==
  LET steps == Routine[f.op]
      i == CHOOSE j \in DOMAIN steps : steps[j] = pc
  IN  IF i = Len(steps) THEN Done(x) ELSE [f EXCEPT !.pc = steps[i + 1]]

At(x, pc)  == proc[x].pc = pc
Advance(x) == proc' = [proc EXCEPT ![x] = After(x, @, @.pc)]
Finish(x)  == proc' = [proc EXCEPT ![x] = Done(x)]

\* runTaskImpl throws: the catch of runTask calls stopTask.
Catch(r) == proc' = [proc EXCEPT ![r].op = "stop", ![r].pc = "find"]

LifeInit ==
  /\ RegInit
  /\ row = [t \in Labels |-> Nil]
  /\ status = [r \in RunIds |-> "none"]
  /\ sched = [t \in Labels |-> Nil]
  /\ queue = Queue!EmptyQueue
  /\ tick = [p \in Callers |-> NoTick]
  /\ proc = [x \in Procs |-> IdleProc]
  /\ builds = <<>>
  /\ image = [t \in Labels |-> Nil]
  /\ box = [b \in Boxes |-> Nil]
  /\ server = "up" /\ toBoot = {} /\ boots = 0 /\ requests = 0

-----------------------------------------------------------------------------
(* The queue starts executor functions in the step that changes it.        *)

\* The frame of run r once q has started it.
Started(q, r) ==
  [IdleProc EXCEPT !.op = "run", !.pc = "check", !.task = HandleIn(q, r).taskId]

\* The queue becomes q and proc becomes pr, with the functions q starts.
QueueBecomes(q, pr) ==
  LET starting == {h.runId : h \in q.executing \ queue.executing}
  IN  /\ queue' = q
      /\ proc' = [x \in Procs |-> IF x \in starting THEN Started(q, x) ELSE pr[x]]

\* Mutant of ScheduleExecutable: node-cron starts the entry when it is made.
ScheduleExecutableStarted(t, config) ==
  IF Scheduler!Exists(sched, t)
    THEN UNCHANGED <<sched, builds>>
    ELSE /\ Len(builds) < MaxBuild
         /\ sched' = Scheduler!Start(Scheduler!Schedule(sched, t, config), t)
         /\ builds' = Append(builds, [task |-> t, config |-> config, pc |-> "build"])

(* TaskExecutorService.scheduleExecutable: nothing when the task has an    *)
(* entry; otherwise a stopped entry and a build that nobody waits for.     *)
ScheduleExecutable(t, config) ==
  IF Scheduler!Exists(sched, t)
    THEN UNCHANGED <<sched, builds>>
    ELSE /\ Len(builds) < MaxBuild
         /\ sched' = Scheduler!Schedule(sched, t, config)
         /\ builds' = Append(builds, [task |-> t, config |-> config, pc |-> "build"])

\* docker build: the tag of the task moves to the image built.  The command of
\* an orphan outlived the process that started it.
BuildImage(i) ==
  /\ builds[i].pc \in {"build", "orphan"}
  /\ image' = [image EXCEPT ![builds[i].task] = i]
  /\ builds' = [builds EXCEPT ![i].pc = IF @ = "build" THEN "start" ELSE "done"]
  /\ UNCHANGED <<regVars, dbVars, sched, queue, tick, proc, box, serverVars>>

\* The build fails; dispatchTask logs that and the entry stays stopped.  An
\* orphan may also have died with its process.
BuildFails(i) ==
  /\ \/ "build" \in Failures /\ builds[i].pc = "build"
     \/ builds[i].pc = "orphan"
  /\ builds' = [builds EXCEPT ![i].pc = "failed"]
  /\ UNCHANGED <<regVars, dbVars, sched, queue, tick, proc, dockerVars, serverVars>>

\* scheduler.start, after the build.
BuildStart(i) ==
  /\ builds[i].pc = "start"
  /\ sched' = Scheduler!Start(sched, builds[i].task)
  /\ builds' = [builds EXCEPT ![i].pc = "done"]
  /\ UNCHANGED <<regVars, dbVars, queue, tick, proc, dockerVars, serverVars>>

-----------------------------------------------------------------------------
(* Docker (external): contracts of the commands that the environment runs. *)

\* docker container ls: the running containers whose image has the task's tag.
Children(t) ==
  {b \in Boxes : /\ box[b] # Nil
                 /\ box[b].state = "running"
                 /\ image[t] # Nil
                 /\ box[b].image = image[t]}

\* docker stop: a running container exits with a signal's code.
Stopped(b) ==
  IF box[b] # Nil /\ box[b].state = "running"
    THEN [box EXCEPT ![b].state = "exited", ![b].code = 1] ELSE box

\* docker rm --force, docker rm of an exited container.
Removed(b) == [box EXCEPT ![b] = Nil]

\* The program in the container ends by itself or because of its ttl.
BoxExits(b) ==
  /\ box[b] # Nil /\ box[b].state = "running"
  /\ \E code \in {0, 1} :
       box' = [box EXCEPT ![b].state = "exited", ![b].code = code]
  /\ UNCHANGED <<regVars, dbVars, memVars, image, serverVars>>

-----------------------------------------------------------------------------
(* TaskService.buildTaskCallbackFn: a tick of cron.                        *)

\* node-cron calls the callback of a started entry; isTaskActive asks the row.
CronFires(p, t) ==
  /\ Scheduler!Exists(sched, t) /\ sched[t].on
  /\ tick[p].pc = "idle"
  /\ tick' = [tick EXCEPT ![p].pc = "check", ![p].task = t]
  /\ UNCHANGED <<regVars, dbVars, sched, queue, proc, builds, dockerVars, serverVars>>

Active(t) == t \in tasks /\ row[t].active

\* The answer of isTaskActive.
TickCheck(p) ==
  /\ tick[p].pc = "check"
  /\ tick' = [tick EXCEPT ![p] =
                IF Active(@.task) THEN [@ EXCEPT !.pc = "register"] ELSE NoTick]
  /\ UNCHANGED <<regVars, dbVars, sched, queue, proc, builds, dockerVars, serverVars>>

\* The tick waits for tryToRegister, unless the mutex has thrown.
TickInMutex(p) ==
  tick' = [tick EXCEPT ![p] = IF call'[p].phase = "thrown"
                                THEN NoTick ELSE [@ EXCEPT !.pc = "mutex"]]

\* Mutant of TickRegister: tryToRegister without its mutex.
TickRegisterUnlocked(p) ==
  /\ tick[p].pc = "register"
  /\ call' = [call EXCEPT ![p] = [label    |-> tick[p].task,
                                  phase    |-> "inside",
                                  retryIdx |-> 0]]
  /\ EnterIfLocked(p)
  /\ TickInMutex(p)
  /\ UNCHANGED <<lockedResources, tableVars, dbVars, sched, queue, proc, builds,
                 dockerVars, serverVars>>

TickRegister(p) ==
  /\ tick[p].pc = "register"
  /\ TryToRegister(p, tick[p].task)
  /\ TickInMutex(p)
  /\ UNCHANGED <<dbVars, sched, queue, proc, builds, dockerVars, serverVars>>

TickRetry(p) ==
  /\ RetryRegister(p)
  /\ TickInMutex(p)
  /\ UNCHANGED <<dbVars, sched, queue, proc, builds, dockerVars, serverVars>>

TickCount(p) ==
  /\ CountRuns(p)
  /\ UNCHANGED <<dbVars, memVars, dockerVars, serverVars>>

\* The row is inserted with status pending; the tick learns its id and rank.
TickCreate(p) ==
  /\ CreateRun(p)
  /\ status' = [status EXCEPT ![lastId'] = "pending"]
  /\ tick' = [tick EXCEPT ![p].runId = lastId',
                          ![p].runRank = Rank(body[p].runsCount)]
  /\ UNCHANGED <<row, sched, queue, proc, builds, dockerVars, serverVars>>

\* The foreign key refuses the row: the task was deleted meanwhile.
TickRefused(p) ==
  /\ body[p].stage = "create" /\ call[p].label \notin tasks
  /\ QueryRejects(p)
  /\ UNCHANGED <<dbVars, memVars, dockerVars, serverVars>>

\* tryToRegister settles: the run is enqueued, or there is no run left and
\* the entry is stopped, or the callback rejects.
TickReturn(p) ==
  /\ Return(p)
  /\ tick' = [tick EXCEPT ![p] = NoTick]
  /\ \/ /\ body[p].stage = "created"
        /\ QueueBecomes(Queue!Enqueued(queue,
                          [taskId  |-> tick[p].task,
                           runId   |-> tick[p].runId,
                           runRank |-> tick[p].runRank]), proc)
        /\ UNCHANGED sched
     \/ /\ body[p].stage = "denied"
        /\ sched' = Scheduler!Stop(sched, tick[p].task)
        /\ UNCHANGED <<queue, proc>>
     \/ /\ body[p].stage = "rejected"
        /\ UNCHANGED <<sched, queue, proc>>
  /\ UNCHANGED <<dbVars, builds, dockerVars, serverVars>>

TickStep(p) ==
  \/ TickCheck(p) \/ TickRegister(p) \/ TickRetry(p) \/ TickCount(p)
  \/ TickCreate(p) \/ TickRefused(p) \/ TickReturn(p)

-----------------------------------------------------------------------------
(* TaskService.runTask: the executor function of run r.                    *)

RowExists(r) == \E run \in runs : run.id = r
\* dao.update of task_runs touches no row when the run was deleted.
SetStatus(r, st) == status' = IF RowExists(r) THEN [status EXCEPT ![r] = st] ELSE status

\* The container of run r in this life of the process.
BoxOf(r) == <<r, boots>>

\* isTaskActive
RunCheck(r) ==
  /\ At(r, "check")
  /\ IF Active(proc[r].task) THEN Advance(r) ELSE Finish(r)
  /\ UNCHANGED <<regVars, dbVars, sched, queue, tick, builds, dockerVars, serverVars>>

\* runExecutable: docker run of the image that has the tag now.
RunDocker(r) ==
  /\ At(r, "run")
  /\ image[proc[r].task] # Nil
  /\ box' = [box EXCEPT ![BoxOf(r)] = [state |-> "running", code |-> 0,
                                      image |-> image[proc[r].task]]]
  /\ Advance(r)
  /\ UNCHANGED <<regVars, dbVars, sched, queue, tick, builds, image, serverVars>>

\* docker run fails, before or after it has made the container, which it leaves.
RunDockerFails(r) ==
  /\ At(r, "run")
  /\ \/ (image[proc[r].task] = Nil \/ "run" \in Failures) /\ UNCHANGED box
     \/ /\ image[proc[r].task] # Nil /\ "created" \in Failures
        /\ box' = [box EXCEPT ![BoxOf(r)] = [state |-> "exited", code |-> 1,
                                            image |-> image[proc[r].task]]]
  /\ Catch(r)
  /\ UNCHANGED <<regVars, dbVars, sched, queue, tick, builds, image, serverVars>>

\* runService.start
RunStart(r) ==
  /\ At(r, "start")
  /\ SetStatus(r, "running")
  /\ Advance(r)
  /\ UNCHANGED <<regVars, row, sched, queue, tick, builds, dockerVars, serverVars>>

\* Mutant of RunWait: an exit code other than 0 is an error of docker wait.
RunWaitThrows(r) ==
  /\ At(r, "wait")
  /\ box[BoxOf(r)] = Nil \/ box[BoxOf(r)].state = "exited"
  /\ IF box[BoxOf(r)] # Nil /\ box[BoxOf(r)].code = 0 THEN Advance(r) ELSE Catch(r)
  /\ UNCHANGED <<regVars, dbVars, sched, queue, tick, builds, dockerVars, serverVars>>

\* envHandle.wait: the exit code; a container removed meanwhile gives a
\* signal's code, or no code at all.
RunWait(r) ==
  /\ At(r, "wait")
  /\ \/ /\ box[BoxOf(r)] # Nil /\ box[BoxOf(r)].state = "exited"
        /\ proc' = [proc EXCEPT ![r].pc = "finish", ![r].code = box[BoxOf(r)].code]
     \/ /\ box[BoxOf(r)] = Nil
        /\ \/ proc' = [proc EXCEPT ![r].pc = "finish", ![r].code = 1]
           \/ Catch(r)
  /\ UNCHANGED <<regVars, dbVars, sched, queue, tick, builds, dockerVars, serverVars>>

\* runService.finish
RunFinish(r) ==
  /\ At(r, "finish")
  /\ SetStatus(r, IF proc[r].code = 0 THEN "succeed" ELSE "failed")
  /\ Advance(r)
  /\ UNCHANGED <<regVars, row, sched, queue, tick, builds, dockerVars, serverVars>>

\* Mutant of LastRank: the comparison is strict.
LastRankStrict(r) ==
  LET limit == Times[proc[r].task]
  IN  limit # NoLimit /\ HandleIn(queue, r).runRank > limit

\* No run of the task has a higher rank than this one may have.
LastRank(r) ==
  LET limit == Times[proc[r].task]
  IN  limit # NoLimit /\ HandleIn(queue, r).runRank >= limit

\* Mutant of RunRemove: a container that failed is kept.
RunRemoveKeepsFailed(r) ==
  /\ At(r, "remove")
  /\ box' = IF proc[r].code = 0 THEN Removed(BoxOf(r)) ELSE box
  /\ Finish(r)
  /\ UNCHANGED <<regVars, dbVars, sched, queue, tick, builds, image, serverVars>>

\* envHandle.delete, without force; then the test of the rank.
RunRemove(r) ==
  /\ At(r, "remove")
  /\ IF box[BoxOf(r)] = Nil
       THEN Catch(r) /\ UNCHANGED box
       ELSE /\ box' = Removed(BoxOf(r))
            /\ IF LastRank(r)
                 THEN proc' = [proc EXCEPT ![r].op = "limit", ![r].pc = "unschedule"]
                 ELSE Finish(r)
  /\ UNCHANGED <<regVars, dbVars, sched, queue, tick, builds, image, serverVars>>

\* deleteExecutableEnv: docker rmi without force.
RemoveUnusedImage(r) ==
  /\ At(r, "rmi")
  /\ LET t == proc[r].task
     IN  IF image[t] # Nil /\ \A b \in Boxes : box[b] # Nil => box[b].image # image[t]
           THEN image' = [image EXCEPT ![t] = Nil] /\ Advance(r)
           ELSE Catch(r) /\ UNCHANGED image
  /\ UNCHANGED <<regVars, dbVars, sched, queue, tick, builds, box, serverVars>>

\* The function settles; the queue starts the next one.
RunSettles(r) ==
  /\ At(r, "settle")
  /\ QueueBecomes(Queue!Settled(queue, HandleIn(queue, r)),
                  [proc EXCEPT ![r] = IdleProc])
  /\ UNCHANGED <<regVars, dbVars, sched, tick, builds, dockerVars, serverVars>>

RunStep(r) ==
  \/ RunCheck(r) \/ RunDocker(r) \/ RunDockerFails(r) \/ RunStart(r)
  \/ RunWait(r) \/ RunFinish(r) \/ RunRemove(r) \/ RemoveUnusedImage(r)
  \/ RunSettles(r)

-----------------------------------------------------------------------------
(* TaskService's requests, and the stop and limit routines of runs.        *)

\* A client calls a route; start-up is over, since the server listens.
Request(c) ==
  /\ At(c, "idle") /\ server = "up" /\ requests < MaxRequests
  /\ requests' = requests + 1
  /\ \/ /\ "create" \in Ops /\ unused # {}
        /\ \E name \in Names, config \in Configs :
             proc' = [proc EXCEPT ![c].op = "create", ![c].pc = "findName",
                                  ![c].name = name, ![c].config = config]
     \/ \E op \in Ops \cap {"start", "stop", "delete"}, t \in Labels \ unused :
          proc' = [proc EXCEPT ![c].op = op, ![c].pc = "find", ![c].task = t]
     \/ /\ "update" \in Ops
        /\ \E t \in Labels \ unused, config \in Configs :
             proc' = [proc EXCEPT ![c].op = "update", ![c].pc = "find",
                                  ![c].task = t, ![c].config = config]
  /\ UNCHANGED <<regVars, dbVars, sched, queue, tick, builds, dockerVars,
                 server, toBoot, boots>>

NameTaken(name) == \E t \in tasks : row[t].name = name

\* createTask: findByName.
FindName(c) ==
  /\ At(c, "findName")
  /\ IF NameTaken(proc[c].name) THEN Finish(c) ELSE Advance(c)
  /\ UNCHANGED <<regVars, dbVars, sched, queue, tick, builds, dockerVars, serverVars>>

\* createTask: dao.create, which the unique name may refuse.
InsertRow(c) ==
  /\ At(c, "insert")
  /\ IF NameTaken(proc[c].name)
       THEN Finish(c) /\ UNCHANGED <<regVars, row>>
       ELSE \E t \in unused :
              /\ \A u \in unused : t <= u
              /\ InsertTask(t)
              /\ row' = [row EXCEPT ![t] = [name   |-> proc[c].name,
                                           active |-> TRUE,
                                           config |-> proc[c].config]]
              /\ proc' = [proc EXCEPT ![c] = After(c, [@ EXCEPT !.task = t], "insert")]
  /\ UNCHANGED <<status, sched, queue, tick, builds, dockerVars, serverVars>>

\* findByIdThrowable and the test of `active` that follows it.
Find(x) ==
  /\ At(x, "find")
  /\ LET t == proc[x].task
         op == proc[x].op
         f == IF op = "start" THEN [proc[x] EXCEPT !.config = row[t].config]
                              ELSE proc[x]
     IN  IF \/ t \notin tasks
            \/ op = "stop" /\ ~row[t].active
            \/ op \in {"start", "delete"} /\ row[t].active
           THEN Finish(x)
           ELSE proc' = [proc EXCEPT ![x] = After(x, f, "find")]
  /\ UNCHANGED <<regVars, dbVars, sched, queue, tick, builds, dockerVars, serverVars>>

\* dao.setActive touches no row when the task was deleted.
SetActive(t, active) ==
  row' = IF t \in tasks THEN [row EXCEPT ![t].active = active] ELSE row

Deactivate(x) ==
  /\ At(x, "deactivate")
  /\ SetActive(proc[x].task, FALSE)
  /\ Advance(x)
  /\ UNCHANGED <<regVars, status, sched, queue, tick, builds, dockerVars, serverVars>>

Activate(x) ==
  /\ At(x, "activate")
  /\ SetActive(proc[x].task, TRUE)
  /\ Advance(x)
  /\ UNCHANGED <<regVars, status, sched, queue, tick, builds, dockerVars, serverVars>>

\* Mutants of Unschedule: stopExecutable, too, deletes the entry; deleteExecutable,
\* too, only stops it.
UnscheduleDeletes(x) ==
  /\ At(x, "unschedule")
  /\ sched' = Scheduler!Delete(sched, proc[x].task)
  /\ Advance(x)
  /\ UNCHANGED <<regVars, dbVars, queue, tick, builds, dockerVars, serverVars>>
UnscheduleStops(x) ==
  /\ At(x, "unschedule")
  /\ sched' = Scheduler!Stop(sched, proc[x].task)
  /\ Advance(x)
  /\ UNCHANGED <<regVars, dbVars, queue, tick, builds, dockerVars, serverVars>>

\* stopExecutable stops the entry, deleteExecutable deletes it.
Unschedule(x) ==
  /\ At(x, "unschedule")
  /\ sched' = IF proc[x].op \in {"delete", "update"}
                THEN Scheduler!Delete(sched, proc[x].task)
                ELSE Scheduler!Stop(sched, proc[x].task)
  /\ Advance(x)
  /\ UNCHANGED <<regVars, dbVars, queue, tick, builds, dockerVars, serverVars>>

\* callForAllChildren: the containers that the callback will be called for.
ListChildren(x) ==
  /\ At(x, "list")
  /\ LET C == Children(proc[x].task)
     IN  proc' = [proc EXCEPT ![x] =
                    IF C = {} THEN After(x, @, "children")
                              ELSE [@ EXCEPT !.pc = "children", !.children = C]]
  /\ UNCHANGED <<regVars, dbVars, sched, queue, tick, builds, dockerVars, serverVars>>

\* docker stop, or docker rm --force, of one of them; all were issued at once,
\* and allSettled waits for the last, whether they succeed or fail.
HandleChild(x, b) ==
  /\ At(x, "children") /\ b \in proc[x].children
  /\ \/ box' = IF proc[x].op \in {"delete", "update"} THEN Removed(b) ELSE Stopped(b)
     \/ "child" \in Failures /\ UNCHANGED box
  /\ LET f == [proc[x] EXCEPT !.children = @ \ {b}]
     IN  proc' = [proc EXCEPT ![x] = IF f.children = {} THEN After(x, f, "children") ELSE f]
  /\ UNCHANGED <<regVars, dbVars, sched, queue, tick, builds, image, serverVars>>

\* stopTask: runService.stopAll.
StopPending(x) ==
  /\ At(x, "pending")
  /\ status' = [r \in RunIds |->
                  IF status[r] = "pending" /\ \E run \in RunsOf(proc[x].task) : run.id = r
                    THEN "stopped" ELSE status[r]]
  /\ Advance(x)
  /\ UNCHANGED <<regVars, row, sched, queue, tick, builds, dockerVars, serverVars>>

\* deleteExecutable: docker rmi --force, which a missing image does not stop.
RemoveImage(x) ==
  /\ At(x, "image")
  /\ image' = [image EXCEPT ![proc[x].task] = Nil]
  /\ Advance(x)
  /\ UNCHANGED <<regVars, dbVars, sched, queue, tick, builds, box, serverVars>>

\* register, or the second half of updateExecutable.
Register(x) ==
  /\ At(x, "register")
  /\ ScheduleExecutable(proc[x].task, proc[x].config)
  /\ Advance(x)
  /\ UNCHANGED <<regVars, dbVars, queue, tick, dockerVars, serverVars>>

\* updateTask: dao.update.
UpdateRow(x) ==
  /\ At(x, "updateRow")
  /\ row' = IF proc[x].task \in tasks
              THEN [row EXCEPT ![proc[x].task].config = proc[x].config] ELSE row
  /\ Advance(x)
  /\ UNCHANGED <<regVars, status, sched, queue, tick, builds, dockerVars, serverVars>>

\* deleteTask: dao.delete.
DeleteRow(x) ==
  /\ At(x, "deleteRow")
  /\ LET t == proc[x].task
     IN  IF t \in tasks
           THEN /\ DeleteTask(t)
                /\ row' = [row EXCEPT ![t] = Nil]
                /\ status' = [r \in RunIds |-> IF \E run \in RunsOf(t) : run.id = r
                                                THEN "none" ELSE status[r]]
           ELSE UNCHANGED <<regVars, row, status>>
  /\ Advance(x)
  /\ UNCHANGED <<sched, queue, tick, builds, dockerVars, serverVars>>

\* A command or a query rejects that nothing but the catch of runTask expects: a
\* request and a stopTask end with the error where they are, runTaskImpl is caught.
CommandFails(x) ==
  /\ \/ At(x, "list") /\ "ls" \in Failures
     \/ (At(x, "image") \/ At(x, "rmi")) /\ "rmi" \in Failures
     \/ (At(x, "start") \/ At(x, "finish")) /\ "status" \in Failures
  /\ IF proc[x].op \in {"run", "limit"} THEN Catch(x) ELSE Finish(x)
  /\ UNCHANGED <<regVars, dbVars, sched, queue, tick, builds, dockerVars, serverVars>>

RoutineStep(x) ==
  \/ Find(x) \/ Deactivate(x) \/ Activate(x) \/ Unschedule(x)
  \/ ListChildren(x) \/ (\E b \in Boxes : HandleChild(x, b))
  \/ StopPending(x) \/ RemoveImage(x) \/ Register(x)
  \/ UpdateRow(x) \/ DeleteRow(x) \/ CommandFails(x)

-----------------------------------------------------------------------------
(* Crashes, and server.ts: registerFromDatabase, then listen.              *)

\* Everything in memory is lost, what was to follow a build included; the
\* database and docker's images and containers stay.
Crash ==
  /\ server # "down" /\ boots < MaxBoot
  /\ LoseMemory
  /\ sched' = [t \in Labels |-> Nil]
  /\ queue' = Queue!EmptyQueue
  /\ tick' = [p \in Callers |-> NoTick]
  /\ proc' = [x \in Procs |-> IdleProc]
  /\ builds' = [i \in DOMAIN builds |->
                  [builds[i] EXCEPT !.pc = CASE @ = "build" -> "orphan"
                                             [] @ = "start" -> "done"
                                             [] OTHER -> @]]
  /\ server' = "down" /\ toBoot' = {} /\ boots' = boots + 1
  /\ UNCHANGED <<dbVars, dockerVars, requests>>

\* findAllByActive(true)
BootList ==
  /\ server = "down"
  /\ server' = "booting"
  /\ toBoot' = {t \in tasks : row[t].active}
  /\ UNCHANGED <<regVars, dbVars, memVars, dockerVars, boots, requests>>

RankLeq(a, b) == b = Infinity \/ (a # Infinity /\ a <= b)

\* Mutants of PendingRuns: in any order; with any status.
PendingRunsUnordered(t) ==
  SetToSeqs({r \in RunsOf(t) : status[r.id] = "pending"})
PendingRunsAny(t) ==
  {s \in [1 .. Cardinality(RunsOf(t)) -> RunsOf(t)] :
     \A i, j \in DOMAIN s : i < j => s[i] # s[j] /\ RankLeq(s[i].rank, s[j].rank)}

\* What findAllByTaskIdAndStatus(t, "pending") may answer: ordered by rank.
PendingRuns(t) ==
  LET S == {r \in RunsOf(t) : status[r.id] = "pending"}
  IN  {s \in [1 .. Cardinality(S) -> S] :
         \A i, j \in DOMAIN s : i < j => s[i] # s[j] /\ RankLeq(s[i].rank, s[j].rank)}

\* Mutants of BootTask: register first, so that cron fires before the query;
\* no enqueuePendingRuns at all.
BootTaskRegistersFirst ==
  /\ server = "booting"
  /\ \E t \in toBoot :
       IF Scheduler!Exists(sched, t)
         THEN /\ \E s \in PendingRuns(t) :
                   QueueBecomes(Queue!EnqueuedAll(queue, Handles(s)), proc)
              /\ toBoot' = toBoot \ {t}
              /\ UNCHANGED <<sched, builds>>
         ELSE /\ ScheduleExecutable(t, row[t].config)
              /\ UNCHANGED <<queue, proc, toBoot>>
  /\ UNCHANGED <<regVars, dbVars, tick, dockerVars, server, boots, requests>>
BootTaskForgetsPending ==
  /\ server = "booting"
  /\ \E t \in toBoot :
       /\ ScheduleExecutable(t, row[t].config)
       /\ toBoot' = toBoot \ {t}
  /\ UNCHANGED <<regVars, dbVars, queue, proc, tick, dockerVars, server, boots, requests>>

\* One round of the loop: enqueuePendingRuns and register.  No other flow
\* has a pending run of this task, so its query is part of the step.
BootTask ==
  /\ server = "booting"
  /\ \E t \in toBoot :
       /\ \A u \in toBoot : t <= u
       /\ \E s \in PendingRuns(t) :
            QueueBecomes(Queue!EnqueuedAll(queue, Handles(s)), proc)
       /\ ScheduleExecutable(t, row[t].config)
       /\ toBoot' = toBoot \ {t}
  /\ UNCHANGED <<regVars, dbVars, tick, dockerVars, server, boots, requests>>

Listen ==
  /\ server = "booting" /\ toBoot = {}
  /\ server' = "up"
  /\ UNCHANGED <<regVars, dbVars, memVars, dockerVars, toBoot, boots, requests>>

BootStep == BootList \/ BootTask \/ Listen
BuildStep(i) == BuildImage(i) \/ BuildFails(i) \/ BuildStart(i)

LifeNext ==
  \/ \E p \in Callers, t \in Labels : CronFires(p, t)
  \/ \E p \in Callers : TickStep(p)
  \/ \E c \in Clients : Request(c) \/ FindName(c) \/ InsertRow(c)
  \/ \E x \in Procs : RoutineStep(x)
  \/ \E r \in RunIds : RunStep(r)
  \/ \E i \in DOMAIN builds : BuildStep(i)
  \/ \E b \in Boxes : BoxExits(b)
  \/ BootStep
  \/ Crash

LifeSpec == LifeInit /\ [][LifeNext]_vars

\* What the event loop and docker owe: a query or a command that was issued
\* ends and its flow goes on, cron fires a started entry again and again, and
\* the program in a container ends, if not by itself then because of its ttl.
\* Clients owe nothing, and neither do crashes.
Fairness ==
  /\ \A p \in Callers : WF_vars(TickStep(p))
  /\ \A c \in Clients : WF_vars(FindName(c) \/ InsertRow(c))
  /\ \A x \in Procs : WF_vars(RoutineStep(x))
  /\ \A r \in RunIds : WF_vars(RunStep(r))
  /\ \A i \in BuildIds : WF_vars(i \in DOMAIN builds /\ BuildStep(i))
  /\ \A b \in Boxes : WF_vars(BoxExits(b))
  /\ \A t \in Labels : WF_vars(\E p \in Callers : CronFires(p, t))
  /\ WF_vars(BootStep)

FairLifeSpec == LifeSpec /\ Fairness

-----------------------------------------------------------------------------
\* Type invariant of what this module adds to RunRegistration.
LifeTypeOK ==
  /\ RegTypeOK
  /\ row \in [Labels -> {Nil} \cup
                 [name : Names, active : BOOLEAN, config : Configs]]
  /\ status \in [RunIds -> {"none", "pending", "running", "succeed", "failed",
                             "stopped"}]
  /\ sched \in [Labels -> {Nil} \cup [on : BOOLEAN, config : Configs]]
  /\ Queue!TypeOK
  /\ \A i \in DOMAIN builds :
       builds[i] \in [task : Labels, config : Configs,
                      pc : {"build", "orphan", "start", "done", "failed"}]
  /\ image \in [Labels -> {Nil} \cup DOMAIN builds]
  /\ box \in [Boxes -> {Nil} \cup
                 [state : {"running", "exited"}, code : {0, 1}, image : DOMAIN builds]]
  /\ \A t \in Labels : row[t] # Nil <=> t \in tasks

\* Every flow, request, restart and crash of the system respects the rules of
\* registration: the limit and the ranks of a task hold in the whole system.
ImplementsRegistration == RegSpec

\* A run is in the line of the queue once, and not while it executes: no
\* sequence of ticks, boots and ends makes the server execute a run twice.
RunQueuedOnce ==
  /\ \A i, j \in DOMAIN queue.queue :
       queue.queue[i].runId = queue.queue[j].runId => i = j
  /\ \A h \in queue.executing, i \in DOMAIN queue.queue :
       h.runId # queue.queue[i].runId

\* The runs of a limited task are started in the order of their ranks, so the
\* run that closes the task is the last to be started.
StartedInRankOrder ==
  \A j \in DOMAIN queue.queue :
    LET h == queue.queue[j]
    IN  h.taskId \in Limited =>
          /\ \A i \in 1 .. j - 1 :
               queue.queue[i].taskId = h.taskId => queue.queue[i].runRank < h.runRank
          /\ \A e \in queue.executing : e.taskId = h.taskId => e.runRank < h.runRank

\* Unless docker run fails halfway or the update of a status rejects, no way
\* through runTask leaves a container of this life of the server behind: as long as
\* it exists, its run is on the way to deleting it.
NoContainerLeak ==
  \A r \in RunIds :
    box[BoxOf(r)] # Nil
      => proc[r].op = "run" /\ proc[r].pc \in {"start", "wait", "finish", "remove"}

\* The result of a run, once written, is never changed, whatever is stopped,
\* restarted or retried afterwards; only deleting the task removes it.
ResultIsFinal ==
  [][\A r \in RunIds :
       status[r] \in {"succeed", "failed"}
         => status'[r] = status[r] \/ ~RowExists(r)']_vars

\* Nothing is under way: no request, tick, run, build or start-up.
Quiet ==
  /\ server = "up"
  /\ \A p \in Callers : tick[p].pc = "idle"
  /\ \A x \in Procs : proc[x].pc = "idle"
  /\ \A i \in DOMAIN builds : builds[i].pc \in {"done", "failed"}

\* When nothing is under way, no run is marked as running, although listings, stops
\* and removals of containers may have failed on the way.
NoZombieRun == Quiet => \A r \in RunIds : status[r] # "running"

\* When nothing is under way, the entry of a task is for a task that exists and
\* was scheduled with the configuration that its row has.
EntryMatchesRow ==
  Quiet => \A t \in Labels :
    sched[t] # Nil => t \in tasks /\ sched[t].config = row[t].config

\* When nothing is under way, an active task has an entry, unless an update or a
\* delete has failed between the removal of the old one and its end.
ActiveHasEntry ==
  Quiet => \A t \in tasks : row[t].active => sched[t] # Nil

\* A pending run of an active task is never forgotten: once the server is up
\* it is queued, or executing, or held by the tick that created it.
PendingIsHeld ==
  server = "up" =>
    \A r \in runs :
      status[r.id] = "pending" /\ row[r.taskId].active =>
        \/ Handle(r) \in Queue!Queued(queue) \cup queue.executing
        \/ \E p \in Callers : tick[p].pc = "mutex" /\ tick[p].runId = r.id

\* A started entry fires runs of an image that was built, with the
\* configuration of the entry.
StartedEntryHasImage ==
  \A t \in Labels :
    sched[t] # Nil /\ sched[t].on
      => image[t] # Nil /\ builds[image[t]].config = sched[t].config

\* An active task whose limit leaves a run is scheduled.
ActiveIsScheduled ==
  Quiet => \A t \in tasks :
    row[t].active /\ (t \in Limited => Cardinality(RunsOf(t)) < Times[t])
      => sched[t] # Nil /\ sched[t].on

\* A limited task is closed at last: its runs are made, one tick after the
\* other, the last one ends, and the row becomes inactive.
LimitedTaskCloses ==
  \A t \in Limited : t \in tasks ~> t \in tasks /\ ~row[t].active
=============================================================================
