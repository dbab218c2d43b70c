------------------------- MODULE TaskLifecycleProofs -------------------------
(***************************************************************************)
(* Proofs about the whole system, for every number of tasks, ticks,        *)
(* clients, requests, builds and crashes that the constants allow.         *)
(*                                                                         *)
(* First: the system implements the registration of runs. No step of any   *)
(* flow touches the mutex, the tables tasks and task_runs or a registering *)
(* function in a way that RunRegistration does not have, so what is proved *)
(* about registration is proved about the system.                          *)
(*                                                                         *)
(* Then the inductive invariant LifeInv: RegInv of registration, Balanced  *)
(* of the queue, and Core: each flow is at a step of its routine and has   *)
(* what its later steps need (ProcInv), ids in memory agree with the rows  *)
(* (IdsInv), a run is in one place (PlaceInv), a function executes exactly *)
(* if it has a frame (ExecInv), and nothing of a task that the start-up    *)
(* still has to schedule is in memory (ServerInv). Its proof goes by what  *)
(* a step is: WhoChangesWhat names the actions that change each variable,  *)
(* Moves says what a step of a flow makes of its frame, Serve and          *)
(* EventLive what an event of the queue makes of the line and of the       *)
(* frames of runs.                                                         *)
(*                                                                         *)
(* TaskLifecyclePropertiesProofs goes on from there.                      *)
(***************************************************************************)
EXTENDS TaskLifecycle, RunRegistrationProofs, SequenceTheorems

\* A tick that is past cron and not yet in the mutex works for a task.
TickOK ==
  /\ DOMAIN tick = Callers
  /\ \A p \in Callers :
       /\ DOMAIN tick[p] = {"pc", "task", "runId", "runRank"}
       /\ tick[p].pc \in {"check", "register"} => tick[p].task \in Labels

\* No tick is in flight when the process starts for the first time.
LEMMA TickInit == LifeInit => TickOK
BY DEF LifeInit, TickOK, NoTick

\* Steps of a tick other than cron's leave its task alone or reset it.
LEMMA TickStepKeepsTick ==
  ASSUME TickOK, NEW p \in Callers, TickStep(p)
  PROVE  TickOK'
<1>1. CASE TickCheck(p)
  BY <1>1 DEF TickOK, TickCheck, NoTick
<1>2. CASE TickInMutex(p)
  BY <1>2 DEF TickOK, TickInMutex, NoTick
<1>3. CASE UNCHANGED tick
  BY <1>3 DEF TickOK
<1>4. CASE TickCreate(p)
  <2>1. tick[p].pc \notin {"check", "register"} \/ tick[p].task \in Labels
    BY DEF TickOK
  <2> QED BY <1>4, <2>1 DEF TickOK, TickCreate
<1>5. CASE TickReturn(p)
  BY <1>5 DEF TickOK, TickReturn, NoTick
<1> QED BY <1>1, <1>2, <1>3, <1>4, <1>5
        DEF TickStep, TickRegister, TickRetry, TickCount, TickRefused, memVars

\* Every step of the system keeps what the registration relies on of the ticks.
LEMMA LifeStepKeepsTick == TickOK /\ [LifeNext]_vars => TickOK'
<1> SUFFICES ASSUME TickOK, [LifeNext]_vars PROVE TickOK'
  OBVIOUS
<1>1. CASE \E p \in Callers, t \in Labels : CronFires(p, t)
  BY <1>1 DEF CronFires, TickOK
<1>2. CASE \E p \in Callers : TickStep(p)
  BY <1>2, TickStepKeepsTick
<1>3. CASE Crash
  BY <1>3 DEF Crash, TickOK, NoTick
<1>4. CASE UNCHANGED tick
  BY <1>4 DEF TickOK
<1>5. ASSUME NEW c \in Clients, Request(c) \/ FindName(c) \/ InsertRow(c)
      PROVE  UNCHANGED tick
  BY <1>5 DEF Request, FindName, InsertRow
<1>6. ASSUME NEW x \in Procs, RoutineStep(x)
      PROVE  UNCHANGED tick
  BY <1>6 DEF RoutineStep, Find, Deactivate, Activate, Unschedule, ListChildren,
              HandleChild, StopPending, RemoveImage, Register, UpdateRow, DeleteRow,
              CommandFails
<1>7. ASSUME NEW r \in RunIds, RunStep(r)
      PROVE  UNCHANGED tick
  BY <1>7 DEF RunStep, RunCheck, RunDocker, RunDockerFails, RunStart, RunWait,
              RunFinish, RunRemove, RemoveUnusedImage, RunSettles
<1>8. ASSUME NEW i \in DOMAIN builds, BuildStep(i)
      PROVE  UNCHANGED tick
  BY <1>8 DEF BuildStep, BuildImage, BuildFails, BuildStart
<1>9. ASSUME NEW b \in Boxes, BoxExits(b)
      PROVE  UNCHANGED tick
  BY <1>9 DEF BoxExits, memVars
<1>10. ASSUME BootStep
       PROVE  UNCHANGED tick
  BY <1>10 DEF BootStep, BootList, BootTask, Listen, memVars
<1>11. ASSUME UNCHANGED vars
       PROVE  UNCHANGED tick
  BY <1>11 DEF vars, memVars
<1> QED BY <1>1, <1>2, <1>3, <1>4, <1>5, <1>6, <1>7, <1>8, <1>9, <1>10, <1>11
        DEF LifeNext

\* A tick's step is a step of registration, or registration does not see it.
LEMMA TickStepRegisters ==
  ASSUME TickOK, NEW p \in Callers, TickStep(p)
  PROVE  [RegNext]_regVars
<1>1. CASE TickCheck(p)
  BY <1>1 DEF TickCheck
<1>2. CASE TickRegister(p)
  BY <1>2 DEF TickRegister, TickOK, RegNext
<1>3. CASE TickRetry(p)
  BY <1>3 DEF TickRetry, RegNext
<1>4. CASE TickCount(p)
  BY <1>4 DEF TickCount, RegNext
<1>5. CASE TickCreate(p)
  BY <1>5 DEF TickCreate, RegNext
<1>6. CASE TickRefused(p)
  BY <1>6 DEF TickRefused, RegNext
<1>7. CASE TickReturn(p)
  BY <1>7 DEF TickReturn, RegNext
<1> QED BY <1>1, <1>2, <1>3, <1>4, <1>5, <1>6, <1>7 DEF TickStep

\* Every step of the system is a step of registration, or changes nothing of it.
LEMMA LifeStepRegisters == TickOK /\ [LifeNext]_vars => [RegNext]_regVars
<1> SUFFICES ASSUME TickOK, [LifeNext]_vars PROVE [RegNext]_regVars
  OBVIOUS
<1>1. CASE \E p \in Callers, t \in Labels : CronFires(p, t)
  BY <1>1 DEF CronFires
<1>2. CASE \E p \in Callers : TickStep(p)
  BY <1>2, TickStepRegisters
<1>3. ASSUME NEW c \in Clients, Request(c) \/ FindName(c) \/ InsertRow(c)
      PROVE  [RegNext]_regVars
  <2>1. CASE Request(c) \/ FindName(c)
    BY <2>1 DEF Request, FindName
  <2>2. CASE InsertRow(c)
    BY <2>2 DEF InsertRow, RegNext
  <2> QED BY <1>3, <2>1, <2>2
<1>4. ASSUME NEW x \in Procs, RoutineStep(x)
      PROVE  [RegNext]_regVars
  <2>1. CASE DeleteRow(x)
    BY <2>1 DEF DeleteRow, RegNext
  <2>2. CASE ~DeleteRow(x)
    BY <1>4, <2>2
       DEF RoutineStep, Find, Deactivate, Activate, Unschedule, ListChildren,
           HandleChild, StopPending, RemoveImage, Register, UpdateRow, CommandFails
  <2> QED BY <2>1, <2>2
<1>5. ASSUME NEW r \in RunIds, RunStep(r)
      PROVE  UNCHANGED regVars
  BY <1>5 DEF RunStep, RunCheck, RunDocker, RunDockerFails, RunStart, RunWait,
              RunFinish, RunRemove, RemoveUnusedImage, RunSettles
<1>6. ASSUME NEW i \in DOMAIN builds, BuildStep(i)
      PROVE  UNCHANGED regVars
  BY <1>6 DEF BuildStep, BuildImage, BuildFails, BuildStart
<1>7. ASSUME NEW b \in Boxes, BoxExits(b)
      PROVE  UNCHANGED regVars
  BY <1>7 DEF BoxExits
<1>8. ASSUME BootStep
      PROVE  UNCHANGED regVars
  BY <1>8 DEF BootStep, BootList, BootTask, Listen
<1>9. CASE Crash
  BY <1>9 DEF Crash, RegNext
<1>10. CASE UNCHANGED vars
  BY <1>10 DEF vars
<1> QED BY <1>1, <1>2, <1>3, <1>4, <1>5, <1>6, <1>7, <1>8, <1>9, <1>10 DEF LifeNext

\* Every flow, request, restart and crash of the system respects the rules of
\* registration (task-run.service.ts, lines 68-96).
THEOREM LifecycleImplementsRegistration == LifeSpec => ImplementsRegistration
<1>1. LifeInit => RegInit /\ TickOK
  BY TickInit DEF LifeInit
<1>2. TickOK /\ [LifeNext]_vars => TickOK' /\ [RegNext]_regVars
  BY LifeStepKeepsTick, LifeStepRegisters
<1> QED BY <1>1, <1>2, PTL DEF LifeSpec, ImplementsRegistration, RegSpec

\* A limited task never gets more runs than its `times` in the whole system:
\* not by overlapping ticks, updates, restarts, crashes or a deletion.
THEOREM LifecycleKeepsLimit == LifeSpec => []RunLimit
BY LifecycleImplementsRegistration, RegistrationKeepsLimit DEF ImplementsRegistration

\* The runs of a limited task are ranked 1..n in the whole system, which the
\* close of the task after the last rank relies on.
THEOREM LifecycleRanks == LifeSpec => []RanksConsecutive
BY LifecycleImplementsRegistration, RegistrationRanks DEF ImplementsRegistration

-----------------------------------------------------------------------------
(* The inductive invariant of the whole system.                            *)

\* What the queue holds of a run.
RunHandles == [taskId : Labels, runId : RunIds, runRank : Nat \cup {Infinity}]

\* The steps of a routine, all names of steps, and the frames of all flows.
Steps(op) == {Routine[op][i] : i \in DOMAIN Routine[op]}

StepNames == {"idle", "settle"} \cup UNION {Steps(op) : op \in DOMAIN Routine}

Frames == [op : {"none"} \cup DOMAIN Routine, pc : StepNames,
           task : Labels \cup {NoLabel}, name : Names \cup {Nil},
           config : Configs \cup {Nil}, children : SUBSET Boxes, code : {0, 1}]

\* A frame is at a step of its routine and has what its later steps need.
FrameOK(f, fresh) ==
  /\ f \in Frames
  /\ IF f.op = "none" THEN f.pc \in {"idle", "settle"} ELSE f.pc \in Steps(f.op)
  /\ f.op # "none" /\ f.pc \notin {"findName", "insert"} => f.task \in Labels \ fresh
  /\ f.op = "create" => f.name \in Names
  /\ \/ f.op \in {"create", "update"}
     \/ f.op = "start" /\ f.pc # "find"
     => f.config \in Configs

\* Clients serve requests, executors serve a run or what ends it.
ProcInv ==
  /\ DOMAIN proc = Procs
  /\ \A x \in Procs : FrameOK(proc[x], unused)
  /\ \A c \in Clients : proc[c].op \notin {"run", "limit"} /\ proc[c].pc # "settle"
  /\ \A r \in RunIds : proc[r].op \in {"none", "run", "stop", "limit"}

\* A tick works for a task that was created, and asks the mutex for its label.
TickInv ==
  /\ tick \in [Callers -> [pc : {"idle", "check", "register", "mutex"},
                           task : Labels \cup {NoLabel}, runId : Nat,
                           runRank : Nat \cup {Infinity}]]
  /\ \A p \in Callers :
       /\ tick[p].pc # "idle" => tick[p].task \in Labels \ unused
       /\ call[p].phase \in {"waiting", "inside"} <=> tick[p].pc = "mutex"
       /\ tick[p].pc = "mutex" => call[p].label = tick[p].task

\* p holds a run that it has created and not enqueued yet.
Holds(p) == body[p].stage = "created"
Held(p) == [taskId |-> tick[p].task, runId |-> tick[p].runId, runRank |-> tick[p].runRank]

\* The handles of all runs in memory: in the line or executing.
AllHandles == Queue!Queued(queue) \cup queue.executing

\* Ids are unique, and what is in memory of a run agrees with its row.
IdsInv ==
  /\ lastId \in 0 .. MaxRunId
  /\ \A a, b \in runs : a.id = b.id => a = b
  /\ \A h \in AllHandles \cup {Held(p) : p \in {q \in Callers : Holds(q)}} :
       /\ h.runId \in 1 .. lastId
       /\ h.taskId \in Labels \ unused
       /\ \A run \in runs : run.id = h.runId => Handle(run) = h

\* A run is in one place.
PlaceInv ==
  /\ RunQueuedOnce
  /\ \A g, h \in queue.executing : g.runId = h.runId => g = h
  /\ \A p \in Callers : Holds(p) =>
       /\ \A h \in AllHandles : h.runId # tick[p].runId
       /\ \A q \in Callers : Holds(q) /\ tick[p].runId = tick[q].runId => p = q

\* The executing functions of the queue are those that have a frame.
ExecInv ==
  /\ \A h \in queue.executing :
       /\ proc[h.runId].pc # "idle"
       /\ proc[h.runId].op # "none" => proc[h.runId].task = h.taskId
  /\ \A r \in RunIds : proc[r].pc # "idle" => \E h \in queue.executing : h.runId = r

\* What the start-up relies on: nothing in memory while the server is down, and
\* nothing of a task that it still has to schedule.
ServerInv ==
  /\ server \in {"down", "booting", "up"}
  /\ boots \in 0 .. MaxBoot
  /\ toBoot \subseteq tasks
  /\ server # "booting" => toBoot = {}
  /\ server # "up" => \A c \in Clients : proc[c].pc = "idle"
  /\ server = "down" =>
       /\ queue = Queue!EmptyQueue
       /\ \A t \in Labels : sched[t] = Nil
       /\ \A p \in Callers : tick[p].pc = "idle"
  /\ \A t \in toBoot :
       /\ sched[t] = Nil
       /\ \A h \in AllHandles : h.taskId # t
       /\ \A p \in Callers : tick[p].pc = "idle" \/ tick[p].task # t
  /\ \A b \in Boxes : b[2] > boots => box[b] = Nil
\* A build of an image, as dispatched by scheduleExecutable.
Build == [task : Labels, config : Configs,
          pc : {"build", "orphan", "start", "done", "failed"}]

\* Nothing is scheduled or built for a task that was not created yet.
FreshInv ==
  /\ builds \in Seq(Build)
  /\ \A t \in unused : sched[t] = Nil
  /\ \A i \in DOMAIN builds : builds[i].task \notin unused

\* The inductive invariant, without what registration and the queue add to it.
Core == ProcInv /\ TickInv /\ IdsInv /\ PlaceInv /\ ExecInv /\ ServerInv /\ FreshInv /\ LifeTypeOK

-----------------------------------------------------------------------------
(* The routines, and what their steps make of the frame of a flow.         *)

\* The routines, step by step: what follows each step.
LEMMA AfterCreate == ASSUME NEW x, NEW f, f.op = "create"
  PROVE /\ After(x,f,"findName") = [f EXCEPT !.pc = "insert"]
        /\ After(x,f,"insert") = [f EXCEPT !.pc = "register"]
        /\ After(x,f,"register") = Done(x)
BY DEF After, Routine
LEMMA AfterStart == ASSUME NEW x, NEW f, f.op = "start"
  PROVE /\ After(x,f,"find") = [f EXCEPT !.pc = "register"]
        /\ After(x,f,"register") = [f EXCEPT !.pc = "activate"]
        /\ After(x,f,"activate") = Done(x)
BY DEF After, Routine
LEMMA AfterStop == ASSUME NEW x, NEW f, f.op = "stop"
  PROVE /\ After(x,f,"find") = [f EXCEPT !.pc = "deactivate"]
        /\ After(x,f,"deactivate") = [f EXCEPT !.pc = "unschedule"]
        /\ After(x,f,"unschedule") = [f EXCEPT !.pc = "list"]
        /\ After(x,f,"children") = [f EXCEPT !.pc = "pending"]
        /\ After(x,f,"pending") = Done(x)
BY DEF After, Routine
LEMMA AfterDelete == ASSUME NEW x, NEW f, f.op = "delete"
  PROVE /\ After(x,f,"find") = [f EXCEPT !.pc = "unschedule"]
        /\ After(x,f,"unschedule") = [f EXCEPT !.pc = "list"]
        /\ After(x,f,"children") = [f EXCEPT !.pc = "image"]
        /\ After(x,f,"image") = [f EXCEPT !.pc = "deleteRow"]
        /\ After(x,f,"deleteRow") = Done(x)
BY DEF After, Routine
LEMMA AfterUpdate == ASSUME NEW x, NEW f, f.op = "update"
  PROVE /\ After(x,f,"find") = [f EXCEPT !.pc = "unschedule"]
        /\ After(x,f,"unschedule") = [f EXCEPT !.pc = "list"]
        /\ After(x,f,"children") = [f EXCEPT !.pc = "image"]
        /\ After(x,f,"image") = [f EXCEPT !.pc = "register"]
        /\ After(x,f,"register") = [f EXCEPT !.pc = "updateRow"]
        /\ After(x,f,"updateRow") = Done(x)
BY DEF After, Routine
LEMMA AfterRun == ASSUME NEW x, NEW f, f.op = "run"
  PROVE /\ After(x,f,"check") = [f EXCEPT !.pc = "run"]
        /\ After(x,f,"run") = [f EXCEPT !.pc = "start"]
        /\ After(x,f,"start") = [f EXCEPT !.pc = "wait"]
        /\ After(x,f,"finish") = [f EXCEPT !.pc = "remove"]
        /\ After(x,f,"remove") = Done(x)
BY DEF After, Routine
LEMMA AfterLimit == ASSUME NEW x, NEW f, f.op = "limit"
  PROVE /\ After(x,f,"unschedule") = [f EXCEPT !.pc = "list"]
        /\ After(x,f,"list") = [f EXCEPT !.pc = "children"]
        /\ After(x,f,"children") = [f EXCEPT !.pc = "rmi"]
        /\ After(x,f,"rmi") = [f EXCEPT !.pc = "deactivate"]
        /\ After(x,f,"deactivate") = Done(x)
BY DEF After, Routine
\* The steps of each routine.
LEMMA StepsOf ==
  /\ DOMAIN Routine = {"create", "start", "stop", "delete", "update", "run", "limit"}
  /\ Steps("create") = {"findName", "insert", "register"}
  /\ Steps("start") = {"find", "register", "activate"}
  /\ Steps("stop") = {"find", "deactivate", "unschedule", "list", "children", "pending"}
  /\ Steps("delete") = {"find", "unschedule", "list", "children", "image", "deleteRow"}
  /\ Steps("update") = {"find", "unschedule", "list", "children", "image", "register", "updateRow"}
  /\ Steps("run") = {"check", "run", "start", "wait", "finish", "remove"}
  /\ Steps("limit") = {"unschedule", "list", "children", "rmi", "deactivate"}
BY DEF Steps, Routine

\* A routine never leaves its own steps, but to end.
LEMMA AfterInRoutine ==
  ASSUME NEW x, NEW f, f.op \in DOMAIN Routine, NEW pc \in Steps(f.op)
  PROVE  \/ After(x, f, pc) = Done(x)
         \/ \E q \in Steps(f.op) : After(x, f, pc) = [f EXCEPT !.pc = q]
<1> DEFINE steps == Routine[f.op]
           i == CHOOSE j \in DOMAIN steps : steps[j] = pc
<1>1. \E n \in Nat : DOMAIN steps = 1 .. n /\ Len(steps) = n
  <2>1. CASE f.op = "create"
    BY <2>1 DEF Routine
  <2>2. CASE f.op = "start"
    BY <2>2 DEF Routine
  <2>3. CASE f.op = "stop"
    BY <2>3 DEF Routine
  <2>4. CASE f.op = "delete"
    BY <2>4 DEF Routine
  <2>5. CASE f.op = "update"
    BY <2>5 DEF Routine
  <2>6. CASE f.op = "run"
    BY <2>6 DEF Routine
  <2>7. CASE f.op = "limit"
    BY <2>7 DEF Routine
  <2> QED BY <2>1, <2>2, <2>3, <2>4, <2>5, <2>6, <2>7, StepsOf
<1>2. i \in DOMAIN steps
  BY DEF Steps
<1>3. i # Len(steps) => i + 1 \in DOMAIN steps
  BY <1>1, <1>2
<1>4. i # Len(steps) => steps[i + 1] \in Steps(f.op)
  BY <1>3 DEF Steps
<1> QED BY <1>4 DEF After

\* Flow x made a step: it is at a step of the same request or at its end, and no
\* other flow moved.
Moves(x) ==
  /\ DOMAIN proc' = Procs
  /\ \A y \in Procs \ {x} : proc'[y] = proc[y]
  /\ FrameOK(proc'[x], unused')
  /\ x \in Clients => proc'[x].op \notin {"run", "limit"} /\ proc'[x].pc # "settle"
  /\ x \in RunIds =>
       /\ proc'[x].op \in {"none", "run", "stop", "limit"}
       /\ proc[x].pc # "idle" /\ proc'[x].pc # "idle"
       /\ proc'[x].op # "none" => proc[x].op # "none" /\ proc'[x].task = proc[x].task

\* Flows belong to clients or to runs.
LEMMA ProcKinds == /\ Clients \cap RunIds = {}
                   /\ Procs = Clients \cup RunIds
                   /\ RunIds \subseteq Nat
BY ProcsAssumption, MaxRunIdAssumption DEF Procs, RunIds

\* The frame of a flow that is over.
LEMMA DoneOK ==
  ASSUME NEW x \in Procs
  PROVE  /\ \A fresh : FrameOK(Done(x), fresh)
         /\ Done(x).op = "none"
         /\ x \in Clients => Done(x).pc = "idle"
         /\ x \in RunIds => Done(x).pc = "settle"
BY ProcKinds DEF Done, IdleProc, FrameOK, Frames, StepNames

\* Each kind of step of a flow, one after the other, moves that flow only.
LEMMA FinishMoves ==
  ASSUME ProcInv, NEW x \in Procs, proc[x].pc \notin {"idle"}, Finish(x)
  PROVE  Moves(x)
BY DoneOK, ProcKinds DEF ProcInv, Finish, Moves

LEMMA StepNamesOf == ASSUME NEW op \in DOMAIN Routine PROVE Steps(op) \subseteq StepNames
BY DEF StepNames

\* A frame goes on behind step pc: f is the frame of x, but for its containers.
LEMMA AfterMoves ==
  ASSUME ProcInv, NEW x \in Procs, UNCHANGED unused,
         NEW f, FrameOK(f, unused), f.op # "none",
         f.op = proc[x].op, f.task = proc[x].task,
         NEW pc \in Steps(f.op), pc # "insert",
         pc = "findName" \/ f.task \in Labels \ unused,
         f.op = "start" => f.config \in Configs,
         proc' = [proc EXCEPT ![x] = After(x, f, pc)]
  PROVE  Moves(x)
<1> DEFINE g == After(x, f, pc)
<1>1. /\ f.op \in DOMAIN Routine /\ f \in Frames
      /\ DOMAIN proc = Procs /\ FrameOK(proc[x], unused)
      /\ proc[x].pc \notin {"idle", "settle"}
  BY StepsOf DEF ProcInv, FrameOK, Frames
<1>2. /\ proc'[x] = g
      /\ \A y \in Procs \ {x} : proc'[y] = proc[y]
      /\ DOMAIN proc' = Procs
  BY <1>1
<1>3. CASE g = Done(x)
  BY <1>1, <1>2, <1>3, DoneOK, ProcKinds DEF Moves
<1>4. CASE g # Done(x)
  <2>1. PICK q \in Steps(f.op) : g = [f EXCEPT !.pc = q]
    BY <1>1, <1>4, AfterInRoutine
  <2>2. /\ g \in Frames
        /\ g.op = f.op /\ g.task = f.task /\ g.name = f.name /\ g.config = f.config
        /\ g.pc = q
    BY <1>1, <2>1, StepNamesOf DEF Frames
  <2>3. q \notin {"idle", "settle"}
    BY <1>1, StepsOf
  <2>4. q \notin {"findName", "insert"} => f.task \in Labels \ unused
    <3>1. CASE pc = "findName"
      <4>1. f.op = "create"
        BY <1>1, <3>1, StepsOf
      <4>2. g = [f EXCEPT !.pc = "insert"]
        BY <3>1, <4>1, AfterCreate
      <4> QED BY <2>2, <4>2, <1>1 DEF Frames
    <3>2. CASE pc # "findName"
      BY <3>2
    <3> QED BY <3>1, <3>2
  <2>5. FrameOK(g, unused')
    BY <1>1, <2>2, <2>3, <2>4 DEF FrameOK
  <2> QED BY <1>1, <1>2, <2>2, <2>3, <2>5, ProcKinds DEF Moves, ProcInv
<1> QED BY <1>3, <1>4

LEMMA AdvanceMoves ==
  ASSUME ProcInv, NEW x \in Procs, UNCHANGED unused, Advance(x),
         proc[x].pc \notin {"idle", "settle", "insert"},
         proc[x].op = "start" => proc[x].pc # "find"
  PROVE  Moves(x)
<1>1. FrameOK(proc[x], unused)
  BY DEF ProcInv
<1>2. proc[x].op # "none" /\ proc[x].pc \in Steps(proc[x].op)
  BY <1>1 DEF FrameOK
<1> QED BY <1>1, <1>2, AfterMoves DEF FrameOK, Advance

\* runTask answers any failure by stopping the task (task.service.ts, lines 87-98).
LEMMA CatchMoves ==
  ASSUME ProcInv, NEW r \in RunIds, proc[r].op \in {"run", "limit"}, UNCHANGED unused,
         Catch(r)
  PROVE  Moves(r)
<1> DEFINE g == [proc[r] EXCEPT !.op = "stop", !.pc = "find"]
<1>1. FrameOK(proc[r], unused) /\ DOMAIN proc = Procs /\ r \in Procs
  BY ProcKinds DEF ProcInv
<1>2. proc[r].pc \in Steps("run") \cup Steps("limit")
  BY <1>1 DEF FrameOK
<1>3. proc[r].pc \notin {"idle", "findName", "insert"}
  BY <1>2, StepsOf
<1>4. /\ g \in Frames /\ g.op = "stop" /\ g.pc = "find" /\ g.task = proc[r].task
  BY <1>1, StepsOf, StepNamesOf DEF FrameOK, Frames
<1>5. FrameOK(g, unused)
  BY <1>1, <1>3, <1>4, StepsOf DEF FrameOK
<1>6. proc' = [proc EXCEPT ![r] = g]
  BY <1>1 DEF Catch
<1> QED BY <1>1, <1>3, <1>4, <1>5, <1>6, ProcKinds DEF Moves

\* A frame at a step of a routine is in that routine.
LEMMA OpAt ==
  ASSUME ProcInv, NEW x \in Procs
  PROVE  /\ At(x, "findName") => proc[x].op = "create"
         /\ At(x, "insert") => proc[x].op = "create"
         /\ At(x, "register") => proc[x].op \in {"create", "start", "update"}
         /\ At(x, "find") => proc[x].op \in {"start", "stop", "delete", "update"}
         /\ At(x, "activate") => proc[x].op = "start"
         /\ At(x, "deactivate") => proc[x].op \in {"stop", "limit"}
         /\ At(x, "unschedule") => proc[x].op \in {"stop", "delete", "update", "limit"}
         /\ At(x, "list") => proc[x].op \in {"stop", "delete", "update", "limit"}
         /\ At(x, "children") => proc[x].op \in {"stop", "delete", "update", "limit"}
         /\ At(x, "pending") => proc[x].op = "stop"
         /\ At(x, "image") => proc[x].op \in {"delete", "update"}
         /\ At(x, "deleteRow") => proc[x].op = "delete"
         /\ At(x, "updateRow") => proc[x].op = "update"
         /\ At(x, "rmi") => proc[x].op = "limit"
         /\ \A pc \in Steps("run") : At(x, pc) => proc[x].op = "run"
         /\ At(x, "idle") => proc[x].op = "none"
         /\ At(x, "settle") => proc[x].op = "none"
         /\ proc[x].op = "none" => At(x, "idle") \/ At(x, "settle")
<1>1. /\ proc[x].op \in {"none"} \cup DOMAIN Routine
      /\ IF proc[x].op = "none" THEN proc[x].pc \in {"idle", "settle"}
                                ELSE proc[x].pc \in Steps(proc[x].op)
  BY DEF ProcInv, FrameOK, Frames
<1> QED BY <1>1, StepsOf DEF At

\* What the request of a client sets its frame to.
LEMMA RequestMoves ==
  ASSUME ProcInv, NEW c \in Clients, Request(c)
  PROVE  Moves(c) /\ proc'[c].pc \in {"findName", "find"}
<1>1. /\ c \in Procs /\ c \notin RunIds /\ DOMAIN proc = Procs
      /\ proc[c] \in Frames /\ UNCHANGED unused
  BY ProcKinds DEF ProcInv, FrameOK, Request, regVars
<1>2. "find" \in StepNames /\ "findName" \in StepNames
  BY StepsOf, StepNamesOf
<1>3. ASSUME NEW name \in Names, NEW config \in Configs,
             proc' = [proc EXCEPT ![c].op = "create", ![c].pc = "findName",
                                  ![c].name = name, ![c].config = config]
      PROVE  Moves(c) /\ proc'[c].pc \in {"findName", "find"}
  <2> DEFINE g == [proc[c] EXCEPT !.op = "create", !.pc = "findName",
                                  !.name = name, !.config = config]
  <2>1. proc' = [proc EXCEPT ![c] = g]
    BY <1>1, <1>3
  <2>2. /\ g \in Frames /\ g.op = "create" /\ g.pc = "findName"
        /\ g.name = name /\ g.config = config
    BY <1>1, <1>2, StepsOf DEF Frames
  <2>3. FrameOK(g, unused')
    BY <2>2, StepsOf DEF FrameOK
  <2> QED BY <1>1, <2>1, <2>2, <2>3 DEF Moves
<1>4. ASSUME NEW op \in {"start", "stop", "delete"}, NEW t \in Labels \ unused,
             proc' = [proc EXCEPT ![c].op = op, ![c].pc = "find", ![c].task = t]
      PROVE  Moves(c) /\ proc'[c].pc \in {"findName", "find"}
  <2> DEFINE g == [proc[c] EXCEPT !.op = op, !.pc = "find", !.task = t]
  <2>1. proc' = [proc EXCEPT ![c] = g]
    BY <1>1, <1>4
  <2>2. g \in Frames /\ g.op = op /\ g.pc = "find" /\ g.task = t
    BY <1>1, <1>2, StepsOf DEF Frames
  <2>3. FrameOK(g, unused')
    BY <1>1, <2>2, StepsOf DEF FrameOK
  <2> QED BY <1>1, <2>1, <2>2, <2>3 DEF Moves
<1>5. ASSUME NEW t \in Labels \ unused, NEW config \in Configs,
             proc' = [proc EXCEPT ![c].op = "update", ![c].pc = "find",
                                  ![c].task = t, ![c].config = config]
      PROVE  Moves(c) /\ proc'[c].pc \in {"findName", "find"}
  <2> DEFINE g == [proc[c] EXCEPT !.op = "update", !.pc = "find",
                                  !.task = t, !.config = config]
  <2>1. proc' = [proc EXCEPT ![c] = g]
    BY <1>1, <1>5
  <2>2. /\ g \in Frames /\ g.op = "update" /\ g.pc = "find" /\ g.task = t
        /\ g.config = config
    BY <1>1, <1>2, StepsOf DEF Frames
  <2>3. FrameOK(g, unused')
    BY <1>1, <2>2, StepsOf DEF FrameOK
  <2> QED BY <1>1, <2>1, <2>2, <2>3 DEF Moves
<1> QED BY <1>3, <1>4, <1>5 DEF Request

LEMMA InsertRowMoves ==
  ASSUME ProcInv, RegTypeOK, NEW c \in Clients, InsertRow(c)
  PROVE  Moves(c)
<1>1. /\ c \in Procs /\ c \notin RunIds /\ DOMAIN proc = Procs
      /\ FrameOK(proc[c], unused) /\ proc[c].op = "create" /\ proc[c].pc = "insert"
  BY ProcKinds, OpAt DEF ProcInv, InsertRow, At
<1>2. CASE NameTaken(proc[c].name)
  BY <1>1, <1>2, FinishMoves DEF InsertRow
<1>3. CASE ~NameTaken(proc[c].name)
  <2> DEFINE g(t) == [proc[c] EXCEPT !.task = t, !.pc = "register"]
  <2>1. PICK t \in unused : /\ InsertTask(t)
                            /\ proc' = [proc EXCEPT ![c] =
                                          After(c, [@ EXCEPT !.task = t], "insert")]
    BY <1>3 DEF InsertRow
  <2>2. [proc[c] EXCEPT !.task = t].op = "create"
    BY <1>1 DEF FrameOK, Frames
  <2>3. After(c, [proc[c] EXCEPT !.task = t], "insert") = g(t)
    BY <1>1, <2>2, AfterCreate DEF FrameOK, Frames
  <2>4. proc' = [proc EXCEPT ![c] = g(t)]
    BY <1>1, <2>1, <2>3
  <2>5. t \in Labels \ unused'
    BY <2>1 DEF InsertTask, RegTypeOK
  <2>6. /\ g(t) \in Frames /\ g(t).op = "create" /\ g(t).pc = "register"
        /\ g(t).task = t /\ g(t).name = proc[c].name /\ g(t).config = proc[c].config
    BY <1>1, <2>5, StepsOf, StepNamesOf DEF FrameOK, Frames
  <2>7. FrameOK(g(t), unused')
    BY <1>1, <2>5, <2>6, StepsOf DEF FrameOK
  <2> QED BY <1>1, <2>4, <2>6, <2>7 DEF Moves
<1> QED BY <1>2, <1>3

LEMMA FindMoves ==
  ASSUME ProcInv, LifeTypeOK, NEW x \in Procs, Find(x)
  PROVE  Moves(x)
<1> DEFINE f == proc[x]
           t == f.task
<1>1. /\ DOMAIN proc = Procs /\ FrameOK(f, unused) /\ f.pc = "find"
      /\ f.op \in {"start", "stop", "delete", "update"}
      /\ unused' = unused
  BY OpAt DEF ProcInv, Find, At, regVars
<1>2. CASE Finish(x)
  BY <1>1, <1>2, FinishMoves
<1>3. CASE f.op # "start" /\ Advance(x)
  BY <1>1, <1>3, AdvanceMoves
<1>4. CASE /\ f.op = "start" /\ t \in tasks
           /\ proc' = [proc EXCEPT ![x] = After(x, [f EXCEPT !.config = row[t].config], "find")]
  <2> DEFINE g == [f EXCEPT !.config = row[t].config, !.pc = "register"]
  <2>1. row[t].config \in Configs
    BY <1>4 DEF LifeTypeOK, RegTypeOK
  <2>2. After(x, [f EXCEPT !.config = row[t].config], "find") = g
    BY <1>1, <1>4, AfterStart DEF FrameOK, Frames
  <2>3. proc' = [proc EXCEPT ![x] = g]
    BY <1>4, <2>2
  <2>4. /\ g \in Frames /\ g.op = "start" /\ g.pc = "register"
        /\ g.task = t /\ g.config = row[t].config
    BY <1>1, <1>4, <2>1, StepsOf, StepNamesOf DEF FrameOK, Frames
  <2>5. FrameOK(g, unused')
    BY <1>1, <2>1, <2>4, StepsOf DEF FrameOK
  <2>6. x \notin RunIds
    BY <1>4 DEF ProcInv
  <2> QED BY <1>1, <2>3, <2>4, <2>5, <2>6 DEF Moves
<1> DEFINE refused == \/ t \notin tasks
                      \/ f.op = "stop" /\ ~row[t].active
                      \/ f.op \in {"start", "delete"} /\ row[t].active
<1>6. CASE refused
  BY <1>2, <1>6 DEF Find
<1>7. CASE ~refused
  BY <1>3, <1>4, <1>7, <1>1 DEF Find, Advance
<1> QED BY <1>6, <1>7

LEMMA ListChildrenMoves ==
  ASSUME ProcInv, NEW x \in Procs, ListChildren(x)
  PROVE  Moves(x)
<1> DEFINE f == proc[x]
           C == Children(f.task)
           g == [f EXCEPT !.pc = "children", !.children = C]
<1>1. /\ DOMAIN proc = Procs /\ FrameOK(f, unused) /\ f.pc = "list"
      /\ f.op \in {"stop", "delete", "update", "limit"}
      /\ unused' = unused
  BY OpAt DEF ProcInv, ListChildren, At, regVars
<1>2. "children" \in Steps(f.op)
  BY <1>1, StepsOf
<1>3. CASE C # {}
  <2>1. proc' = [proc EXCEPT ![x] = g]
    BY <1>1, <1>3 DEF ListChildren
  <2>2. C \subseteq Boxes
    BY DEF Children
  <2>3. /\ g \in Frames /\ g.op = f.op /\ g.pc = "children" /\ g.task = f.task
        /\ g.name = f.name /\ g.config = f.config
    BY <1>1, <1>2, <2>2, StepNamesOf, StepsOf DEF FrameOK, Frames
  <2>4. FrameOK(g, unused')
    BY <1>1, <1>2, <2>3 DEF FrameOK
  <2> QED BY <1>1, <2>1, <2>3, <2>4, ProcKinds DEF Moves, ProcInv
<1>4. CASE C = {}
  <2>1. proc' = [proc EXCEPT ![x] = After(x, f, "children")]
    BY <1>1, <1>4 DEF ListChildren
  <2> QED BY <1>1, <1>2, <2>1, AfterMoves DEF FrameOK
<1> QED BY <1>3, <1>4

LEMMA HandleChildMoves ==
  ASSUME ProcInv, NEW x \in Procs, NEW b \in Boxes, HandleChild(x, b)
  PROVE  Moves(x)
<1> DEFINE f == [proc[x] EXCEPT !.children = @ \ {b}]
<1>1. /\ DOMAIN proc = Procs /\ FrameOK(proc[x], unused) /\ proc[x].pc = "children"
      /\ proc[x].op \in {"stop", "delete", "update", "limit"}
      /\ unused' = unused
  BY OpAt DEF ProcInv, HandleChild, At, regVars
<1>2. /\ f \in Frames /\ f.op = proc[x].op /\ f.pc = "children" /\ f.task = proc[x].task
      /\ f.name = proc[x].name /\ f.config = proc[x].config
      /\ "children" \in Steps(f.op)
  BY <1>1, StepsOf DEF FrameOK, Frames
<1>3. FrameOK(f, unused) /\ f.task \in Labels \ unused
  BY <1>1, <1>2 DEF FrameOK
<1>4. CASE f.children = {}
  <2>1. proc' = [proc EXCEPT ![x] = After(x, f, "children")]
    BY <1>4 DEF HandleChild
  <2> QED BY <1>1, <1>2, <1>3, <2>1, AfterMoves
<1>5. CASE f.children # {}
  <2>1. proc' = [proc EXCEPT ![x] = f]
    BY <1>5 DEF HandleChild
  <2> QED BY <1>1, <1>2, <1>3, <2>1, ProcKinds DEF Moves, ProcInv
<1> QED BY <1>4, <1>5

\* A command or a query that rejects ends a request, and a run it sends to the catch.
LEMMA CommandFailsMoves ==
  ASSUME ProcInv, NEW x \in Procs, CommandFails(x)
  PROVE  Moves(x)
<1>1. /\ proc[x].op \in {"run", "limit", "stop", "delete", "update"}
      /\ proc[x].pc # "idle" /\ unused' = unused
  <2>1. \/ At(x, "list") \/ At(x, "image") \/ At(x, "rmi")
        \/ At(x, "start") \/ At(x, "finish")
    BY DEF CommandFails
  <2>2. "start" \in Steps("run") /\ "finish" \in Steps("run")
    BY StepsOf
  <2> QED BY <2>1, <2>2, OpAt DEF CommandFails, At, regVars
<1>2. CASE proc[x].op \in {"run", "limit"}
  <2>1. x \in RunIds
    BY <1>2, ProcKinds DEF ProcInv
  <2> QED BY <1>1, <1>2, <2>1, CatchMoves DEF CommandFails
<1>3. CASE proc[x].op \notin {"run", "limit"}
  BY <1>1, <1>3, FinishMoves DEF CommandFails
<1> QED BY <1>2, <1>3

LEMMA RoutineMoves ==
  ASSUME ProcInv, LifeTypeOK, NEW x \in Procs, RoutineStep(x)
  PROVE  Moves(x)
<1>1. CASE Find(x)
  BY <1>1, FindMoves
<1>2. CASE ListChildren(x)
  BY <1>2, ListChildrenMoves
<1>3. CASE \E b \in Boxes : HandleChild(x, b)
  BY <1>3, HandleChildMoves
<1>4. CASE DeleteRow(x)
  <2>1. UNCHANGED unused
    BY <1>4 DEF DeleteRow, DeleteTask, regVars
  <2> QED BY <1>4, <2>1, AdvanceMoves DEF DeleteRow, At
<1>5. CASE \/ Deactivate(x) \/ Activate(x) \/ Unschedule(x) \/ StopPending(x)
           \/ RemoveImage(x) \/ Register(x) \/ UpdateRow(x)
  BY <1>5, AdvanceMoves
     DEF Deactivate, Activate, Unschedule, StopPending, RemoveImage, Register,
         UpdateRow, At, regVars
<1>6. CASE CommandFails(x)
  BY <1>6, CommandFailsMoves
<1> QED BY <1>1, <1>2, <1>3, <1>4, <1>5, <1>6 DEF RoutineStep

\* The name of the container of a run, in this life of the process.
LEMMA BoxOfBox == ASSUME boots \in 0 .. MaxBoot, NEW r \in RunIds PROVE BoxOf(r) \in Boxes
BY DEF BoxOf, Boxes

LEMMA RunWaitMoves ==
  ASSUME ProcInv, LifeTypeOK, boots \in 0 .. MaxBoot, NEW r \in RunIds, RunWait(r)
  PROVE  Moves(r)
<1> "wait" \in Steps("run") /\ "finish" \in Steps("run")
  BY StepsOf
<1>1. /\ DOMAIN proc = Procs /\ FrameOK(proc[r], unused) /\ proc[r].pc = "wait"
      /\ r \in Procs /\ proc[r].op = "run" /\ unused' = unused
  BY OpAt, ProcKinds DEF ProcInv, RunWait, At, regVars
<1>2. ASSUME NEW code \in {0, 1},
             proc' = [proc EXCEPT ![r].pc = "finish", ![r].code = code]
      PROVE  Moves(r)
  <2> DEFINE g == [proc[r] EXCEPT !.pc = "finish", !.code = code]
  <2>1. proc' = [proc EXCEPT ![r] = g]
    BY <1>1, <1>2
  <2>2. /\ g \in Frames /\ g.op = "run" /\ g.pc = "finish" /\ g.task = proc[r].task
    BY <1>1, StepNamesOf, StepsOf DEF FrameOK, Frames
  <2>3. FrameOK(g, unused')
    BY <1>1, <2>2 DEF FrameOK
  <2> QED BY <1>1, <2>1, <2>2, <2>3, ProcKinds DEF Moves
<1>3. box[BoxOf(r)] # Nil => box[BoxOf(r)].code \in {0, 1}
  BY BoxOfBox DEF LifeTypeOK
<1>4. CASE Catch(r)
  BY <1>1, <1>4, CatchMoves
<1> QED BY <1>2, <1>3, <1>4 DEF RunWait

LEMMA RunRemoveMoves ==
  ASSUME ProcInv, NEW r \in RunIds, RunRemove(r)
  PROVE  Moves(r)
<1>1. /\ DOMAIN proc = Procs /\ FrameOK(proc[r], unused) /\ proc[r].pc = "remove"
      /\ r \in Procs /\ proc[r].op = "run" /\ unused' = unused
  BY OpAt, ProcKinds, StepsOf DEF ProcInv, RunRemove, At, regVars
<1>2. CASE Catch(r)
  BY <1>1, <1>2, CatchMoves
<1>3. CASE Finish(r)
  BY <1>1, <1>3, FinishMoves
<1>4. CASE proc' = [proc EXCEPT ![r].op = "limit", ![r].pc = "unschedule"]
  <2> DEFINE g == [proc[r] EXCEPT !.op = "limit", !.pc = "unschedule"]
  <2>1. proc' = [proc EXCEPT ![r] = g]
    BY <1>1, <1>4
  <2>2. /\ g \in Frames /\ g.op = "limit" /\ g.pc = "unschedule"
        /\ g.task = proc[r].task
    BY <1>1, StepNamesOf, StepsOf DEF FrameOK, Frames
  <2>3. FrameOK(g, unused')
    BY <1>1, <2>2, StepsOf DEF FrameOK
  <2> QED BY <1>1, <2>1, <2>2, <2>3, ProcKinds DEF Moves
<1> QED BY <1>2, <1>3, <1>4 DEF RunRemove

LEMMA RunMoves ==
  ASSUME ProcInv, LifeTypeOK, boots \in 0 .. MaxBoot, NEW r \in RunIds, RunStep(r), ~RunSettles(r)
  PROVE  Moves(r)
<1> r \in Procs
  BY ProcKinds
<1>1. CASE RunWait(r)
  BY <1>1, RunWaitMoves
<1>2. CASE RunRemove(r)
  BY <1>2, RunRemoveMoves
<1>3. CASE RunDockerFails(r)
  BY <1>3, CatchMoves, OpAt, StepsOf DEF RunDockerFails, regVars
<1>4. CASE RunCheck(r) \/ RunDocker(r) \/ RunStart(r) \/ RunFinish(r)
  BY <1>4, AdvanceMoves, FinishMoves
     DEF RunCheck, RunDocker, RunStart, RunFinish, At, regVars
<1>5. CASE RemoveUnusedImage(r)
  <2>1. CASE Advance(r)
    BY <1>5, <2>1, AdvanceMoves DEF RemoveUnusedImage, At, regVars
  <2>2. CASE Catch(r)
    BY <1>5, <2>2, CatchMoves, OpAt DEF RemoveUnusedImage, regVars
  <2> QED BY <1>5, <2>1, <2>2 DEF RemoveUnusedImage
<1> QED BY <1>1, <1>2, <1>3, <1>4, <1>5 DEF RunStep

-----------------------------------------------------------------------------
(* Who changes what.                                                       *)

\* Each variable, and the actions that may change it.
ChangesRow ==
  \/ UNCHANGED <<row, tasks, unused>>
  \/ \E c \in Clients : InsertRow(c)
  \/ \E x \in Procs : Deactivate(x) \/ Activate(x) \/ UpdateRow(x) \/ DeleteRow(x)

ChangesStatus ==
  \/ UNCHANGED <<status>>
  \/ \E p \in Callers : TickCreate(p)
  \/ \E r \in RunIds : RunStart(r) \/ RunFinish(r)
  \/ \E x \in Procs : StopPending(x) \/ DeleteRow(x)

ChangesSched ==
  \/ UNCHANGED <<sched>>
  \/ \E i \in DOMAIN builds : BuildStart(i)
  \/ \E p \in Callers : TickReturn(p)
  \/ \E x \in Procs : Unschedule(x) \/ Register(x)
  \/ BootTask
  \/ Crash

ChangesQueue ==
  \/ UNCHANGED <<queue>>
  \/ \E p \in Callers : TickReturn(p)
  \/ \E r \in RunIds : RunSettles(r)
  \/ BootTask
  \/ Crash

ChangesBuilds ==
  \/ UNCHANGED <<builds>>
  \/ \E i \in DOMAIN builds : BuildStep(i)
  \/ \E x \in Procs : Register(x)
  \/ BootTask
  \/ Crash

ChangesImage ==
  \/ UNCHANGED <<image>>
  \/ \E i \in DOMAIN builds : BuildImage(i)
  \/ \E x \in Procs : RemoveImage(x)
  \/ \E r \in RunIds : RemoveUnusedImage(r)

ChangesBox ==
  \/ UNCHANGED <<box>>
  \/ \E r \in RunIds : RunDocker(r) \/ RunDockerFails(r) \/ RunRemove(r)
  \/ \E x \in Procs, b \in Boxes : HandleChild(x, b)
  \/ \E b \in Boxes : BoxExits(b)

ChangesTick ==
  \/ UNCHANGED <<tick>>
  \/ \E p \in Callers, t \in Labels : CronFires(p, t)
  \/ \E p \in Callers : TickStep(p)
  \/ Crash

ChangesReg ==
  \/ UNCHANGED <<call, body, lastId>>
  \/ \E p \in Callers : TickStep(p)
  \/ Crash

ChangesRuns ==
  \/ UNCHANGED <<runs>>
  \/ \E p \in Callers : TickCreate(p)
  \/ \E x \in Procs : DeleteRow(x)

ChangesServer ==
  \/ UNCHANGED <<server, toBoot, boots>>
  \/ BootStep
  \/ Crash

ChangesProc ==
  \/ UNCHANGED <<proc>>
  \/ \E c \in Clients : Request(c) \/ FindName(c) \/ InsertRow(c)
  \/ \E x \in Procs : RoutineStep(x)
  \/ \E r \in RunIds : RunStep(r)
  \/ \E p \in Callers : TickReturn(p)
  \/ BootTask
  \/ Crash

WhoChanges ==
  /\ ChangesRow
  /\ ChangesStatus
  /\ ChangesSched
  /\ ChangesQueue
  /\ ChangesBuilds
  /\ ChangesImage
  /\ ChangesBox
  /\ ChangesTick
  /\ ChangesReg
  /\ ChangesRuns
  /\ ChangesServer
  /\ ChangesProc

\* Nothing else changes them.
LEMMA WhoChangesWhat == [LifeNext]_vars => WhoChanges
<1> SUFFICES ASSUME [LifeNext]_vars PROVE WhoChanges
  OBVIOUS
<1> USE DEF WhoChanges, ChangesRow, ChangesStatus, ChangesSched, ChangesQueue,
            ChangesBuilds, ChangesImage, ChangesBox, ChangesTick, ChangesReg, ChangesRuns,
            ChangesServer, ChangesProc,
            regVars, tableVars, mutexVars, dbVars, memVars, dockerVars, serverVars
<1>1. ASSUME NEW p \in Callers, NEW t \in Labels,
             CronFires(p, t)
      PROVE  WhoChanges
  <2>1. CASE CronFires(p, t)
    BY <2>1 DEF CronFires
  <2> QED BY <1>1, <2>1
<1>2. ASSUME NEW p \in Callers,
             TickCheck(p) \/ TickRegister(p) \/ TickRetry(p) \/ TickCount(p)
             \/ TickCreate(p) \/ TickRefused(p) \/ TickReturn(p)
      PROVE  WhoChanges
  <2>1. CASE TickCheck(p)
    BY <2>1 DEF TickCheck, TickStep, TryToRegister, RetryRegister, CountRuns, CreateRun,
                QueryRejects, Return, TickInMutex
  <2>2. CASE TickRegister(p)
    BY <2>2 DEF TickRegister, TickStep, TryToRegister, RetryRegister, CountRuns,
                CreateRun, QueryRejects, Return, TickInMutex
  <2>3. CASE TickRetry(p)
    BY <2>3 DEF TickRetry, TickStep, TryToRegister, RetryRegister, CountRuns, CreateRun,
                QueryRejects, Return, TickInMutex
  <2>4. CASE TickCount(p)
    BY <2>4 DEF TickCount, TickStep, TryToRegister, RetryRegister, CountRuns, CreateRun,
                QueryRejects, Return, TickInMutex
  <2>5. CASE TickCreate(p)
    BY <2>5 DEF TickCreate, TickStep, TryToRegister, RetryRegister, CountRuns, CreateRun,
                QueryRejects, Return, TickInMutex
  <2>6. CASE TickRefused(p)
    BY <2>6 DEF TickRefused, TickStep, TryToRegister, RetryRegister, CountRuns,
                CreateRun, QueryRejects, Return, TickInMutex
  <2>7. CASE TickReturn(p)
    BY <2>7 DEF TickReturn, TickStep, TryToRegister, RetryRegister, CountRuns, CreateRun,
                QueryRejects, Return, TickInMutex
  <2> QED BY <1>2, <2>1, <2>2, <2>3, <2>4, <2>5, <2>6, <2>7
<1>3. ASSUME NEW c \in Clients,
             Request(c) \/ FindName(c) \/ InsertRow(c)
      PROVE  WhoChanges
  <2>1. CASE Request(c)
    BY <2>1 DEF Request, InsertTask
  <2>2. CASE FindName(c)
    BY <2>2 DEF FindName, InsertTask
  <2>3. CASE InsertRow(c)
    BY <2>3 DEF InsertRow, InsertTask
  <2> QED BY <1>3, <2>1, <2>2, <2>3
<1>4. ASSUME NEW x \in Procs,
             Find(x) \/ Deactivate(x) \/ Activate(x) \/ Unschedule(x) \/ ListChildren(x)
             \/ (\E b \in Boxes : HandleChild(x, b)) \/ StopPending(x) \/ RemoveImage(x)
             \/ Register(x) \/ UpdateRow(x) \/ DeleteRow(x) \/ CommandFails(x)
      PROVE  WhoChanges
  <2>1. CASE Find(x)
    BY <2>1 DEF Find, RoutineStep, DeleteTask
  <2>2. CASE Deactivate(x)
    BY <2>2 DEF Deactivate, RoutineStep, DeleteTask
  <2>3. CASE Activate(x)
    BY <2>3 DEF Activate, RoutineStep, DeleteTask
  <2>4. CASE Unschedule(x)
    BY <2>4 DEF Unschedule, RoutineStep, DeleteTask
  <2>5. CASE ListChildren(x)
    BY <2>5 DEF ListChildren, RoutineStep, DeleteTask
  <2>6. CASE (\E b \in Boxes : HandleChild(x, b))
    BY <2>6 DEF HandleChild, RoutineStep, DeleteTask
  <2>7. CASE StopPending(x)
    BY <2>7 DEF StopPending, RoutineStep, DeleteTask
  <2>8. CASE RemoveImage(x)
    BY <2>8 DEF RemoveImage, RoutineStep, DeleteTask
  <2>9. CASE Register(x)
    BY <2>9 DEF Register, RoutineStep, DeleteTask
  <2>10. CASE UpdateRow(x)
    BY <2>10 DEF UpdateRow, RoutineStep, DeleteTask
  <2>11. CASE DeleteRow(x)
    BY <2>11 DEF DeleteRow, RoutineStep, DeleteTask
  <2>12. CASE CommandFails(x)
    BY <2>12 DEF CommandFails, RoutineStep
  <2> QED BY <1>4, <2>1, <2>2, <2>3, <2>4, <2>5, <2>6, <2>7, <2>8, <2>9, <2>10, <2>11, <2>12
<1>5. ASSUME NEW r \in RunIds,
             RunCheck(r) \/ RunDocker(r) \/ RunDockerFails(r) \/ RunStart(r)
             \/ RunWait(r) \/ RunFinish(r) \/ RunRemove(r) \/ RemoveUnusedImage(r)
             \/ RunSettles(r)
      PROVE  WhoChanges
  <2>1. CASE RunCheck(r)
    BY <2>1 DEF RunCheck, RunStep
  <2>2. CASE RunDocker(r)
    BY <2>2 DEF RunDocker, RunStep
  <2>3. CASE RunDockerFails(r)
    BY <2>3 DEF RunDockerFails, RunStep
  <2>4. CASE RunStart(r)
    BY <2>4 DEF RunStart, RunStep
  <2>5. CASE RunWait(r)
    BY <2>5 DEF RunWait, RunStep
  <2>6. CASE RunFinish(r)
    BY <2>6 DEF RunFinish, RunStep
  <2>7. CASE RunRemove(r)
    BY <2>7 DEF RunRemove, RunStep
  <2>8. CASE RemoveUnusedImage(r)
    BY <2>8 DEF RemoveUnusedImage, RunStep
  <2>9. CASE RunSettles(r)
    BY <2>9 DEF RunSettles, RunStep
  <2> QED BY <1>5, <2>1, <2>2, <2>3, <2>4, <2>5, <2>6, <2>7, <2>8, <2>9
<1>6. ASSUME NEW i \in DOMAIN builds,
             BuildImage(i) \/ BuildFails(i) \/ BuildStart(i)
      PROVE  WhoChanges
  <2>1. CASE BuildImage(i)
    BY <2>1 DEF BuildImage, BuildStep
  <2>2. CASE BuildFails(i)
    BY <2>2 DEF BuildFails, BuildStep
  <2>3. CASE BuildStart(i)
    BY <2>3 DEF BuildStart, BuildStep
  <2> QED BY <1>6, <2>1, <2>2, <2>3
<1>7. ASSUME NEW b \in Boxes,
             BoxExits(b)
      PROVE  WhoChanges
  <2>1. CASE BoxExits(b)
    BY <2>1 DEF BoxExits
  <2> QED BY <1>7, <2>1
<1>8. CASE BootList
  BY <1>8 DEF BootStep, BootList
<1>9. CASE BootTask
  BY <1>9 DEF BootStep, BootTask
<1>10. CASE Listen
  BY <1>10 DEF BootStep, Listen
<1>11. CASE Crash
  BY <1>11 DEF BootStep, Crash, LoseMemory
<1>12. CASE (UNCHANGED vars)
  BY <1>12 DEF BootStep, vars
<1> QED BY <1>1, <1>2, <1>3, <1>4, <1>5, <1>6, <1>7, <1>8, <1>9, <1>10, <1>11, <1>12
        DEF LifeNext, TickStep, RoutineStep, RunStep, BuildStep, BootStep

\* The queue of the system is the queue of its own module, with its theorems.
QueueProofs == INSTANCE InMemoryTaskQueueProofs
                 WITH Fns <- [taskId : Labels, runId : RunIds,
                              runRank : Nat \cup {Infinity}],
                      taskQueue <- queue

\* The inductive invariant of the system.
LifeInv == RegInv /\ Core /\ QueueProofs!Balanced(queue)

\* What a row of tasks holds, and an entry of the scheduler.
Row == [name : Names, active : BOOLEAN, config : Configs]
Entries == [on : BOOLEAN, config : Configs]

\* An id of a task is not given twice.
LEMMA UnusedShrinks ==
  ASSUME LifeInv, [LifeNext]_vars
  PROVE  unused' \subseteq unused
<1>1. WhoChanges
  BY WhoChangesWhat
<1>2. ASSUME NEW x \in Procs, Deactivate(x) \/ Activate(x) \/ UpdateRow(x) \/ DeleteRow(x)
      PROVE  unused' = unused
  BY <1>2 DEF Deactivate, Activate, UpdateRow, DeleteRow, DeleteTask, regVars
<1>3. ASSUME NEW c \in Clients, InsertRow(c)
      PROVE  unused' \subseteq unused
  BY <1>3 DEF InsertRow, InsertTask, regVars
<1> QED BY <1>1, <1>2, <1>3 DEF WhoChanges, ChangesRow

\* The type of the rows of tasks, and who has one.
RowOK ==
  /\ row \in [Labels -> {Nil} \cup Row]
  /\ \A t \in Labels : row[t] # Nil <=> t \in tasks

LEMMA RowStep ==
  ASSUME LifeInv, [LifeNext]_vars
  PROVE  RowOK'
<1>1. /\ row \in [Labels -> {Nil} \cup Row]
      /\ \A t \in Labels : row[t] # Nil <=> t \in tasks
      /\ Nil \notin Row
      /\ tasks \subseteq Labels /\ unused \subseteq Labels
      /\ \A x \in Procs : FrameOK(proc[x], unused)
      /\ ProcInv
  BY NilAssumption DEF LifeInv, Core, LifeTypeOK, Row, RegTypeOK, ProcInv
<1>2. ASSUME NEW c \in Clients, InsertRow(c)
      PROVE  RowOK'
  <2>0. c \in Procs /\ proc[c].op = "create"
    BY <1>1, <1>2, OpAt, ProcKinds DEF InsertRow
  <2>1. CASE UNCHANGED <<regVars, row>>
    BY <1>1, <2>1 DEF regVars, RowOK
  <2>2. CASE \E t \in unused :
               /\ InsertTask(t)
               /\ row' = [row EXCEPT ![t] = [name   |-> proc[c].name,
                                             active |-> TRUE,
                                             config |-> proc[c].config]]
    <3>1. PICK t \in unused :
               /\ InsertTask(t)
               /\ row' = [row EXCEPT ![t] = [name   |-> proc[c].name,
                                             active |-> TRUE,
                                             config |-> proc[c].config]]
      BY <2>2
    <3>2. [name |-> proc[c].name, active |-> TRUE, config |-> proc[c].config] \in Row
      BY <1>1, <2>0 DEF FrameOK, Row
    <3> QED BY <1>1, <3>1, <3>2 DEF InsertTask, RowOK
  <2> QED BY <1>2, <2>1, <2>2 DEF InsertRow
<1>3. ASSUME NEW x \in Procs, NEW active \in BOOLEAN, SetActive(proc[x].task, active),
             UNCHANGED tasks
      PROVE  RowOK'
  <2>1. \A t \in tasks : [row[t] EXCEPT !.active = active] \in Row
    BY <1>1 DEF Row
  <2> QED BY <1>1, <1>3, <2>1 DEF SetActive, RowOK
<1>4. ASSUME NEW x \in Procs, UpdateRow(x)
      PROVE  RowOK'
  <2>1. \A t \in tasks : [row[t] EXCEPT !.config = proc[x].config] \in Row
    BY <1>1, <1>4, OpAt DEF Row, UpdateRow, FrameOK
  <2> QED BY <1>1, <1>4, <2>1 DEF UpdateRow, regVars, RowOK
<1>5. ASSUME NEW x \in Procs, DeleteRow(x)
      PROVE  RowOK'
  BY <1>1, <1>5 DEF DeleteRow, DeleteTask, regVars, RowOK
<1>6. ASSUME NEW x \in Procs, Deactivate(x) \/ Activate(x)
      PROVE  RowOK'
  BY <1>3, <1>6 DEF Deactivate, Activate, regVars
<1>7. CASE UNCHANGED <<row, tasks, unused>>
  BY <1>1, <1>7 DEF RowOK
<1>8. WhoChanges
  BY WhoChangesWhat
<1> QED BY <1>2, <1>4, <1>5, <1>6, <1>7, <1>8 DEF WhoChanges, ChangesRow

\* The type of the statuses of runs.
Statuses == {"none", "pending", "running", "succeed", "failed", "stopped"}

LEMMA StatusStep ==
  ASSUME LifeInv, [LifeNext]_vars
  PROVE  status' \in [RunIds -> Statuses]
<1>1. status \in [RunIds -> Statuses]
  BY DEF LifeInv, Core, LifeTypeOK, Statuses
<1>2. ASSUME NEW p \in Callers, TickCreate(p)
      PROVE  status' \in [RunIds -> Statuses]
  BY <1>1, <1>2 DEF TickCreate, Statuses
<1>3. ASSUME NEW r \in RunIds, RunStart(r) \/ RunFinish(r)
      PROVE  status' \in [RunIds -> Statuses]
  BY <1>1, <1>3 DEF RunStart, RunFinish, SetStatus, Statuses
<1>4. ASSUME NEW x \in Procs, StopPending(x) \/ DeleteRow(x)
      PROVE  status' \in [RunIds -> Statuses]
  <2>1. "stopped" \in Statuses /\ "none" \in Statuses
    BY DEF Statuses
  <2> QED BY <1>1, <1>4, <2>1 DEF StopPending, DeleteRow
<1>5. WhoChanges
  BY WhoChangesWhat
<1> QED BY <1>1, <1>2, <1>3, <1>4, <1>5 DEF WhoChanges, ChangesStatus

-----------------------------------------------------------------------------
(* The types of the variables, one by one.                                 *)

\* The type of the entries of the scheduler.
SchedOK ==
  /\ sched \in [Labels -> {Nil} \cup Entries]
  /\ \A t \in unused : sched[t] = Nil

\* What scheduleExecutable, called for a created task, does to both.
LEMMA ScheduleOK ==
  ASSUME LifeInv, NEW t \in Labels \ unused, NEW config \in Configs,
         ScheduleExecutable(t, config)
  PROVE  /\ sched' \in [Labels -> {Nil} \cup Entries]
         /\ \A u \in Labels \ {t} : sched'[u] = sched[u]
         /\ sched'[t] # Nil
         /\ sched[t] # Nil => sched' = sched
         /\ sched[t] = Nil => sched'[t].config = config
         /\ builds' \in Seq(Build)
         /\ DOMAIN builds \subseteq DOMAIN builds'
         /\ \A i \in DOMAIN builds : builds'[i] = builds[i]
         /\ \A i \in DOMAIN builds' \ DOMAIN builds :
              builds'[i] = [task |-> t, config |-> config, pc |-> "build"]
<1>1. sched \in [Labels -> {Nil} \cup Entries] /\ builds \in Seq(Build) /\ Nil \notin Entries
  BY NilAssumption DEF LifeInv, Core, LifeTypeOK, FreshInv, Entries
<1>2. CASE sched[t] # Nil
  BY <1>1, <1>2 DEF ScheduleExecutable, Scheduler!Exists
<1>3. CASE sched[t] = Nil
  <2> DEFINE e == [on |-> FALSE, config |-> config]
             b == [task |-> t, config |-> config, pc |-> "build"]
  <2>1. sched' = [sched EXCEPT ![t] = e] /\ builds' = Append(builds, b)
    BY <1>3 DEF ScheduleExecutable, Scheduler!Exists, Scheduler!Schedule, Scheduler!Entry
  <2>2. e \in Entries /\ b \in Build
    BY DEF Entries, Build
  <2>3. /\ builds' \in Seq(Build)
        /\ DOMAIN builds' = 1 .. Len(builds) + 1
        /\ DOMAIN builds = 1 .. Len(builds)
        /\ \A i \in 1 .. Len(builds) : builds'[i] = builds[i]
        /\ builds'[Len(builds) + 1] = b
        /\ Len(builds) \in Nat
    BY <1>1, <2>1, <2>2
  <2>4. /\ sched' \in [Labels -> {Nil} \cup Entries]
        /\ \A u \in Labels \ {t} : sched'[u] = sched[u]
        /\ sched'[t] = e
    BY <1>1, <2>1, <2>2
  <2>5. e.config = config /\ e # Nil
    BY <1>1, <2>2
  <2> HIDE DEF e, b
  <2> QED BY <1>3, <2>3, <2>4, <2>5 DEF b
<1> QED BY <1>2, <1>3

\* What a round of the start-up does: it schedules one task and queues its
\* pending runs.
LEMMA BootTaskSchedules ==
  ASSUME LifeInv, BootTask
  PROVE  \E t, s : /\ t \in toBoot /\ t \in tasks \ unused /\ t \in Labels
                   /\ row[t].config \in Configs /\ s \in PendingRuns(t)
                   /\ ScheduleExecutable(t, row[t].config)
                   /\ toBoot' = toBoot \ {t}
                   /\ QueueBecomes(Queue!EnqueuedAll(queue, Handles(s)), proc)
<1>1. PICK t \in toBoot : /\ \E s \in PendingRuns(t) :
                               QueueBecomes(Queue!EnqueuedAll(queue, Handles(s)), proc)
                          /\ ScheduleExecutable(t, row[t].config)
                          /\ toBoot' = toBoot \ {t}
  BY DEF BootTask
<1>2. t \in tasks /\ t \in Labels \ unused
  BY DEF LifeInv, Core, ServerInv, RegInv, RegTypeOK, CallsKnown
<1>3. row[t].config \in Configs
  BY <1>2 DEF LifeInv, Core, LifeTypeOK
<1> QED BY <1>1, <1>2, <1>3

\* The callers of register are past the query that found or made their task.
LEMMA RegisterSchedules ==
  ASSUME LifeInv, NEW x \in Procs, Register(x)
  PROVE  /\ proc[x].task \in Labels \ unused
         /\ proc[x].config \in Configs
         /\ ScheduleExecutable(proc[x].task, proc[x].config)
<1>1. FrameOK(proc[x], unused) /\ proc[x].op \in {"create", "start", "update"}
      /\ proc[x].pc = "register"
  BY OpAt DEF LifeInv, Core, ProcInv, Register, At
<1> QED BY <1>1 DEF FrameOK, Register

\* start, stop and delete of the scheduler make no entry.
LEMMA SchedulerOps ==
  ASSUME LifeInv, NEW t
  PROVE  \A s \in {Scheduler!Start(sched, t), Scheduler!Stop(sched, t), Scheduler!Delete(sched, t)} :
           /\ s \in [Labels -> {Nil} \cup Entries]
           /\ \A u \in Labels : sched[u] = Nil => s[u] = Nil
<1>1. sched \in [Labels -> {Nil} \cup Entries]
  BY DEF LifeInv, Core, LifeTypeOK, Entries
<1>2. \A u \in Labels, on \in BOOLEAN :
        sched[u] # Nil => [sched[u] EXCEPT !.on = on] \in Entries
  BY <1>1 DEF Entries
<1> QED BY <1>1, <1>2
        DEF Scheduler!Start, Scheduler!Stop, Scheduler!Delete, Scheduler!Exists

\* Entries are made for created tasks only.
LEMMA SchedStep ==
  ASSUME LifeInv, [LifeNext]_vars
  PROVE  SchedOK'
<1>1. SchedOK /\ unused' \subseteq unused /\ unused \subseteq Labels
  BY UnusedShrinks DEF LifeInv, Core, LifeTypeOK, FreshInv, SchedOK, Entries, RegTypeOK
<1>2. ASSUME sched' \in [Labels -> {Nil} \cup Entries],
             \A u \in Labels : sched[u] = Nil => sched'[u] = Nil
      PROVE  SchedOK'
  BY <1>1, <1>2 DEF SchedOK
<1>3. ASSUME NEW t \in Labels \ unused, NEW config \in Configs,
             ScheduleExecutable(t, config)
      PROVE  SchedOK'
  BY <1>1, <1>3, ScheduleOK DEF SchedOK
<1>4. ASSUME NEW i \in DOMAIN builds, BuildStart(i)
      PROVE  SchedOK'
  BY <1>2, <1>4, SchedulerOps DEF BuildStart
<1>5. ASSUME NEW p \in Callers, TickReturn(p)
      PROVE  SchedOK'
  <2>1. CASE sched' = sched
    BY <1>1, <1>2, <2>1 DEF SchedOK
  <2>2. CASE sched' = Scheduler!Stop(sched, tick[p].task)
    BY <1>2, <2>2, SchedulerOps
  <2> QED BY <1>5, <2>1, <2>2 DEF TickReturn
<1>6. ASSUME NEW x \in Procs, Unschedule(x)
      PROVE  SchedOK'
  BY <1>2, <1>6, SchedulerOps DEF Unschedule
<1>7. ASSUME NEW x \in Procs, Register(x)
      PROVE  SchedOK'
  BY <1>3, <1>7, RegisterSchedules
<1>8. CASE BootTask
  BY <1>3, <1>8, BootTaskSchedules
<1>9. CASE Crash
  BY <1>1, <1>9 DEF Crash, SchedOK
<1>10. CASE UNCHANGED sched
  BY <1>1, <1>10 DEF SchedOK
<1>11. WhoChanges
  BY WhoChangesWhat
<1> QED BY <1>4, <1>5, <1>6, <1>7, <1>8, <1>9, <1>10, <1>11 DEF WhoChanges, ChangesSched

\* The type of the builds.
BuildsOK ==
  /\ builds \in Seq(Build)
  /\ \A i \in DOMAIN builds : builds[i].task \notin unused

\* Builds are dispatched for created tasks only, and none is forgotten.
LEMMA BuildsStep ==
  ASSUME LifeInv, [LifeNext]_vars
  PROVE  BuildsOK' /\ DOMAIN builds \subseteq DOMAIN builds'
<1>1. BuildsOK /\ unused' \subseteq unused
  BY UnusedShrinks DEF LifeInv, Core, FreshInv, BuildsOK
<1>0. \A i \in DOMAIN builds : builds[i] \in Build
  BY <1>1 DEF BuildsOK
<1>2. ASSUME NEW i \in DOMAIN builds, NEW pc \in {"build", "orphan", "start", "done", "failed"},
             builds' = [builds EXCEPT ![i].pc = pc]
      PROVE  BuildsOK' /\ DOMAIN builds \subseteq DOMAIN builds'
  <2>1. [builds[i] EXCEPT !.pc = pc] \in Build /\ [builds[i] EXCEPT !.pc = pc].task = builds[i].task
    BY <1>0 DEF Build
  <2>2. builds' = [builds EXCEPT ![i] = [builds[i] EXCEPT !.pc = pc]]
    BY <1>1, <1>2 DEF BuildsOK
  <2> QED BY <1>1, <2>1, <2>2 DEF BuildsOK
<1>3. ASSUME NEW t \in Labels \ unused, NEW config \in Configs,
             ScheduleExecutable(t, config)
      PROVE  BuildsOK' /\ DOMAIN builds \subseteq DOMAIN builds'
  BY <1>1, <1>3, ScheduleOK DEF BuildsOK
<1>4. ASSUME NEW i \in DOMAIN builds, BuildStep(i)
      PROVE  BuildsOK' /\ DOMAIN builds \subseteq DOMAIN builds'
  BY <1>2, <1>4 DEF BuildStep, BuildImage, BuildFails, BuildStart
<1>5. ASSUME NEW x \in Procs, Register(x)
      PROVE  BuildsOK' /\ DOMAIN builds \subseteq DOMAIN builds'
  BY <1>3, <1>5, RegisterSchedules
<1>6. CASE BootTask
  BY <1>3, <1>6, BootTaskSchedules
<1>7. CASE Crash
  <2> DEFINE pcOf(i) == CASE builds[i].pc = "build" -> "orphan"
                          [] builds[i].pc = "start" -> "done"
                          [] OTHER -> builds[i].pc
  <2>1. builds' = [i \in DOMAIN builds |-> [builds[i] EXCEPT !.pc = pcOf(i)]]
    BY <1>7 DEF Crash
  <2>2. \A i \in DOMAIN builds : pcOf(i) \in {"build", "orphan", "start", "done", "failed"}
    BY <1>0 DEF Build
  <2> HIDE DEF pcOf
  <2>3. \A i \in DOMAIN builds : /\ [builds[i] EXCEPT !.pc = pcOf(i)] \in Build
                                 /\ [builds[i] EXCEPT !.pc = pcOf(i)].task = builds[i].task
    BY <1>0, <2>2 DEF Build
  <2>4. DOMAIN builds' = 1 .. Len(builds) /\ DOMAIN builds = 1 .. Len(builds)
        /\ Len(builds) \in Nat
    BY <1>1, <2>1 DEF BuildsOK
  <2>5. \A i \in 1 .. Len(builds) : builds'[i] \in Build
    BY <2>1, <2>3, <2>4
  <2>6. builds' \in [1 .. Len(builds) -> Build]
    BY <2>1, <2>4, <2>5
  <2>7. builds' \in Seq(Build)
    BY <2>4, <2>6, SeqDef
  <2> QED BY <1>1, <2>1, <2>3, <2>4, <2>7 DEF BuildsOK
<1>8. CASE UNCHANGED builds
  BY <1>1, <1>8 DEF BuildsOK
<1>9. WhoChanges
  BY WhoChangesWhat
<1> QED BY <1>4, <1>5, <1>6, <1>7, <1>8, <1>9 DEF WhoChanges, ChangesBuilds

\* The type of containers, of images, and of what a step makes of them.
Box == [state : {"running", "exited"}, code : {0, 1}, image : DOMAIN builds]

LEMMA ImageStep ==
  ASSUME LifeInv, [LifeNext]_vars
  PROVE  (image \in [Labels -> {Nil} \cup DOMAIN builds])'
<1>1. /\ image \in [Labels -> {Nil} \cup DOMAIN builds]
      /\ DOMAIN builds \subseteq DOMAIN builds'
  BY BuildsStep DEF LifeInv, Core, LifeTypeOK
<1>2. ASSUME NEW i \in DOMAIN builds, BuildImage(i)
      PROVE  image' \in [Labels -> {Nil} \cup DOMAIN builds']
  BY <1>1, <1>2 DEF BuildImage
<1>3. ASSUME NEW x \in Procs, RemoveImage(x)
      PROVE  image' \in [Labels -> {Nil} \cup DOMAIN builds']
  BY <1>1, <1>3 DEF RemoveImage
<1>4. ASSUME NEW r \in RunIds, RemoveUnusedImage(r)
      PROVE  image' \in [Labels -> {Nil} \cup DOMAIN builds']
  BY <1>1, <1>4 DEF RemoveUnusedImage
<1>5. WhoChanges
  BY WhoChangesWhat
<1> QED BY <1>1, <1>2, <1>3, <1>4, <1>5 DEF WhoChanges, ChangesImage

LEMMA BoxStep ==
  ASSUME LifeInv, [LifeNext]_vars
  PROVE  (box \in [Boxes -> {Nil} \cup Box])'
<1>1. /\ box \in [Boxes -> {Nil} \cup Box]
      /\ image \in [Labels -> {Nil} \cup DOMAIN builds]
      /\ boots \in 0 .. MaxBoot
  BY DEF LifeInv, Core, LifeTypeOK, ServerInv, Box
<1>2. Box \subseteq Box'
  BY BuildsStep DEF Box
<1>3. box' \in [Boxes -> {Nil} \cup Box]
  <2>1. ASSUME NEW r \in RunIds, RunDocker(r) \/ RunDockerFails(r)
        PROVE  box' \in [Boxes -> {Nil} \cup Box]
    <3>1. proc[r].task \in Labels
      <4>1. r \in Procs /\ proc[r].op = "run" /\ proc[r].pc = "run"
        BY <2>1, OpAt, ProcKinds, StepsOf DEF LifeInv, Core, RunDocker, RunDockerFails, At
      <4> QED BY <4>1 DEF LifeInv, Core, ProcInv, FrameOK
    <3>2. CASE image[proc[r].task] # Nil
      <4>1. image[proc[r].task] \in DOMAIN builds
        BY <1>1, <3>1, <3>2
      <4>2. /\ [state |-> "running", code |-> 0, image |-> image[proc[r].task]] \in Box
            /\ [state |-> "exited", code |-> 1, image |-> image[proc[r].task]] \in Box
        BY <4>1 DEF Box
      <4> QED BY <1>1, <2>1, <4>2 DEF RunDocker, RunDockerFails
    <3>3. CASE image[proc[r].task] = Nil
      BY <1>1, <2>1, <3>3 DEF RunDocker, RunDockerFails
    <3> QED BY <3>2, <3>3
  <2>2. ASSUME NEW b \in Boxes, box' = box \/ box' = Removed(b) \/ box' = Stopped(b)
        PROVE  box' \in [Boxes -> {Nil} \cup Box]
    <3>1. box[b] # Nil => [box[b] EXCEPT !.state = "exited", !.code = 1] \in Box
      BY <1>1 DEF Box
    <3>2. box[b] # Nil => [box EXCEPT ![b].state = "exited", ![b].code = 1]
                            = [box EXCEPT ![b] = [box[b] EXCEPT !.state = "exited", !.code = 1]]
      BY <1>1
    <3> QED BY <1>1, <2>2, <3>1, <3>2 DEF Removed, Stopped
  <2>3. ASSUME NEW x \in Procs, NEW b \in Boxes, HandleChild(x, b)
        PROVE  box' \in [Boxes -> {Nil} \cup Box]
    BY <2>2, <2>3 DEF HandleChild
  <2>4. ASSUME NEW r \in RunIds, RunRemove(r)
        PROVE  box' \in [Boxes -> {Nil} \cup Box]
    BY <1>1, <2>2, <2>4, BoxOfBox DEF RunRemove
  <2>5. ASSUME NEW b \in Boxes, BoxExits(b)
        PROVE  box' \in [Boxes -> {Nil} \cup Box]
    <3>1. PICK code \in {0, 1} : box' = [box EXCEPT ![b].state = "exited", ![b].code = code]
      BY <2>5 DEF BoxExits
    <3>2. [box[b] EXCEPT !.state = "exited", !.code = code] \in Box
      BY <1>1, <2>5 DEF Box, BoxExits
    <3>3. box' = [box EXCEPT ![b] = [box[b] EXCEPT !.state = "exited", !.code = code]]
      BY <1>1, <3>1
    <3> QED BY <1>1, <3>2, <3>3
  <2>6. WhoChanges
    BY WhoChangesWhat
  <2> QED BY <1>1, <2>1, <2>3, <2>4, <2>5, <2>6 DEF WhoChanges, ChangesBox
<1> QED BY <1>2, <1>3

-----------------------------------------------------------------------------
(* The queue of the system and the queue of its module.                    *)

\* The two instances of the queue are the same operators.
LEMMA SameQueue ==
  /\ \A s, f : Queue!Enqueued(s, f) = QueueProofs!Enqueued(s, f)
  /\ \A s, f : Queue!Settled(s, f) = QueueProofs!Settled(s, f)
  /\ \A s, fs : Queue!EnqueuedAll(s, fs) = QueueProofs!EnqueuedAll(s, fs)
  /\ \A s : Queue!Queued(s) = QueueProofs!Queued(s)
  /\ Queue!EmptyQueue = QueueProofs!EmptyQueue
BY DEF Queue!Enqueued, QueueProofs!Enqueued, Queue!Settled, QueueProofs!Settled,
       Queue!EnqueuedAll, QueueProofs!EnqueuedAll, Queue!Queued, QueueProofs!Queued,
       Queue!EmptyQueue, QueueProofs!EmptyQueue,
       Queue!ExecuteNext, QueueProofs!ExecuteNext, Queue!Saturated, QueueProofs!Saturated

\* One event of the queue: k functions of the line start.
Serve(line, k, base, n) == QueueProofs!Serve(line, k, base, n)

\* What the invariant of the queue says of its state.
LEMMA QueueFacts ==
  ASSUME LifeInv
  PROVE  /\ queue \in QueueProofs!QueueState
         /\ queue.queue \in Seq(RunHandles)
         /\ queue.executing \subseteq RunHandles
         /\ queue.running \in Nat
         /\ Queue!Queued(queue) \subseteq RunHandles
         /\ AllHandles \subseteq RunHandles
<1>1. /\ queue \in QueueProofs!QueueState
      /\ queue.queue \in Seq(RunHandles)
      /\ queue.executing \subseteq RunHandles
      /\ queue.running \in Nat
  BY DEF LifeInv, QueueProofs!Balanced, QueueProofs!Sound, QueueProofs!QueueState, RunHandles
<1>2. \A i \in DOMAIN queue.queue : queue.queue[i] \in RunHandles
  BY <1>1
<1> QED BY <1>1, <1>2 DEF AllHandles, Queue!Queued

-----------------------------------------------------------------------------
(* Who may step.                                                           *)

\* A step of the request or of the executor of x, other than its end.
FrameStep(x) ==
  \/ x \in Clients /\ (Request(x) \/ FindName(x) \/ InsertRow(x))
  \/ RoutineStep(x)
  \/ x \in RunIds /\ RunStep(x) /\ ~RunSettles(x)

\* A step of docker or of a build.
OutsideStep ==
  \/ \E i \in DOMAIN builds : BuildStep(i)
  \/ \E b \in Boxes : BoxExits(b)
  \/ UNCHANGED vars

\* Every step is one of these.
LEMMA Kinds ==
  ASSUME [LifeNext]_vars
  PROVE  \/ \E x \in Procs : FrameStep(x)
         \/ \E r \in RunIds : RunSettles(r)
         \/ OutsideStep
         \/ \E p \in Callers, t \in Labels : CronFires(p, t)
         \/ \E p \in Callers : TickStep(p)
         \/ BootStep
         \/ Crash
BY DEF LifeNext, FrameStep, OutsideStep, Procs

\* Docker and builds change nothing that the flows hold in memory.
LEMMA OutsideFrame ==
  ASSUME OutsideStep
  PROVE  UNCHANGED <<regVars, dbVars, queue, tick, proc, serverVars>>
BY DEF OutsideStep, BuildStep, BuildImage, BuildFails, BuildStart, BoxExits, vars,
       memVars

\* All steps of a flow move that flow only.
LEMMA FindNameMoves ==
  ASSUME ProcInv, NEW c \in Clients, FindName(c)
  PROVE  Moves(c)
<1>1. c \in Procs /\ unused' = unused
  BY ProcKinds DEF FindName, regVars
<1> QED BY <1>1, FinishMoves, AdvanceMoves DEF FindName, At

LEMMA FrameMoves ==
  ASSUME LifeInv, NEW x \in Procs, FrameStep(x)
  PROVE  Moves(x)
<1>1. ProcInv /\ LifeTypeOK /\ RegTypeOK /\ boots \in 0 .. MaxBoot
  BY DEF LifeInv, Core, RegInv, ServerInv
<1> QED BY <1>1, RequestMoves, FindNameMoves, InsertRowMoves, RoutineMoves, RunMoves
        DEF FrameStep

\* The steps of a flow leave the ticks, the queue and the start-up alone.
LEMMA FrameKeeps ==
  ASSUME NEW x \in Procs, FrameStep(x)
  PROVE  /\ UNCHANGED <<call, body, lastId, queue, tick, server, toBoot, boots>>
         /\ runs' \subseteq runs
         /\ x \in Clients \/ UNCHANGED regVars \/ DeleteRow(x)
<1>1. CASE x \in Clients /\ (Request(x) \/ FindName(x) \/ InsertRow(x))
  BY <1>1 DEF Request, FindName, InsertRow, InsertTask, regVars, mutexVars, serverVars
<1>2. CASE DeleteRow(x)
  BY <1>2 DEF DeleteRow, DeleteTask, regVars, mutexVars, serverVars
<1>3. CASE RoutineStep(x) /\ ~DeleteRow(x)
  BY <1>3 DEF RoutineStep, Find, Deactivate, Activate, Unschedule, ListChildren,
       HandleChild, StopPending, RemoveImage, Register, UpdateRow, CommandFails,
       regVars, serverVars
<1>4. CASE x \in RunIds /\ RunStep(x) /\ ~RunSettles(x)
  BY <1>4 DEF RunStep, RunCheck, RunDocker, RunDockerFails, RunStart, RunWait,
       RunFinish, RunRemove, RemoveUnusedImage, regVars, serverVars
<1> QED BY <1>1, <1>2, <1>3, <1>4 DEF FrameStep

\* Only runs step while the server is down or booting, and they change no
\* table of registration and make no entry.
LEMMA FrameBoots ==
  ASSUME LifeInv, NEW x \in Procs, FrameStep(x)
  PROVE  /\ x \in Clients => server = "up"
         /\ x \in RunIds => /\ UNCHANGED regVars
                            /\ server # "down"
                            /\ \A t \in Labels : sched[t] = Nil => sched'[t] = Nil
<1>1. ProcInv /\ Moves(x)
  BY FrameMoves DEF LifeInv, Core
<1>2. CASE x \in Clients
  <2>1. x \notin RunIds
    BY <1>2, ProcKinds
  <2>2. Request(x) \/ proc[x].pc # "idle"
    BY <2>1 DEF FrameStep, RoutineStep, FindName, InsertRow, Find, Deactivate, Activate,
       Unschedule, ListChildren, HandleChild, StopPending, RemoveImage, Register,
       UpdateRow, DeleteRow, CommandFails, At
  <2> QED BY <1>2, <2>1, <2>2 DEF LifeInv, Core, ServerInv, Request
<1>3. CASE x \in RunIds
  <2>1. x \notin Clients /\ proc[x].pc # "idle"
    BY <1>1, <1>3, ProcKinds DEF Moves
  <2>2. server # "down"
    <3>1. PICK h \in queue.executing : h.runId = x
      BY <1>3, <2>1 DEF LifeInv, Core, ExecInv
    <3> QED BY <3>1 DEF LifeInv, Core, ServerInv, Queue!EmptyQueue
  <2>3. ~DeleteRow(x) /\ ~Register(x)
    <3>1. proc[x].op \notin {"create", "start", "update", "delete"}
      BY <1>1, <1>3 DEF ProcInv
    <3> QED BY <1>1, <3>1, OpAt DEF DeleteRow, Register
  <2>4. \A t \in Labels : sched[t] = Nil => sched'[t] = Nil
    <3>1. CASE Unschedule(x)
      BY <3>1, SchedulerOps DEF Unschedule
    <3>2. CASE UNCHANGED sched
      BY <3>2
    <3>3. RoutineStep(x) /\ ~Unschedule(x) => UNCHANGED sched
      BY <2>3 DEF RoutineStep, Find, Deactivate, Activate, ListChildren,
         HandleChild, StopPending, RemoveImage, UpdateRow, CommandFails
    <3>4. RunStep(x) => UNCHANGED sched
      BY DEF RunStep, RunCheck, RunDocker, RunDockerFails, RunStart, RunWait,
         RunFinish, RunRemove, RemoveUnusedImage, RunSettles
    <3> QED BY <2>1, <3>1, <3>2, <3>3, <3>4 DEF FrameStep
  <2> QED BY <2>1, <2>2, <2>3, <2>4, FrameKeeps
<1> QED BY <1>2, <1>3, ProcKinds

-----------------------------------------------------------------------------
(* Ticks.                                                                  *)

\* Steps of a tick leave tasks and docker alone, and but for the last one also
\* the scheduler and the queue.
LEMMA TickFrame ==
  ASSUME NEW p \in Callers, TickStep(p)
  PROVE  /\ UNCHANGED <<row, tasks, unused, builds, dockerVars, serverVars>>
         /\ \/ UNCHANGED <<sched, queue, proc>>
            \/ TickReturn(p)
BY DEF TickStep, TickCheck, TickRegister, TickRetry, TickCount, TickCreate, TickRefused,
       TickReturn, TryToRegister, RetryRegister, CountRuns, CreateRun, QueryRejects,
       Return, regVars, tableVars, dbVars, memVars

\* Cron starts a tick, and changes nothing else.
LEMMA CronFrame ==
  ASSUME NEW p, NEW t, CronFires(p, t)
  PROVE  UNCHANGED <<regVars, dbVars, sched, queue, proc, builds, dockerVars, serverVars>>
BY DEF CronFires

\* Steps of boot and the end of a run leave the ticks and the tables alone.
LEMMA BootFrame ==
  ASSUME BootStep
  PROVE  UNCHANGED <<regVars, dbVars, tick, dockerVars, boots, requests>>
BY DEF BootStep, BootList, BootTask, Listen, memVars

LEMMA SettleFrame ==
  ASSUME NEW r \in RunIds, RunSettles(r)
  PROVE  UNCHANGED <<regVars, dbVars, sched, tick, builds, dockerVars, serverVars>>
BY DEF RunSettles

-----------------------------------------------------------------------------
(* Events of the queue.                                                    *)

\* No run twice: in a line, and in a set of handles.
DistinctRuns(line) ==
  \A i, j \in 1 .. Len(line) : line[i].runId = line[j].runId => i = j
OneEach(S) == \A g, h \in S : g.runId = h.runId => g = h

\* Where the functions of the line are after an event.
LEMMA ServeFacts ==
  ASSUME NEW line \in Seq(RunHandles), NEW k \in 0 .. Len(line), NEW base, NEW n,
         queue' = Serve(line, k, base, n)
  PROVE  /\ DOMAIN queue'.queue = 1 .. Len(line) - k
         /\ \A i \in 1 .. Len(line) - k : /\ queue'.queue[i] = line[k + i]
                                          /\ k + i \in k + 1 .. Len(line)
         /\ queue'.executing = base \cup {line[i] : i \in 1 .. k}
         /\ Queue!Queued(queue)' = {line[i] : i \in k + 1 .. Len(line)}
         /\ AllHandles' = base \cup {line[i] : i \in 1 .. Len(line)}
<1>1. /\ queue'.queue \in Seq(RunHandles)
      /\ Len(queue'.queue) = Len(line) - k
      /\ \A i \in 1 .. Len(line) - k : queue'.queue[i] = line[k + i]
      /\ queue'.executing = base \cup {line[i] : i \in 1 .. k}
  BY ConcurrencyAssumption, QueueProofs!ServeParts DEF Serve
<1>2. Len(line) \in Nat /\ k \in Nat
  OBVIOUS
<1>3. DOMAIN queue'.queue = 1 .. Len(line) - k
  BY <1>1, <1>2
<1>4. \A i \in 1 .. Len(line) - k : k + i \in k + 1 .. Len(line)
  BY <1>2
<1>5. \A i \in k + 1 .. Len(line) : i - k \in 1 .. Len(line) - k /\ k + (i - k) = i
  BY <1>2
<1>6. {queue'.queue[i] : i \in 1 .. Len(line) - k} = {line[i] : i \in k + 1 .. Len(line)}
  <2>1. \A i \in k + 1 .. Len(line) : line[i] = queue'.queue[i - k] /\ i - k \in 1 .. Len(line) - k
    BY <1>1, <1>5
  <2>2. {line[i] : i \in k + 1 .. Len(line)} \subseteq {queue'.queue[i] : i \in 1 .. Len(line) - k}
    BY <2>1
  <2>3. \A i \in 1 .. Len(line) - k : queue'.queue[i] \in {line[j] : j \in k + 1 .. Len(line)}
    BY <1>1, <1>4
  <2> QED BY <2>2, <2>3
<1>7. Queue!Queued(queue)' = {line[i] : i \in k + 1 .. Len(line)}
  BY <1>3, <1>6 DEF Queue!Queued
<1>8. {line[i] : i \in 1 .. Len(line)} = {line[i] : i \in 1 .. k} \cup {line[i] : i \in k + 1 .. Len(line)}
  <2>1. 1 .. Len(line) = (1 .. k) \cup (k + 1 .. Len(line))
    BY <1>2
  <2> QED BY <2>1
<1>9. AllHandles' = Queue!Queued(queue)' \cup queue'.executing
  BY DEF AllHandles
<1> QED BY <1>1, <1>3, <1>4, <1>7, <1>8, <1>9

\* The runs of a line without repetitions, and those already started, stay in
\* one place each.
LEMMA ServeOnce ==
  ASSUME NEW line \in Seq(RunHandles), NEW k \in 0 .. Len(line), NEW base, NEW n,
         queue' = Serve(line, k, base, n),
         DistinctRuns(line), OneEach(base),
         \A h \in base, i \in 1 .. Len(line) : h.runId # line[i].runId
  PROVE  RunQueuedOnce' /\ OneEach(queue'.executing)
<1>1. /\ DOMAIN queue'.queue = 1 .. Len(line) - k
      /\ \A i \in 1 .. Len(line) - k : /\ queue'.queue[i] = line[k + i]
                                       /\ k + i \in k + 1 .. Len(line)
      /\ queue'.executing = base \cup {line[i] : i \in 1 .. k}
  BY ServeFacts
<1>2. Len(line) \in Nat /\ k \in Nat /\ 1 .. k \subseteq 1 .. Len(line)
      /\ k + 1 .. Len(line) \subseteq 1 .. Len(line)
  OBVIOUS
<1>3. \A i, j \in DOMAIN queue'.queue : queue'.queue[i].runId = queue'.queue[j].runId => i = j
  <2> SUFFICES ASSUME NEW i \in 1 .. Len(line) - k, NEW j \in 1 .. Len(line) - k,
                      queue'.queue[i].runId = queue'.queue[j].runId
               PROVE  i = j
    BY <1>1
  <2>1. k + i \in 1 .. Len(line) /\ k + j \in 1 .. Len(line)
        /\ line[k + i].runId = line[k + j].runId
    BY <1>1, <1>2
  <2>2. k + i = k + j
    BY <2>1 DEF DistinctRuns
  <2> QED BY <1>2, <2>2
<1>4. \A h \in queue'.executing, i \in DOMAIN queue'.queue : h.runId # queue'.queue[i].runId
  <2> SUFFICES ASSUME NEW h \in queue'.executing, NEW i \in 1 .. Len(line) - k
               PROVE  h.runId # queue'.queue[i].runId
    BY <1>1
  <2>1. k + i \in 1 .. Len(line) /\ queue'.queue[i] = line[k + i]
    BY <1>1, <1>2
  <2>2. CASE h \in base
    BY <2>1, <2>2
  <2>3. ASSUME NEW j \in 1 .. k, h = line[j]
        PROVE  h.runId # queue'.queue[i].runId
    <3>1. j \in 1 .. Len(line) /\ j # k + i
      BY <1>2
    <3> QED BY <2>1, <2>3, <3>1 DEF DistinctRuns
  <2> QED BY <1>1, <2>2, <2>3
<1>5. OneEach(queue'.executing)
  <2> SUFFICES ASSUME NEW g \in queue'.executing, NEW h \in queue'.executing, g.runId = h.runId
               PROVE  g = h
    BY DEF OneEach
  <2>1. \A i, j \in 1 .. k : line[i].runId = line[j].runId => i = j
    BY <1>2 DEF DistinctRuns
  <2>2. \A e \in base, i \in 1 .. k : e.runId # line[i].runId
    BY <1>2
  <2> QED BY <1>1, <2>1, <2>2 DEF OneEach
<1> QED BY <1>3, <1>4, <1>5 DEF RunQueuedOnce

-----------------------------------------------------------------------------
(* What an event of the queue does to the frames of runs.                  *)

\* The frame of a function that was just started.
FrameOf(h) == [op |-> "run", pc |-> "check", task |-> h.taskId, name |-> Nil,
               config |-> Nil, children |-> {}, code |-> 0]

\* The frame of a new function, and of none, are frames.
LEMMA FrameOfOK ==
  ASSUME NEW h \in RunHandles, h.taskId \notin unused
  PROVE  FrameOK(FrameOf(h), unused) /\ FrameOf(h).op = "run" /\ FrameOf(h).pc = "check"
         /\ FrameOf(h).task = h.taskId
<1>1. "check" \in Steps("run") /\ "check" \in StepNames /\ "run" \in DOMAIN Routine
  BY StepsOf, StepNamesOf
<1>2. h.taskId \in Labels
  BY DEF RunHandles
<1>3. FrameOf(h) \in Frames
  BY <1>1, <1>2 DEF FrameOf, Frames
<1> QED BY <1>1, <1>2, <1>3 DEF FrameOK, FrameOf

LEMMA IdleOK ==
  FrameOK(IdleProc, unused) /\ IdleProc.op = "none" /\ IdleProc.pc = "idle"
BY DEF IdleProc, FrameOK, Frames, StepNames

\* The functions that q starts get their frames, and only they.
LEMMA BecomesFrames ==
  ASSUME NEW q, NEW pr, QueueBecomes(q, pr), q.executing \subseteq RunHandles,
         OneEach(q.executing)
  PROVE  /\ queue' = q
         /\ DOMAIN proc' = Procs
         /\ \A h \in q.executing \ queue.executing :
              h.runId \in RunIds /\ proc'[h.runId] = FrameOf(h)
         /\ \A x \in Procs : (\A h \in q.executing \ queue.executing : h.runId # x)
                               => proc'[x] = pr[x]
<1> DEFINE starting == {h.runId : h \in q.executing \ queue.executing}
<1>1. /\ queue' = q
      /\ proc' = [x \in Procs |-> IF x \in starting THEN Started(q, x) ELSE pr[x]]
  BY DEF QueueBecomes
<1>2. ASSUME NEW h \in q.executing
      PROVE  h.runId \in RunIds /\ h.runId \in Procs /\ HandleIn(q, h.runId) = h
  <2>1. h.runId \in RunIds
    BY <1>2 DEF RunHandles
  <2>2. HandleIn(q, h.runId) = h
    BY <1>2 DEF HandleIn, OneEach
  <2> QED BY <2>1, <2>2, ProcKinds
<1>3. \A h \in q.executing : Started(q, h.runId) = FrameOf(h)
  <2>1. \A t : [IdleProc EXCEPT !.op = "run", !.pc = "check", !.task = t]
                = [op |-> "run", pc |-> "check", task |-> t, name |-> Nil,
                   config |-> Nil, children |-> {}, code |-> 0]
    <3> TAKE t
    <3> DEFINE a == [IdleProc EXCEPT !.op = "run"]
               b == [a EXCEPT !.pc = "check"]
    <3>1. a = [op |-> "run", pc |-> "idle", task |-> NoLabel, name |-> Nil,
               config |-> Nil, children |-> {}, code |-> 0]
      BY DEF IdleProc
    <3>0. [IdleProc EXCEPT !.op = "run", !.pc = "check", !.task = t] = [b EXCEPT !.task = t]
      OBVIOUS
    <3> HIDE DEF a
    <3>2. b = [op |-> "run", pc |-> "check", task |-> NoLabel, name |-> Nil,
               config |-> Nil, children |-> {}, code |-> 0]
      BY <3>1
    <3> HIDE DEF b
    <3> QED BY <3>0, <3>2
  <2>2. \A h \in q.executing : Started(q, h.runId)
          = [IdleProc EXCEPT !.op = "run", !.pc = "check", !.task = h.taskId]
    BY <1>2 DEF Started
  <2> QED BY <2>1, <2>2 DEF FrameOf
<1>4. ASSUME NEW h \in q.executing \ queue.executing
      PROVE  h.runId \in RunIds /\ proc'[h.runId] = FrameOf(h)
  <2>1. h.runId \in starting
    OBVIOUS
  <2> QED BY <1>1, <1>2, <1>3, <2>1
<1>5. \A x \in Procs : (\A h \in q.executing \ queue.executing : h.runId # x)
                         => proc'[x] = pr[x]
  BY <1>1
<1> QED BY <1>1, <1>4, <1>5

\* After an event the functions that execute are those that have a frame.
LEMMA BecomesExec ==
  ASSUME LifeInv, NEW q, NEW pr, QueueBecomes(q, pr), q.executing \subseteq RunHandles,
         OneEach(q.executing), UNCHANGED unused,
         \A h \in q.executing : h.taskId \notin unused,
         \A x \in Procs : pr[x] = proc[x] \/ (x \in RunIds /\ pr[x] = IdleProc),
         \A h \in q.executing \cap queue.executing : pr[h.runId] = proc[h.runId],
         \A r \in RunIds : pr[r].pc # "idle" => \E h \in q.executing : h.runId = r
  PROVE  ProcInv' /\ ExecInv' /\ \A c \in Clients : proc'[c] = proc[c]
<1>1. /\ queue' = q
      /\ DOMAIN proc' = Procs
      /\ \A h \in q.executing \ queue.executing :
           h.runId \in RunIds /\ proc'[h.runId] = FrameOf(h)
      /\ \A x \in Procs : (\A h \in q.executing \ queue.executing : h.runId # x)
                            => proc'[x] = pr[x]
  BY BecomesFrames
<1>2. \A h \in q.executing : /\ FrameOK(FrameOf(h), unused) /\ FrameOf(h).op = "run"
                             /\ FrameOf(h).pc = "check" /\ FrameOf(h).task = h.taskId
  BY FrameOfOK
<1>3. ASSUME NEW x \in Procs
      PROVE  \/ proc'[x] = proc[x]
             \/ x \in RunIds /\ proc'[x] = IdleProc
             \/ x \in RunIds /\ \E h \in q.executing : h.runId = x /\ proc'[x] = FrameOf(h)
  BY <1>1
<1>4. ProcInv
  BY DEF LifeInv, Core
<1>5. \A c \in Clients : proc'[c] = proc[c] /\ c \in Procs
  BY <1>3, ProcKinds
<1>6. \A x \in Procs : FrameOK(proc'[x], unused')
  BY <1>2, <1>3, <1>4, IdleOK DEF ProcInv
<1>7. \A r \in RunIds : proc'[r].op \in {"none", "run", "stop", "limit"}
  BY <1>2, <1>3, <1>4, IdleOK, ProcKinds DEF ProcInv
<1>8. ProcInv'
  BY <1>1, <1>4, <1>5, <1>6, <1>7 DEF ProcInv
<1>9. ASSUME NEW h \in q.executing
      PROVE  /\ proc'[h.runId].pc # "idle"
             /\ proc'[h.runId].op # "none" => proc'[h.runId].task = h.taskId
  <2>1. CASE h \notin queue.executing
    BY <1>1, <1>2, <2>1
  <2>2. CASE h \in queue.executing
    <3>1. h.runId \in Procs
      BY ProcKinds DEF RunHandles
    <3>2. \A g \in q.executing \ queue.executing : g.runId # h.runId
      BY <2>2 DEF OneEach
    <3>3. proc'[h.runId] = proc[h.runId]
      BY <1>1, <2>2, <3>1, <3>2
    <3> QED BY <2>2, <3>3 DEF LifeInv, Core, ExecInv
  <2> QED BY <2>1, <2>2
<1>10. ASSUME NEW r \in RunIds, proc'[r].pc # "idle"
       PROVE  \E h \in q.executing : h.runId = r
  BY <1>1, <1>10, ProcKinds
<1> QED BY <1>1, <1>5, <1>8, <1>9, <1>10 DEF ExecInv

-----------------------------------------------------------------------------
(* The parts of the invariant that the flows, the ticks, the queue and the *)
(* start-up share.                                                         *)

\* The parts of the invariant that the flows and the queue share.
Live == /\ ProcInv /\ TickInv /\ IdsInv /\ PlaceInv /\ ExecInv /\ ServerInv
        /\ QueueProofs!Balanced(queue)

\* No container has the number of a life of the process that is yet to come.
FutureNil == \A b \in Boxes : b[2] > boots => box[b] = Nil

\* A container is made with the number of the present life of the process.
LEMMA BoxesStep ==
  ASSUME LifeInv, [LifeNext]_vars
  PROVE  /\ boots' >= boots /\ boots' \in 0 .. MaxBoot
         /\ \A b \in Boxes : box[b] = Nil /\ box'[b] # Nil => b[2] = boots
         /\ FutureNil'
<1>1. boots \in 0 .. MaxBoot /\ FutureNil /\ MaxBoot \in Nat
      /\ box \in [Boxes -> {Nil} \cup Box]
  BY MaxBootAssumption DEF LifeInv, Core, ServerInv, FutureNil, LifeTypeOK, Box
<1>2. boots' >= boots /\ boots' \in 0 .. MaxBoot
  <2>1. UNCHANGED boots \/ BootStep \/ Crash
    BY WhoChangesWhat DEF WhoChanges, ChangesServer
  <2>2. CASE Crash
    BY <1>1, <2>2 DEF Crash
  <2> QED BY <1>1, <2>1, <2>2, BootFrame
<1>3. \A b \in Boxes : box[b] = Nil /\ box'[b] # Nil => b[2] = boots
  <2>1. ASSUME NEW r \in RunIds, RunDocker(r) \/ RunDockerFails(r)
        PROVE  \A b \in Boxes : box[b] = Nil /\ box'[b] # Nil => b[2] = boots
    BY <1>1, <2>1 DEF RunDocker, RunDockerFails, BoxOf
  <2>2. ASSUME NEW c \in Boxes, box' = box \/ box' = Removed(c) \/ box' = Stopped(c)
        PROVE  \A b \in Boxes : box[b] = Nil /\ box'[b] # Nil => b[2] = boots
    BY <1>1, <2>2 DEF Removed, Stopped
  <2>3. ASSUME NEW r \in RunIds, RunRemove(r)
        PROVE  \A b \in Boxes : box[b] = Nil /\ box'[b] # Nil => b[2] = boots
    BY <1>1, <2>2, <2>3, BoxOfBox DEF RunRemove
  <2>4. ASSUME NEW x \in Procs, NEW b \in Boxes, HandleChild(x, b)
        PROVE  \A d \in Boxes : box[d] = Nil /\ box'[d] # Nil => d[2] = boots
    BY <2>2, <2>4 DEF HandleChild
  <2>5. ASSUME NEW c \in Boxes, BoxExits(c)
        PROVE  \A b \in Boxes : box[b] = Nil /\ box'[b] # Nil => b[2] = boots
    BY <1>1, <2>5 DEF BoxExits
  <2> QED BY <2>1, <2>3, <2>4, <2>5, WhoChangesWhat DEF WhoChanges, ChangesBox
<1>4. FutureNil'
  <2> SUFFICES ASSUME NEW b \in Boxes, b[2] > boots', box'[b] # Nil PROVE FALSE
    BY DEF FutureNil
  <2>1. b[2] \in 0 .. MaxBoot /\ boots \in Int /\ boots' \in Int
    BY <1>1, <1>2 DEF Boxes
  <2>2. b[2] > boots /\ b[2] # boots
    BY <1>2, <2>1
  <2> QED BY <1>1, <1>3, <2>2 DEF FutureNil
<1> QED BY <1>2, <1>3, <1>4

\* A tick that holds a run has not left the mutex.
LEMMA HoldsInMutex ==
  ASSUME LifeInv, NEW p \in Callers, Holds(p)
  PROVE  /\ Inside(p) /\ tick[p].pc = "mutex" /\ tick[p].task \in Labels \ unused
         /\ call[p].label = tick[p].task
<1>1. Inside(p)
  BY DEF LifeInv, RegInv, BodyInside, Holds
<1> QED BY <1>1 DEF LifeInv, Core, TickInv, Inside

\* No run is added to the queue or to a tick.
LEMMA PlacesKept ==
  ASSUME IdsInv, PlaceInv, UNCHANGED <<lastId, queue>>, runs' \subseteq runs,
         unused' \subseteq unused,
         \A p \in Callers : Holds(p)' => Holds(p) /\ tick'[p] = tick[p]
  PROVE  IdsInv' /\ PlaceInv'
<1>1. AllHandles' = AllHandles
  BY DEF AllHandles, Queue!Queued
<1>2. \A p \in Callers : Holds(p)' => Held(p)' = Held(p)
  BY DEF Held
<1>3. IdsInv'
  <2>1. \A h \in AllHandles' \cup {Held(p)' : p \in {q \in Callers : Holds(q)'}} :
          h \in AllHandles \cup {Held(p) : p \in {q \in Callers : Holds(q)}}
    BY <1>1, <1>2
  <2> QED BY <2>1 DEF IdsInv, Handle
<1>4. RunQueuedOnce'
  BY DEF PlaceInv, RunQueuedOnce
<1>5. PlaceInv'
  BY <1>1, <1>4 DEF PlaceInv
<1> QED BY <1>3, <1>5

\* Steps that leave a part of the state alone keep what the invariant says of it.
LEMMA TickKept ==
  ASSUME TickInv, UNCHANGED <<tick, call>>, unused' \subseteq unused
  PROVE  TickInv'
BY DEF TickInv

LEMMA BalancedKept ==
  ASSUME QueueProofs!Balanced(queue), UNCHANGED queue
  PROVE  QueueProofs!Balanced(queue')
OBVIOUS

LEMMA ProcKept ==
  ASSUME ProcInv, ExecInv, UNCHANGED <<proc, queue>>, unused' \subseteq unused
  PROVE  ProcInv' /\ ExecInv'
<1>1. \A f : FrameOK(f, unused) => FrameOK(f, unused')
  BY DEF FrameOK
<1>2. ProcInv'
  BY <1>1 DEF ProcInv
<1> QED BY <1>2 DEF ExecInv

\* Steps of the flows keep the shared parts of the invariant.
LEMMA FrameExec ==
  ASSUME LifeInv, NEW x \in Procs, Moves(x), UNCHANGED queue, unused' \subseteq unused
  PROVE  ProcInv' /\ ExecInv'
<1>1. \A f : FrameOK(f, unused) => FrameOK(f, unused')
  BY DEF FrameOK
<1>2. ProcInv /\ ExecInv
  BY DEF LifeInv, Core
<1>3. ProcInv'
  BY <1>1, <1>2, ProcKinds DEF ProcInv, Moves
<1>4. queue.executing \subseteq RunHandles
  BY QueueFacts
<1>5. \A h \in queue.executing : h.runId \in RunIds /\ h.runId \in Procs
  BY <1>4, ProcKinds DEF RunHandles
<1>6. \A h \in queue.executing :
        /\ proc'[h.runId].pc # "idle"
        /\ proc'[h.runId].op # "none" => proc'[h.runId].task = h.taskId
  BY <1>2, <1>5 DEF ExecInv, Moves
<1>7. \A r \in RunIds : proc'[r].pc # "idle" => \E h \in queue.executing : h.runId = r
  BY <1>2, ProcKinds DEF ExecInv, Moves
<1> QED BY <1>3, <1>6, <1>7 DEF ExecInv

LEMMA FrameLive ==
  ASSUME LifeInv, [LifeNext]_vars, NEW x \in Procs, FrameStep(x)
  PROVE  Live'
<1>1. /\ Live /\ Moves(x) /\ unused' \subseteq unused /\ FutureNil'
      /\ UNCHANGED <<call, body, lastId, queue, tick, server, toBoot, boots>>
      /\ runs' \subseteq runs
  BY FrameMoves, FrameKeeps, UnusedShrinks, BoxesStep DEF LifeInv, Core, Live
<1>2. ProcInv' /\ ExecInv'
  BY <1>1, FrameExec
<1>3. TickInv'
  BY <1>1, TickKept DEF Live
<1>4. \A p \in Callers : Holds(p)' => Holds(p) /\ tick'[p] = tick[p]
  BY <1>1 DEF Holds
<1>5. IdsInv' /\ PlaceInv'
  BY <1>1, <1>4, PlacesKept DEF Live
<1>6. ServerInv'
  <2>1. ServerInv /\ AllHandles' = AllHandles
    BY <1>1 DEF Live, AllHandles, Queue!Queued
  <2>2. CASE x \in Clients
    <3>1. server = "up" /\ toBoot = {}
      BY <2>1, <2>2, FrameBoots DEF ServerInv
    <3> QED BY <1>1, <2>1, <3>1 DEF ServerInv, FutureNil
  <2>3. CASE x \in RunIds
    <3>1. /\ UNCHANGED regVars /\ server # "down"
          /\ \A t \in Labels : sched[t] = Nil => sched'[t] = Nil
      BY <2>3, FrameBoots
    <3>2. \A c \in Clients : proc'[c] = proc[c]
      BY <1>1, <2>3, ProcKinds DEF Moves
    <3>3. toBoot \subseteq Labels /\ toBoot' \subseteq tasks'
      BY <1>1, <2>1, <3>1 DEF ServerInv, LifeInv, RegInv, RegTypeOK, regVars
    <3>4. \A t \in toBoot' : /\ sched'[t] = Nil
                             /\ \A h \in AllHandles' : h.taskId # t
                             /\ \A p \in Callers : tick'[p].pc = "idle" \/ tick'[p].task # t
      BY <1>1, <2>1, <3>1, <3>3 DEF ServerInv
    <3> QED BY <1>1, <2>1, <3>1, <3>2, <3>3, <3>4 DEF ServerInv, FutureNil
  <2> QED BY <2>2, <2>3, ProcKinds
<1>7. QueueProofs!Balanced(queue')
  BY <1>1 DEF Live
<1> QED BY <1>2, <1>3, <1>5, <1>6, <1>7 DEF Live

\* So do docker and the builds.
LEMMA OutsideLive ==
  ASSUME LifeInv, [LifeNext]_vars, OutsideStep
  PROVE  Live'
<1>1. /\ Live /\ FutureNil'
      /\ UNCHANGED <<call, body, lastId, queue, tick, proc, server, toBoot, boots>>
      /\ UNCHANGED <<runs, unused, tasks>>
  BY OutsideFrame, BoxesStep DEF LifeInv, Core, Live, regVars, serverVars
<1>2. ProcInv' /\ ExecInv'
  BY <1>1, ProcKept DEF Live
<1>3. TickInv'
  BY <1>1, TickKept DEF Live
<1>4. \A p \in Callers : Holds(p)' => Holds(p) /\ tick'[p] = tick[p]
  BY <1>1 DEF Holds
<1>5. IdsInv' /\ PlaceInv'
  BY <1>1, <1>4, PlacesKept DEF Live
<1>6. \A t \in Labels : sched[t] = Nil => sched'[t] = Nil
  <2>1. CASE \E i \in DOMAIN builds : BuildStart(i)
    BY <2>1, SchedulerOps DEF BuildStart
  <2>2. CASE UNCHANGED sched
    BY <2>2
  <2> QED BY <2>1, <2>2 DEF OutsideStep, BuildStep, BuildImage, BuildFails, BoxExits,
          vars, memVars
<1>7. ServerInv'
  <2>1. ServerInv /\ AllHandles' = AllHandles /\ toBoot \subseteq Labels
    BY <1>1 DEF Live, AllHandles, Queue!Queued, ServerInv, LifeInv, RegInv, RegTypeOK
  <2> QED BY <1>1, <1>6, <2>1, BoxesStep DEF ServerInv, FutureNil
<1>8. QueueProofs!Balanced(queue')
  BY <1>1 DEF Live
<1> QED BY <1>2, <1>3, <1>5, <1>7, <1>8 DEF Live

\* The types of the sets of tasks.
LEMMA TaskTypes ==
  ASSUME LifeInv
  PROVE  /\ tasks \subseteq Labels /\ unused \subseteq Labels /\ tasks \cap unused = {}
         /\ toBoot \subseteq tasks /\ DOMAIN tick = Callers /\ DOMAIN call = Callers
         /\ DOMAIN body = Callers
BY DEF LifeInv, Core, RegInv, RegTypeOK, TypeOK, CallsKnown, ServerInv, TickInv

\* A tick that steps is not idle.
LEMMA TickBusy ==
  ASSUME LifeInv, NEW p \in Callers, TickStep(p)
  PROVE  tick[p].pc # "idle"
<1>1. CASE TickCheck(p) \/ TickRegister(p)
  BY <1>1 DEF TickCheck, TickRegister
<1>2. CASE TickRetry(p)
  BY <1>2 DEF TickRetry, RetryRegister, Wake, Waiting, LifeInv, Core, TickInv
<1>3. CASE body[p].stage # "none"
  BY <1>3 DEF LifeInv, RegInv, BodyInside, Inside, Core, TickInv
<1> QED BY <1>1, <1>2, <1>3
        DEF TickStep, TickCount, CountRuns, TickCreate, CreateRun, TickRefused,
            QueryRejects, TickReturn, Return

\* So does the start of a tick.
LEMMA CronLive ==
  ASSUME LifeInv, [LifeNext]_vars, NEW p \in Callers, NEW t \in Labels, CronFires(p, t)
  PROVE  Live'
<1>1. /\ Live /\ FutureNil' /\ SchedOK
      /\ UNCHANGED <<call, body, lastId, queue, proc, server, toBoot, boots>>
      /\ UNCHANGED <<runs, unused, tasks, sched>>
  BY CronFrame, BoxesStep DEF LifeInv, Core, Live, regVars, serverVars, SchedOK,
     LifeTypeOK, FreshInv, Entries
<1>2. ProcInv' /\ ExecInv'
  BY <1>1, ProcKept DEF Live
<1>3. /\ sched[t] # Nil /\ tick[p].pc = "idle"
      /\ tick' = [tick EXCEPT ![p] = [tick[p] EXCEPT !.pc = "check", !.task = t]]
  BY TaskTypes DEF CronFires, Scheduler!Exists
<1>4. t \in Labels \ unused
  BY <1>1, <1>3 DEF SchedOK
<1>5. ~Holds(p) /\ call[p].phase \notin {"waiting", "inside"}
  BY <1>3, HoldsInMutex DEF LifeInv, Core, TickInv
<1>6. TickInv'
  <2> DEFINE k == [tick[p] EXCEPT !.pc = "check", !.task = t]
  <2>1. /\ k \in [pc : {"idle", "check", "register", "mutex"},
                  task : Labels \cup {NoLabel}, runId : Nat, runRank : Nat \cup {Infinity}]
        /\ k.pc = "check" /\ k.task = t
    BY <1>1 DEF Live, TickInv
  <2> HIDE DEF k
  <2>2. /\ tick'[p] = k /\ \A q \in Callers \ {p} : tick'[q] = tick[q]
        /\ tick' \in [Callers -> [pc : {"idle", "check", "register", "mutex"},
                        task : Labels \cup {NoLabel}, runId : Nat, runRank : Nat \cup {Infinity}]]
    BY <1>1, <1>3, <2>1 DEF Live, TickInv, k
  <2> QED BY <1>1, <1>4, <1>5, <2>1, <2>2 DEF Live, TickInv
<1>7. \A q \in Callers : Holds(q)' => Holds(q) /\ tick'[q] = tick[q]
  BY <1>1, <1>3, <1>5, TaskTypes DEF Holds
<1>8. IdsInv' /\ PlaceInv'
  BY <1>1, <1>7, PlacesKept DEF Live
<1>9. ServerInv'
  <2>1. ServerInv /\ AllHandles' = AllHandles /\ toBoot \subseteq Labels
    BY <1>1 DEF Live, AllHandles, Queue!Queued, ServerInv, LifeInv, RegInv, RegTypeOK
  <2>2. server # "down" /\ t \notin toBoot
    BY <1>3, <2>1 DEF ServerInv
  <2>3. \A u \in toBoot, q \in Callers : tick'[q].pc = "idle" \/ tick'[q].task # u
    BY <1>3, <2>1, <2>2, TaskTypes DEF ServerInv, Live, TickInv
  <2> QED BY <1>1, <2>1, <2>2, <2>3 DEF ServerInv, FutureNil
<1>10. QueueProofs!Balanced(queue')
  BY <1>1 DEF Live
<1> QED BY <1>2, <1>6, <1>8, <1>9, <1>10 DEF Live

-----------------------------------------------------------------------------
(* Steps of a tick.                                                        *)

\* The frame of a tick.
Tick == [pc : {"idle", "check", "register", "mutex"},
         task : Labels \cup {NoLabel}, runId : Nat, runRank : Nat \cup {Infinity}]

\* A tick that steps leaves the other ticks alone.
LEMMA TickInvOf ==
  ASSUME LifeInv, unused' \subseteq unused, NEW p \in Callers, NEW k \in Tick,
         tick' = [tick EXCEPT ![p] = k],
         \A q \in Callers \ {p} : call'[q] = call[q],
         k.pc # "idle" => k.task \in Labels \ unused,
         call'[p].phase \in {"waiting", "inside"} <=> k.pc = "mutex",
         k.pc = "mutex" => call'[p].label = k.task
  PROVE  TickInv'
<1>1. /\ tick'[p] = k /\ \A q \in Callers \ {p} : tick'[q] = tick[q]
      /\ tick' \in [Callers -> Tick]
  BY DEF LifeInv, Core, TickInv, Tick
<1> QED BY <1>1 DEF LifeInv, Core, TickInv, Tick

\* What a step of a tick makes of its own frame.
LEMMA TickInMutexOK ==
  ASSUME LifeInv, NEW p \in Callers, tick[p].pc # "idle", UNCHANGED unused,
         NEW i, RunImpl(p, tick[p].task, i), TickInMutex(p)
  PROVE  TickInv' /\ (tick'[p].pc = "idle" \/ tick'[p].task = tick[p].task)
         /\ \A q \in Callers \ {p} : tick'[q] = tick[q]
<1>1. /\ tick[p] \in Tick /\ tick[p].task \in Labels \ unused
      /\ DOMAIN tick = Callers /\ DOMAIN call = Callers
  BY TaskTypes DEF LifeInv, Core, TickInv, Tick
<1>2. \A q \in Callers \ {p} : call'[q] = call[q]
  BY <1>1 DEF RunImpl
<1>3. \/ call'[p] = Thrown
      \/ call'[p].phase \in {"waiting", "inside"} /\ call'[p].label = tick[p].task
  BY <1>1 DEF RunImpl
<1>4. CASE call'[p] = Thrown
  <2>1. tick' = [tick EXCEPT ![p] = NoTick] /\ call'[p].phase = "thrown"
    BY <1>4 DEF TickInMutex, Thrown
  <2>2. NoTick \in Tick /\ NoTick.pc = "idle"
    BY DEF NoTick, Tick
  <2> QED BY <1>1, <1>2, <2>1, <2>2, TickInvOf
<1>5. CASE call'[p].phase \in {"waiting", "inside"} /\ call'[p].label = tick[p].task
  <2> DEFINE k == [tick[p] EXCEPT !.pc = "mutex"]
  <2>1. tick' = [tick EXCEPT ![p] = k]
    BY <1>5 DEF TickInMutex
  <2>2. k \in Tick /\ k.pc = "mutex" /\ k.task = tick[p].task
    BY <1>1 DEF Tick
  <2> HIDE DEF k
  <2> QED BY <1>1, <1>2, <1>5, <2>1, <2>2, TickInvOf
<1> QED BY <1>3, <1>4, <1>5

\* Every step of a tick keeps the frames of ticks in order.
LEMMA TickStepTick ==
  ASSUME LifeInv, NEW p \in Callers, TickStep(p)
  PROVE  TickInv' /\ (tick'[p].pc = "idle" \/ tick'[p].task = tick[p].task)
         /\ \A q \in Callers \ {p} : tick'[q] = tick[q] /\ body'[q] = body[q]
<1>1. /\ tick[p] \in Tick /\ tick[p].task \in Labels \ unused /\ tick[p].pc # "idle"
      /\ DOMAIN tick = Callers /\ DOMAIN call = Callers /\ DOMAIN body = Callers
      /\ UNCHANGED unused
  BY TickBusy, TaskTypes, TickFrame DEF LifeInv, Core, TickInv, Tick
<1>2. NoTick \in Tick /\ NoTick.pc = "idle" /\ TickInv
  BY DEF NoTick, Tick, LifeInv, Core
<1>3. CASE TickCheck(p)
  <2>1. UNCHANGED <<call, body>>
    BY <1>3 DEF TickCheck, regVars
  <2>2. call[p].phase \notin {"waiting", "inside"}
    BY <1>3 DEF TickCheck, LifeInv, Core, TickInv
  <2> DEFINE k == IF Active(tick[p].task) THEN [tick[p] EXCEPT !.pc = "register"] ELSE NoTick
  <2>3. tick' = [tick EXCEPT ![p] = k]
    BY <1>3 DEF TickCheck
  <2>4. k \in Tick /\ k.pc \in {"idle", "register"} /\ (k.pc # "idle" => k.task = tick[p].task)
    BY <1>1, <1>2 DEF Tick
  <2> HIDE DEF k
  <2>5. TickInv'
    BY <1>1, <2>1, <2>2, <2>3, <2>4, TickInvOf
  <2> QED BY <1>1, <2>1, <2>3, <2>4, <2>5
<1>4. CASE TickRegister(p)
  <2>1. RunImpl(p, tick[p].task, 0) /\ TickInMutex(p) /\ \A q \in Callers \ {p} : body'[q] = body[q]
    BY <1>1, <1>4 DEF TickRegister, TryToRegister, Run, EnterIfLocked
  <2> QED BY <1>1, <2>1, TickInMutexOK
<1>5. CASE TickRetry(p)
  <2>1. Waiting(p) /\ call[p].label = tick[p].task
    BY <1>5 DEF TickRetry, RetryRegister, Wake, Waiting, LifeInv, Core, TickInv
  <2>2. RunImpl(p, tick[p].task, call[p].retryIdx + 1) /\ TickInMutex(p)
        /\ \A q \in Callers \ {p} : body'[q] = body[q]
    BY <1>1, <1>5, <2>1 DEF TickRetry, RetryRegister, Wake, EnterIfLocked
  <2> QED BY <1>1, <2>2, TickInMutexOK
<1>6. CASE TickCount(p) \/ TickRefused(p)
  <2>1. UNCHANGED <<tick, call>> /\ \A q \in Callers \ {p} : body'[q] = body[q]
    BY <1>1, <1>6 DEF TickCount, CountRuns, TickRefused, QueryRejects, memVars, mutexVars
  <2> QED BY <1>1, <1>2, <2>1, TickKept
<1>7. CASE TickCreate(p)
  <2>1. UNCHANGED call /\ \A q \in Callers \ {p} : body'[q] = body[q]
    BY <1>1, <1>7 DEF TickCreate, CreateRun, mutexVars
  <2> DEFINE k == [tick[p] EXCEPT !.runId = lastId', !.runRank = Rank(body[p].runsCount)]
  <2>2. tick' = [tick EXCEPT ![p] = k]
    BY <1>1, <1>7 DEF TickCreate
  <2>3. lastId' \in Nat
    BY <1>7 DEF TickCreate, CreateRun, LifeInv, RegInv, RegTypeOK
  <2>4. Rank(body[p].runsCount) \in Nat \cup {Infinity}
    BY DEF LifeInv, RegInv, RegTypeOK, Body, Rank
  <2>5. k \in Tick /\ k.pc = tick[p].pc /\ k.task = tick[p].task
    BY <1>1, <2>3, <2>4 DEF Tick
  <2> HIDE DEF k
  <2>6. TickInv'
    BY <1>1, <1>2, <2>1, <2>2, <2>5, TickInvOf DEF TickInv
  <2> QED BY <1>1, <2>1, <2>2, <2>5, <2>6
<1>8. CASE TickReturn(p)
  <2>1. /\ tick' = [tick EXCEPT ![p] = NoTick]
        /\ \A q \in Callers \ {p} : body'[q] = body[q] /\ call'[q] = call[q]
        /\ call'[p].phase = "idle"
    BY <1>1, <1>8 DEF TickReturn, Return, Leave, NoCall
  <2>2. TickInv'
    BY <1>1, <1>2, <2>1, TickInvOf
  <2> QED BY <1>1, <1>2, <2>1, <2>2
<1> QED BY <1>3, <1>4, <1>5, <1>6, <1>7, <1>8 DEF TickStep

\* What the part of the start-up asks of the ticks survives their steps.
LEMMA TickServer ==
  ASSUME LifeInv, [LifeNext]_vars, NEW p \in Callers, TickStep(p),
         \A c \in Clients : proc'[c] = proc[c],
         \A t \in toBoot : \A h \in AllHandles' : h.taskId # t
  PROVE  ServerInv'
<1>1. /\ ServerInv /\ FutureNil' /\ tick[p].pc # "idle" /\ toBoot \subseteq Labels
      /\ UNCHANGED <<server, toBoot, boots, tasks>>
      /\ tick'[p].pc = "idle" \/ tick'[p].task = tick[p].task
      /\ \A q \in Callers \ {p} : tick'[q] = tick[q]
  BY TickFrame, TickStepTick, TickBusy, BoxesStep, TaskTypes DEF LifeInv, Core, serverVars
<1>2. server # "down"
  BY <1>1 DEF ServerInv
<1>3. \A t \in Labels : sched[t] = Nil => sched'[t] = Nil
  <2>1. CASE UNCHANGED sched
    BY <2>1
  <2>2. CASE sched' = Scheduler!Stop(sched, tick[p].task)
    BY <2>2, SchedulerOps
  <2> QED BY <2>1, <2>2, TickFrame DEF TickReturn
<1>4. \A t \in toBoot, q \in Callers : tick'[q].pc = "idle" \/ tick'[q].task # t
  BY <1>1 DEF ServerInv
<1> QED BY <1>1, <1>2, <1>3, <1>4 DEF ServerInv, FutureNil

\* A run that is created is in one place: held by its tick.
LEMMA TickCreateLive ==
  ASSUME LifeInv, [LifeNext]_vars, NEW p \in Callers, TickCreate(p)
  PROVE  IdsInv' /\ PlaceInv' /\ AllHandles' = AllHandles
<1>1. /\ CreateRun(p) /\ DOMAIN tick = Callers /\ DOMAIN body = Callers
      /\ tick' = [tick EXCEPT ![p].runId = lastId', ![p].runRank = Rank(body[p].runsCount)]
      /\ UNCHANGED <<queue, unused, tasks>>
      /\ IdsInv /\ PlaceInv
  BY TaskTypes DEF TickCreate, CreateRun, LifeInv, Core
<1>2. /\ tick[p].pc = "mutex" /\ call[p].label = tick[p].task
      /\ tick[p].task \in Labels \ unused /\ tick[p] \in Tick
  BY <1>1 DEF CreateRun, LifeInv, RegInv, BodyInside, Inside, Core, TickInv, Tick
<1> DEFINE r == [id |-> lastId + 1, taskId |-> tick[p].task, rank |-> Rank(body[p].runsCount)]
<1>3. /\ lastId' = lastId + 1 /\ lastId' \in 0 .. MaxRunId /\ lastId \in Nat
      /\ runs' = runs \cup {r}
      /\ \A run \in runs : run.id \in 1 .. lastId
      /\ body' = [body EXCEPT ![p].stage = "created"]
  BY <1>1, <1>2, MaxRunIdAssumption DEF CreateRun, LifeInv, RegInv, RegTypeOK
<1>4. Held(p)' = Handle(r) /\ tick'[p].runId = lastId + 1 /\ tick'[p].task = tick[p].task
  <2>1. /\ tick'[p].runId = lastId + 1 /\ tick'[p].task = tick[p].task
        /\ tick'[p].runRank = Rank(body[p].runsCount)
    BY <1>1, <1>2, <1>3 DEF Tick
  <2> QED BY <2>1 DEF Held, Handle
<1>5. \A q \in Callers \ {p} : tick'[q] = tick[q] /\ (Holds(q)' <=> Holds(q))
  BY <1>1, <1>3 DEF Holds
<1>6. AllHandles' = AllHandles
  BY <1>1 DEF AllHandles, Queue!Queued
<1>7. IdsInv'
  <2>1. \A a, b \in runs' : a.id = b.id => a = b
    BY <1>1, <1>3 DEF IdsInv
  <2>2. ASSUME NEW h, h \in AllHandles \/ \E q \in Callers \ {p} : Holds(q) /\ h = Held(q)
        PROVE  /\ h.runId \in 1 .. lastId'
               /\ h.taskId \in Labels \ unused'
               /\ \A run \in runs' : run.id = h.runId => Handle(run) = h
    <3>1. /\ h.runId \in 1 .. lastId /\ h.taskId \in Labels \ unused
          /\ \A run \in runs : run.id = h.runId => Handle(run) = h
      BY <1>1, <2>2 DEF IdsInv
    <3>2. h.runId # lastId + 1
      BY <1>3, <3>1
    <3>3. \A run \in runs' : run.id = h.runId => Handle(run) = h
      BY <1>3, <3>1, <3>2
    <3> QED BY <1>1, <1>3, <3>1, <3>3
  <2>3. /\ Held(p)'.runId \in 1 .. lastId'
        /\ Held(p)'.taskId \in Labels \ unused'
        /\ \A run \in runs' : run.id = Held(p)'.runId => Handle(run) = Held(p)'
    <3>1. Held(p)'.runId = lastId + 1 /\ Held(p)'.taskId = tick[p].task
      BY <1>4 DEF Handle
    <3>2. \A run \in runs' : run.id = lastId + 1 => run = r
      BY <1>3
    <3> QED BY <1>1, <1>2, <1>3, <1>4, <3>1, <3>2
  <2>4. \A q \in Callers \ {p} : Held(q)' = Held(q)
    BY <1>5 DEF Held
  <2> QED BY <1>3, <1>5, <1>6, <2>1, <2>2, <2>3, <2>4 DEF IdsInv
<1>8. PlaceInv'
  <2>1. RunQueuedOnce'
    BY <1>1 DEF PlaceInv, RunQueuedOnce
  <2>2. \A h \in AllHandles : h.runId # lastId + 1
    BY <1>1, <1>3 DEF IdsInv
  <2>3. \A q \in Callers : Holds(q) => tick[q].runId # lastId + 1
    <3>1. \A q \in Callers : Holds(q) => Held(q).runId \in 1 .. lastId
      BY <1>1 DEF IdsInv
    <3> QED BY <1>3, <3>1 DEF Held
  <2>4. \A q \in Callers : Holds(q)' => \A h \in AllHandles' : h.runId # tick'[q].runId
    BY <1>1, <1>4, <1>5, <1>6, <2>2 DEF PlaceInv
  <2>5. \A a, b \in Callers : Holds(a)' /\ Holds(b)' /\ tick'[a].runId = tick'[b].runId => a = b
    BY <1>1, <1>4, <1>5, <2>3 DEF PlaceInv
  <2> QED BY <1>1, <2>1, <2>4, <2>5 DEF PlaceInv
<1> QED BY <1>6, <1>7, <1>8

\* The other steps of a tick create nothing.
LEMMA TickHolds ==
  ASSUME LifeInv, NEW p \in Callers, TickStep(p), ~TickCreate(p)
  PROVE  UNCHANGED <<runs, lastId>> /\ (Holds(p)' => Holds(p) /\ tick'[p] = tick[p])
<1>1. DOMAIN body = Callers
  BY TaskTypes
<1>2. EnterIfLocked(p) => ~Holds(p)'
  BY <1>1 DEF EnterIfLocked, BodyOf, NoBody, Holds
<1>3. CASE TickCheck(p)
  <2>1. ~Holds(p)
    BY <1>3, HoldsInMutex DEF TickCheck
  <2> QED BY <1>3, <2>1 DEF TickCheck, regVars, Holds
<1>4. CASE TickRegister(p) \/ TickRetry(p)
  BY <1>2, <1>4 DEF TickRegister, TryToRegister, TickRetry, RetryRegister, tableVars
<1>5. CASE TickCount(p) \/ TickRefused(p)
  <2>1. CASE TickCount(p)
    <3>1. body'[p].stage \in {"create", "denied"}
      BY <1>1, <2>1 DEF TickCount, CountRuns
    <3> QED BY <2>1, <3>1 DEF TickCount, CountRuns, tableVars, Holds
  <2>2. CASE TickRefused(p)
    <3>1. body'[p].stage = "rejected"
      <4>1. body[p] \in Body
        BY DEF LifeInv, RegInv, RegTypeOK
      <4> QED BY <1>1, <2>2, <4>1 DEF TickRefused, QueryRejects, Body
    <3> QED BY <2>2, <3>1 DEF TickRefused, QueryRejects, tableVars, Holds
  <2> QED BY <1>5, <2>1, <2>2
<1>6. CASE TickReturn(p)
  BY <1>1, <1>6 DEF TickReturn, Return, NoBody, tableVars, Holds
<1> QED BY <1>3, <1>4, <1>5, <1>6 DEF TickStep

LEMMA TickQuietLive ==
  ASSUME LifeInv, [LifeNext]_vars, NEW p \in Callers, TickStep(p),
         ~TickCreate(p), UNCHANGED <<queue, proc>>
  PROVE  IdsInv' /\ PlaceInv' /\ AllHandles' = AllHandles
<1>1. UNCHANGED <<runs, lastId>> /\ (Holds(p)' => Holds(p) /\ tick'[p] = tick[p])
  BY TickHolds
<1>2. \A q \in Callers : Holds(q)' => Holds(q) /\ tick'[q] = tick[q]
  BY <1>1, TickStepTick DEF Holds
<1>3. IdsInv /\ PlaceInv /\ unused' = unused
  BY TickFrame DEF LifeInv, Core
<1>4. AllHandles' = AllHandles
  BY DEF AllHandles, Queue!Queued
<1> QED BY <1>1, <1>2, <1>3, <1>4, PlacesKept

\* A handle that may be put in the line: of a run that was created.
Known(h) ==
  /\ h.runId \in 1 .. lastId
  /\ h.taskId \in Labels \ unused
  /\ \A run \in runs : run.id = h.runId => Handle(run) = h

\* An event of the queue: line is served, on top of base.
Event(line, k, base, n, pr) ==
  /\ line \in Seq(RunHandles) /\ k \in 0 .. Len(line) /\ base \subseteq queue.executing
  /\ QueueBecomes(Serve(line, k, base, n), pr)
  /\ UNCHANGED <<lastId, unused, runs>>
  /\ DistinctRuns(line)
  /\ \A h \in base, i \in 1 .. Len(line) : h.runId # line[i].runId
  /\ \A i \in 1 .. Len(line) : Known(line[i]) /\ line[i] \notin queue.executing
  /\ \A q \in Callers : Holds(q)' =>
        /\ Holds(q) /\ tick'[q] = tick[q]
        /\ \A i \in 1 .. Len(line) : line[i].runId # tick[q].runId
  /\ \A x \in Procs : pr[x] = proc[x] \/ (x \in RunIds /\ pr[x] = IdleProc)
  /\ \A h \in base : pr[h.runId] = proc[h.runId]
  /\ \A r \in RunIds : pr[r].pc # "idle" => \E h \in base : h.runId = r

\* Every event of the queue keeps the frames, the ids and the places of runs.
LEMMA EventLive ==
  ASSUME LifeInv, NEW line, NEW k, NEW base, NEW n, NEW pr, Event(line, k, base, n, pr)
  PROVE  /\ ProcInv' /\ ExecInv' /\ IdsInv' /\ PlaceInv'
         /\ \A c \in Clients : proc'[c] = proc[c]
         /\ AllHandles' = base \cup {line[i] : i \in 1 .. Len(line)}
<1> USE DEF Event
<1> DEFINE q == Serve(line, k, base, n)
<1>1. queue' = q
  BY DEF QueueBecomes
<1>2. OneEach(queue.executing) /\ OneEach(base) /\ IdsInv /\ PlaceInv
  BY DEF LifeInv, Core, PlaceInv, OneEach
<1>3. RunQueuedOnce' /\ OneEach(queue'.executing)
  BY <1>1, <1>2, ServeOnce
<1>4. /\ queue'.executing = base \cup {line[i] : i \in 1 .. k}
      /\ AllHandles' = base \cup {line[i] : i \in 1 .. Len(line)}
      /\ AllHandles' = Queue!Queued(queue)' \cup queue'.executing
  BY <1>1, ServeFacts DEF AllHandles
<1>5. \A h \in AllHandles' : Known(h)
  <2>1. \A h \in base : Known(h)
    BY <1>2 DEF IdsInv, AllHandles, Known
  <2> QED BY <1>4, <2>1
<1>6. q.executing \subseteq RunHandles
  <2>1. base \subseteq RunHandles
    BY QueueFacts
  <2>2. \A i \in 1 .. Len(line) : line[i] \in RunHandles
    OBVIOUS
  <2>3. 1 .. k \subseteq 1 .. Len(line)
    OBVIOUS
  <2> QED BY <1>1, <1>4, <2>1, <2>2, <2>3
<1>7. \A h \in q.executing : h.taskId \notin unused
  BY <1>1, <1>4, <1>5 DEF Known
<1>8. ASSUME NEW h \in q.executing \cap queue.executing
      PROVE  pr[h.runId] = proc[h.runId]
  <2>1. 1 .. k \subseteq 1 .. Len(line)
    OBVIOUS
  <2> QED BY <1>1, <1>4, <2>1
<1>9. \A r \in RunIds : pr[r].pc # "idle" => \E h \in q.executing : h.runId = r
  BY <1>1, <1>4
<1>10. OneEach(q.executing)
  BY <1>1, <1>3
<1> HIDE DEF q
<1>11. ProcInv' /\ ExecInv' /\ \A c \in Clients : proc'[c] = proc[c]
  <2>1. QueueBecomes(q, pr)
    BY DEF q
  <2> QED BY <1>6, <1>7, <1>8, <1>9, <1>10, <2>1, BecomesExec
<1>12. \A p \in Callers : Holds(p)' => Held(p)' = Held(p) /\ Known(Held(p))
  BY <1>2 DEF Held, IdsInv, Known
<1>13. IdsInv'
  <2>1. \A h \in AllHandles' \cup {Held(p)' : p \in {c \in Callers : Holds(c)'}} : Known(h)
    BY <1>5, <1>12
  <2> QED BY <1>2, <2>1 DEF IdsInv, Known, Handle
<1>14. PlaceInv'
  <2>1. \A p \in Callers : Holds(p)' => \A h \in AllHandles' : h.runId # tick'[p].runId
    <3> SUFFICES ASSUME NEW p \in Callers, Holds(p)', NEW h \in AllHandles'
                 PROVE  h.runId # tick'[p].runId
      OBVIOUS
    <3>1. tick'[p] = tick[p] /\ Holds(p) /\ \A i \in 1 .. Len(line) : line[i].runId # tick[p].runId
      OBVIOUS
    <3>2. CASE h \in base
      BY <1>2, <3>1, <3>2 DEF PlaceInv, AllHandles
    <3> QED BY <1>4, <3>1, <3>2
  <2>2. \A p, c \in Callers : Holds(p)' /\ Holds(c)' /\ tick'[p].runId = tick'[c].runId => p = c
    BY <1>2 DEF PlaceInv
  <2> QED BY <1>3, <2>1, <2>2 DEF PlaceInv, OneEach
<1> QED BY <1>4, <1>11, <1>13, <1>14

\* The line of the queue, before an event.
LEMMA LineAtRest ==
  ASSUME LifeInv
  PROVE  /\ DistinctRuns(queue.queue)
         /\ \A i \in 1 .. Len(queue.queue) : queue.queue[i] \in Queue!Queued(queue)
                                            /\ Known(queue.queue[i])
         /\ \A h \in queue.executing, i \in 1 .. Len(queue.queue) : h.runId # queue.queue[i].runId
         /\ Len(queue.queue) \in Nat /\ DOMAIN queue.queue = 1 .. Len(queue.queue)
<1>1. queue.queue \in Seq(RunHandles)
  BY QueueFacts
<1>2. Len(queue.queue) \in Nat /\ DOMAIN queue.queue = 1 .. Len(queue.queue)
  BY <1>1
<1>3. \A i \in 1 .. Len(queue.queue) : queue.queue[i] \in Queue!Queued(queue)
  BY <1>2 DEF Queue!Queued
<1>4. \A h \in Queue!Queued(queue) : Known(h)
  BY DEF LifeInv, Core, IdsInv, AllHandles, Known
<1> QED BY <1>2, <1>3, <1>4 DEF LifeInv, Core, PlaceInv, RunQueuedOnce, DistinctRuns

\* The run that a tick is about to enqueue is not in the queue.
LEMMA HeldOK ==
  ASSUME LifeInv, NEW p \in Callers, Holds(p)
  PROVE  /\ Held(p) \in RunHandles /\ Known(Held(p))
         /\ Held(p).runId = tick[p].runId
         /\ \A h \in AllHandles : h.runId # Held(p).runId
<1>1. Known(Held(p)) /\ lastId \in 0 .. MaxRunId /\ tick[p] \in Tick
  BY DEF LifeInv, Core, IdsInv, Known, TickInv, Tick
<1>2. Held(p) \in RunHandles
  <2>1. tick[p].task \in Labels /\ tick[p].runId \in RunIds /\ tick[p].runRank \in Nat \cup {Infinity}
    BY <1>1, MaxRunIdAssumption DEF Held, Known, RunIds, Tick
  <2> QED BY <2>1 DEF Held, RunHandles
<1> QED BY <1>1, <1>2 DEF Held, LifeInv, Core, PlaceInv

\* Why the end of a registration keeps the balance of the queue: no function
\* of the run is there yet.
LEMMA EnqueueLive ==
  ASSUME LifeInv, [LifeNext]_vars, NEW p \in Callers, TickReturn(p), Holds(p)
  PROVE  Live'
<1> DEFINE h == Held(p)
           line == Append(queue.queue, h)
<1>1. /\ QueueBecomes(Queue!Enqueued(queue, h), proc) /\ UNCHANGED sched
      /\ UNCHANGED <<tasks, unused, runs, lastId>>
      /\ tick' = [tick EXCEPT ![p] = NoTick]
      /\ body' = [body EXCEPT ![p] = NoBody]
  BY DEF TickReturn, Holds, Held, Return, tableVars
<1>2. /\ h \in RunHandles /\ Known(h) /\ h.runId = tick[p].runId
      /\ \A g \in AllHandles : g.runId # h.runId
  BY HeldOK
<1> HIDE DEF h
<1>3. queue.queue \in Seq(RunHandles) /\ queue \in QueueProofs!QueueState
      /\ h \in [taskId : Labels, runId : RunIds, runRank : Nat \cup {Infinity}]
      /\ Queue!Enqueued(queue, h) = QueueProofs!Enqueued(queue, h)
  BY <1>2, QueueFacts, SameQueue DEF RunHandles
<1>4. PICK k \in {0, 1} :
        Queue!Enqueued(queue, h) = Serve(line, k, queue.executing, queue.running)
  BY <1>3, ConcurrencyAssumption, QueueProofs!EnqueuedServes DEF Serve
<1>5. /\ line \in Seq(RunHandles) /\ Len(line) = Len(queue.queue) + 1
      /\ \A i \in 1 .. Len(queue.queue) : line[i] = queue.queue[i]
      /\ line[Len(queue.queue) + 1] = h
      /\ Len(queue.queue) \in Nat /\ DOMAIN queue.queue = 1 .. Len(queue.queue)
  BY <1>2, <1>3, AppendProperties
<1> HIDE DEF line
<1>6. k \in 0 .. Len(line)
  BY <1>4, <1>5
<1>7. \A i \in 1 .. Len(line) : line[i] = h \/ (i \in 1 .. Len(queue.queue) /\ line[i] = queue.queue[i])
  BY <1>5
<1>8. \A i \in 1 .. Len(queue.queue) : queue.queue[i] \in AllHandles /\ Known(queue.queue[i])
                                       /\ queue.queue[i].runId # h.runId
  BY <1>2, LineAtRest DEF AllHandles
<1>9. DistinctRuns(line)
  <2> SUFFICES ASSUME NEW i \in 1 .. Len(line), NEW j \in 1 .. Len(line),
                      line[i].runId = line[j].runId
               PROVE  i = j
    BY DEF DistinctRuns
  <2>1. CASE i = Len(queue.queue) + 1
    <3>1. line[i] = h /\ ~(j \in 1 .. Len(queue.queue))
      BY <1>5, <1>8, <2>1
    <3> QED BY <1>5, <2>1, <3>1
  <2>2. CASE j = Len(queue.queue) + 1
    <3>1. line[j] = h /\ ~(i \in 1 .. Len(queue.queue))
      BY <1>5, <1>8, <2>2
    <3> QED BY <1>5, <2>2, <3>1
  <2>3. CASE i # Len(queue.queue) + 1 /\ j # Len(queue.queue) + 1
    <3>1. i \in 1 .. Len(queue.queue) /\ j \in 1 .. Len(queue.queue)
      BY <1>5, <2>3
    <3> QED BY <1>5, <3>1, LineAtRest DEF DistinctRuns
  <2> QED BY <2>1, <2>2, <2>3
<1>10. \A g \in queue.executing : g \in AllHandles /\ g.runId # h.runId
  BY <1>2 DEF AllHandles
<1>11. \A g \in queue.executing, i \in 1 .. Len(line) : g.runId # line[i].runId
  BY <1>7, <1>10, LineAtRest
<1>12. \A i \in 1 .. Len(line) : Known(line[i]) /\ line[i] \notin queue.executing
  BY <1>2, <1>7, <1>8, <1>11
<1>13. \A q \in Callers : Holds(q)' =>
         /\ Holds(q) /\ tick'[q] = tick[q]
         /\ \A i \in 1 .. Len(line) : line[i].runId # tick[q].runId
  <2> SUFFICES ASSUME NEW q \in Callers, Holds(q)'
               PROVE  /\ Holds(q) /\ tick'[q] = tick[q]
                      /\ \A i \in 1 .. Len(line) : line[i].runId # tick[q].runId
    OBVIOUS
  <2>1. q # p
    BY <1>1, TaskTypes DEF NoBody, Holds
  <2>2. Holds(q) /\ tick'[q] = tick[q]
    BY <1>1, <2>1, TaskTypes DEF Holds
  <2>3. tick[q].runId # h.runId
    BY <1>2, <2>1, <2>2 DEF LifeInv, Core, PlaceInv
  <2>4. \A g \in AllHandles : g.runId # tick[q].runId
    BY <2>2 DEF LifeInv, Core, PlaceInv
  <2> QED BY <1>7, <1>8, <2>2, <2>3, <2>4
<1>14. \A r \in RunIds : proc[r].pc # "idle" => \E g \in queue.executing : g.runId = r
  BY DEF LifeInv, Core, ExecInv
<1>15. /\ ProcInv' /\ ExecInv' /\ IdsInv' /\ PlaceInv'
       /\ \A c \in Clients : proc'[c] = proc[c]
       /\ AllHandles' = queue.executing \cup {line[i] : i \in 1 .. Len(line)}
  <2>1. QueueBecomes(Serve(line, k, queue.executing, queue.running), proc)
    BY <1>1, <1>4
  <2> DEFINE base == queue.executing
             n == queue.running
             pr == proc
  <2>2. /\ base \in SUBSET queue.executing
        /\ QueueBecomes(Serve(line, k, base, n), pr)
        /\ \A x \in Procs : pr[x] = proc[x] \/ (x \in RunIds /\ pr[x] = IdleProc)
        /\ \A g \in base : pr[g.runId] = proc[g.runId]
        /\ \A r \in RunIds : pr[r].pc # "idle" => \E g \in base : g.runId = r
        /\ \A g \in base, i \in 1 .. Len(line) : g.runId # line[i].runId
    BY <1>11, <1>14, <2>1
  <2>3. UNCHANGED <<lastId, unused, runs>> /\ line \in Seq(RunHandles)
    BY <1>1, <1>5
  <2> HIDE DEF base, n, pr
  <2>5. Event(line, k, base, n, pr)
    BY <1>6, <1>9, <1>12, <1>13, <2>2, <2>3 DEF Event
  <2>4. /\ ProcInv' /\ ExecInv' /\ IdsInv' /\ PlaceInv'
        /\ \A c \in Clients : proc'[c] = proc[c]
        /\ AllHandles' = base \cup {line[i] : i \in 1 .. Len(line)}
    BY <2>5, EventLive
  <2> QED BY <2>4 DEF base
<1>16. TickInv'
  BY TickStepTick DEF TickStep
<1>17. \A t \in toBoot : \A g \in AllHandles' : g.taskId # t
  <2>1. \A g \in AllHandles : \A t \in toBoot : g.taskId # t
    BY DEF LifeInv, Core, ServerInv
  <2>2. \A t \in toBoot : h.taskId # t
    BY HoldsInMutex DEF LifeInv, Core, ServerInv, h, Held
  <2> QED BY <1>7, <1>8, <1>10, <1>15, <2>1, <2>2
<1>18. ServerInv'
  BY <1>15, <1>17, TickServer DEF TickStep
<1>19. QueueProofs!Balanced(queue')
  <2>1. h \notin QueueProofs!Queued(queue) \cup queue.executing
    BY <1>2, SameQueue DEF AllHandles
  <2>2. QueueProofs!Balanced(QueueProofs!Enqueued(queue, h))
    BY <1>3, <2>1, ConcurrencyAssumption, QueueProofs!EnqueuedBalanced DEF LifeInv
  <2>3. queue' = QueueProofs!Enqueued(queue, h)
    BY <1>1, <1>3 DEF QueueBecomes
  <2> QED BY <2>2, <2>3
<1> QED BY <1>15, <1>16, <1>18, <1>19 DEF Live

\* All steps of a tick keep the shared parts of the invariant.
LEMMA TickLive ==
  ASSUME LifeInv, [LifeNext]_vars, NEW p \in Callers, TickStep(p)
  PROVE  Live'
<1>1. CASE TickReturn(p) /\ Holds(p)
  BY <1>1, EnqueueLive
<1>2. CASE ~(TickReturn(p) /\ Holds(p))
  <2>1. UNCHANGED <<queue, proc>>
    BY <1>2, TickFrame DEF TickReturn, Holds
  <2>2. IdsInv' /\ PlaceInv' /\ AllHandles' = AllHandles
    BY <2>1, TickCreateLive, TickQuietLive
  <2>3. ProcInv' /\ ExecInv'
    BY <2>1, ProcKept, UnusedShrinks DEF LifeInv, Core
  <2>4. \A t \in toBoot : \A h \in AllHandles' : h.taskId # t
    BY <2>2 DEF LifeInv, Core, ServerInv
  <2>5. ServerInv'
    BY <2>1, <2>4, TickServer
  <2>6. TickInv'
    BY TickStepTick
  <2>7. QueueProofs!Balanced(queue')
    BY <2>1 DEF LifeInv
  <2> QED BY <2>2, <2>3, <2>5, <2>6, <2>7 DEF Live
<1> QED BY <1>1, <1>2

\* So does the end of a function, which starts the next one of the line.
LEMMA SettleLive ==
  ASSUME LifeInv, [LifeNext]_vars, NEW r \in RunIds, RunSettles(r)
  PROVE  Live'
<1> DEFINE f == HandleIn(queue, r)
           line == queue.queue
           base == queue.executing \ {f}
           n == queue.running - 1
           pr == [proc EXCEPT ![r] = IdleProc]
<1>1. /\ proc[r].pc = "settle" /\ QueueBecomes(Queue!Settled(queue, f), pr)
      /\ UNCHANGED <<regVars, sched, tick, server, toBoot, boots>>
  BY DEF RunSettles, At, serverVars
<1>2. f \in queue.executing /\ f.runId = r
  <2>1. \E h \in queue.executing : h.runId = r
    BY <1>1 DEF LifeInv, Core, ExecInv
  <2> QED BY <2>1 DEF HandleIn
<1> HIDE DEF f
<1>3. \A g \in queue.executing : g.runId = r => g = f
  BY <1>2 DEF LifeInv, Core, PlaceInv
<1>4. PICK k \in {0, 1} : /\ k <= Len(queue.queue)
                          /\ Queue!Settled(queue, f) = Serve(line, k, base, n)
  <2>1. QueueProofs!Balanced(queue)
    BY DEF LifeInv
  <2>2. \E k \in {0, 1} :
          /\ k <= Len(queue.queue)
          /\ QueueProofs!Settled(queue, f) = QueueProofs!Serve(line, k, base, n)
    BY <1>2, <2>1, ConcurrencyAssumption, QueueProofs!SettledServes
  <2> QED BY <2>2, SameQueue DEF Serve
<1>5. line \in Seq(RunHandles) /\ k \in 0 .. Len(line) /\ base \subseteq queue.executing
  <2>1. line \in Seq(RunHandles) /\ Len(line) \in Nat
    BY QueueFacts, LineAtRest
  <2> QED BY <1>4, <2>1
<1>6. DistinctRuns(line) /\ \A h \in base, i \in 1 .. Len(line) : h.runId # line[i].runId
  BY LineAtRest
<1>7. \A i \in 1 .. Len(line) : Known(line[i]) /\ line[i] \notin queue.executing
                                /\ line[i] \in AllHandles
  BY LineAtRest DEF AllHandles
<1>8. \A q \in Callers : Holds(q)' =>
        /\ Holds(q) /\ tick'[q] = tick[q]
        /\ \A i \in 1 .. Len(line) : line[i].runId # tick[q].runId
  BY <1>1, <1>7 DEF Holds, regVars, LifeInv, Core, PlaceInv
<1>9. DOMAIN proc = Procs /\ r \in Procs
  BY ProcKinds DEF LifeInv, Core, ProcInv
<1>10. \A x \in Procs : pr[x] = proc[x] \/ (x \in RunIds /\ pr[x] = IdleProc)
  BY <1>9
<1>11. \A h \in base : pr[h.runId] = proc[h.runId]
  BY <1>3, <1>9
<1>12. \A x \in RunIds : pr[x].pc # "idle" => \E h \in base : h.runId = x
  <2>1. \A x \in RunIds : proc[x].pc # "idle" => \E h \in queue.executing : h.runId = x
    BY DEF LifeInv, Core, ExecInv
  <2>2. \A x \in RunIds : pr[x].pc # "idle" => x # r /\ proc[x].pc # "idle"
    BY <1>9, IdleOK
  <2> QED BY <1>2, <2>1, <2>2
<1>13. Event(line, k, base, n, pr)
  <2>1. UNCHANGED <<lastId, unused, runs>>
    BY <1>1 DEF regVars
  <2>2. QueueBecomes(Serve(line, k, base, n), pr)
    BY <1>1, <1>4
  <2> HIDE DEF line, base, n, pr
  <2> QED BY <1>5, <1>6, <1>7, <1>8, <1>10, <1>11, <1>12, <2>1, <2>2 DEF Event
<1>14. /\ ProcInv' /\ ExecInv' /\ IdsInv' /\ PlaceInv'
       /\ \A c \in Clients : proc'[c] = proc[c]
       /\ AllHandles' = base \cup {line[i] : i \in 1 .. Len(line)}
  BY <1>13, EventLive
<1>15. TickInv'
  BY <1>1, TickKept DEF regVars, LifeInv, Core
<1>16. ServerInv'
  <2>1. AllHandles' \subseteq AllHandles
    BY <1>7, <1>14 DEF AllHandles
  <2>2. server # "down"
    BY <1>2 DEF LifeInv, Core, ServerInv, Queue!EmptyQueue
  <2>3. ServerInv /\ FutureNil' /\ toBoot \subseteq Labels
    BY BoxesStep, TaskTypes DEF LifeInv, Core
  <2> QED BY <1>1, <1>14, <2>1, <2>2, <2>3 DEF ServerInv, FutureNil, regVars
<1>17. QueueProofs!Balanced(queue')
  <2>1. QueueProofs!Balanced(QueueProofs!Settled(queue, f))
    BY <1>2, ConcurrencyAssumption, QueueProofs!SettledBalanced DEF LifeInv
  <2> QED BY <1>1, <2>1, SameQueue DEF QueueBecomes
<1> QED BY <1>14, <1>15, <1>16, <1>17 DEF Live

-----------------------------------------------------------------------------
(* The start-up and the crash.                                             *)

\* What the query of the start-up answers for task t.
LEMMA PendingRunsOf ==
  ASSUME LifeInv, NEW t \in toBoot, NEW s \in PendingRuns(t)
  PROVE  /\ Handles(s) \in Seq(RunHandles)
         /\ DistinctRuns(Handles(s))
         /\ \A i \in 1 .. Len(Handles(s)) :
              /\ Handles(s)[i] = Handle(s[i])
              /\ s[i] \in RunsOf(t) /\ status[s[i].id] = "pending"
              /\ Handles(s)[i].taskId = t
              /\ Known(Handles(s)[i])
              /\ \A h \in AllHandles : h.runId # Handles(s)[i].runId
              /\ \A p \in Callers : Holds(p) => tick[p].runId # Handles(s)[i].runId
<1> DEFINE S == {run \in RunsOf(t) : status[run.id] = "pending"}
           m == Cardinality(S)
<1>1. m \in Nat
  <2>1. S \subseteq runs /\ IsFiniteSet(runs)
    BY DEF RunsOf, LifeInv, RegInv
  <2> QED BY <2>1, FS_Subset, FS_CardinalityType
<1>2. /\ s \in [1 .. m -> S]
      /\ \A i, j \in DOMAIN s : i < j => s[i] # s[j]
  BY DEF PendingRuns
<1> HIDE DEF m
<1>3. \A run \in RunsOf(t) :
        /\ run \in runs /\ run.id \in 1 .. lastId /\ run.id \in RunIds
        /\ run.taskId = t /\ t \in Labels \ unused
        /\ Handle(run) \in RunHandles
        /\ Handle(run).runId = run.id /\ Handle(run).taskId = t
  <2> SUFFICES ASSUME NEW run \in RunsOf(t)
               PROVE  /\ run \in runs /\ run.id \in 1 .. lastId /\ run.id \in RunIds
                      /\ run.taskId = t /\ t \in Labels \ unused
                      /\ Handle(run) \in RunHandles
                      /\ Handle(run).runId = run.id /\ Handle(run).taskId = t
    OBVIOUS
  <2>1. run \in runs /\ run.taskId = t /\ t \in tasks /\ t \in Labels \ unused
    BY TaskTypes DEF RunsOf
  <2>2. run.id \in 1 .. lastId /\ run.rank \in Nat \cup {Infinity}
    BY <2>1 DEF LifeInv, RegInv, RegTypeOK
  <2>3. lastId \in 0 .. MaxRunId
    BY DEF LifeInv, Core, IdsInv
  <2>4. run.id \in RunIds
    BY <2>2, <2>3, MaxRunIdAssumption DEF RunIds
  <2> QED BY <2>1, <2>2, <2>4 DEF Handle, RunHandles
<1>4. /\ Handles(s) = [i \in 1 .. m |-> Handle(s[i])]
      /\ Handles(s) \in Seq(RunHandles) /\ Len(Handles(s)) = m
  <2>1. Handles(s) = [i \in 1 .. m |-> Handle(s[i])]
    BY <1>2 DEF Handles
  <2>2. \A i \in 1 .. m : Handle(s[i]) \in RunHandles
    BY <1>2, <1>3
  <2> QED BY <1>1, <2>1, <2>2
<1>5. \A a, b \in runs : a.id = b.id => a = b
  BY DEF LifeInv, Core, IdsInv
<1>6. DistinctRuns(Handles(s))
  <2> SUFFICES ASSUME NEW i \in 1 .. m, NEW j \in 1 .. m,
                      Handles(s)[i].runId = Handles(s)[j].runId
               PROVE  i = j
    BY <1>4 DEF DistinctRuns
  <2>1. s[i].id = s[j].id /\ s[i] \in runs /\ s[j] \in runs
    BY <1>2, <1>3, <1>4
  <2>2. s[i] = s[j]
    BY <1>5, <2>1
  <2> QED BY <1>1, <1>2, <2>2
<1>7. \A run \in RunsOf(t) :
        /\ Known(Handle(run))
        /\ \A h \in AllHandles : h.runId # run.id
        /\ \A p \in Callers : Holds(p) => tick[p].runId # run.id
  <2> SUFFICES ASSUME NEW run \in RunsOf(t)
               PROVE  /\ Known(Handle(run))
                      /\ \A h \in AllHandles : h.runId # run.id
                      /\ \A p \in Callers : Holds(p) => tick[p].runId # run.id
    OBVIOUS
  <2>1. Known(Handle(run))
    BY <1>3, <1>5 DEF Known
  <2>2. \A h \in AllHandles : h.runId # run.id
    <3> SUFFICES ASSUME NEW h \in AllHandles, h.runId = run.id PROVE FALSE
      OBVIOUS
    <3>1. h = Handle(run)
      BY <1>3 DEF LifeInv, Core, IdsInv
    <3> QED BY <1>3, <3>1 DEF LifeInv, Core, ServerInv
  <2>3. \A p \in Callers : Holds(p) => tick[p].runId # run.id
    <3> SUFFICES ASSUME NEW p \in Callers, Holds(p), tick[p].runId = run.id PROVE FALSE
      OBVIOUS
    <3>1. Known(Held(p)) /\ Held(p).runId = run.id
      BY HeldOK
    <3>2. Held(p) = Handle(run)
      BY <1>3, <3>1 DEF Known
    <3>3. tick[p].task = t /\ tick[p].pc = "mutex"
      BY <1>3, <3>2, HoldsInMutex DEF Held
    <3> QED BY <3>3 DEF LifeInv, Core, ServerInv
  <2> QED BY <2>1, <2>2, <2>3
<1>8. \A i \in 1 .. m :
        /\ Handles(s)[i] = Handle(s[i]) /\ s[i] \in RunsOf(t) /\ status[s[i].id] = "pending"
  BY <1>1, <1>2, <1>4
<1> HIDE DEF S
<1>9. \A i \in 1 .. m :
        /\ Handles(s)[i].taskId = t /\ Handles(s)[i].runId = s[i].id
        /\ Known(Handles(s)[i])
        /\ \A h \in AllHandles : h.runId # Handles(s)[i].runId
        /\ \A p \in Callers : Holds(p) => tick[p].runId # Handles(s)[i].runId
  BY <1>3, <1>7, <1>8
<1> QED BY <1>4, <1>6, <1>8, <1>9

\* So does a round of the start-up: the runs that it queues are not in memory.
LEMMA BootTaskLive ==
  ASSUME LifeInv, [LifeNext]_vars, BootTask
  PROVE  Live'
<1>1. PICK t, s :
        /\ t \in toBoot /\ t \in Labels \ unused /\ row[t].config \in Configs
        /\ t \in tasks /\ s \in PendingRuns(t)
        /\ ScheduleExecutable(t, row[t].config)
        /\ toBoot' = toBoot \ {t}
        /\ QueueBecomes(Queue!EnqueuedAll(queue, Handles(s)), proc)
  BY BootTaskSchedules
<1> DEFINE fs == Handles(s)
           line == queue.queue \o fs
           base == queue.executing
           n == queue.running
           pr == proc
<1>2. /\ fs \in Seq(RunHandles) /\ DistinctRuns(fs)
      /\ \A i \in 1 .. Len(fs) :
           /\ fs[i].taskId = t /\ Known(fs[i])
           /\ \A h \in AllHandles : h.runId # fs[i].runId
           /\ \A p \in Callers : Holds(p) => tick[p].runId # fs[i].runId
  BY <1>1, PendingRunsOf
<1>3. /\ UNCHANGED <<regVars, tick, server, boots>> /\ server = "booting"
  BY <1>1 DEF BootTask
<1> HIDE DEF fs
<1>4. /\ queue.queue \in Seq(RunHandles) /\ queue \in QueueProofs!QueueState
      /\ fs \in Seq([taskId : Labels, runId : RunIds, runRank : Nat \cup {Infinity}])
      /\ Queue!EnqueuedAll(queue, fs) = QueueProofs!EnqueuedAll(queue, fs)
  BY <1>2, QueueFacts, SameQueue DEF RunHandles
<1>5. PICK k \in 0 .. Len(fs) : Queue!EnqueuedAll(queue, fs) = Serve(line, k, base, n)
  BY <1>4, ConcurrencyAssumption, QueueProofs!EnqueuedAllServes DEF Serve
<1>6. /\ line \in Seq(RunHandles) /\ Len(line) = Len(queue.queue) + Len(fs)
      /\ \A i \in 1 .. Len(queue.queue) + Len(fs) :
           line[i] = IF i <= Len(queue.queue) THEN queue.queue[i] ELSE fs[i - Len(queue.queue)]
      /\ Len(queue.queue) \in Nat /\ Len(fs) \in Nat
      /\ DOMAIN fs = 1 .. Len(fs)
  BY <1>2, <1>4, ConcatProperties
<1> HIDE DEF line
<1>7. k \in 0 .. Len(line)
  BY <1>5, <1>6
<1>8. ASSUME NEW i \in 1 .. Len(line)
      PROVE  \/ i \in 1 .. Len(queue.queue) /\ line[i] = queue.queue[i]
             \/ /\ i > Len(queue.queue) /\ i - Len(queue.queue) \in 1 .. Len(fs)
                /\ line[i] = fs[i - Len(queue.queue)]
  BY <1>6
<1>9. \A i \in 1 .. Len(queue.queue) :
        queue.queue[i] \in AllHandles /\ Known(queue.queue[i])
  BY LineAtRest DEF AllHandles
<1>10. DistinctRuns(line)
  <2> SUFFICES ASSUME NEW i \in 1 .. Len(line), NEW j \in 1 .. Len(line),
                      line[i].runId = line[j].runId
               PROVE  i = j
    BY DEF DistinctRuns
  <2>1. CASE i \in 1 .. Len(queue.queue) /\ j \in 1 .. Len(queue.queue)
    <3>1. line[i] = queue.queue[i] /\ line[j] = queue.queue[j]
      BY <1>6, <2>1
    <3> QED BY <2>1, <3>1, LineAtRest DEF DistinctRuns
  <2>2. CASE i > Len(queue.queue) /\ j > Len(queue.queue)
    <3>1. /\ i - Len(queue.queue) \in 1 .. Len(fs) /\ line[i] = fs[i - Len(queue.queue)]
          /\ j - Len(queue.queue) \in 1 .. Len(fs) /\ line[j] = fs[j - Len(queue.queue)]
      BY <1>6, <1>8, <2>2
    <3>2. i - Len(queue.queue) = j - Len(queue.queue)
      BY <1>2, <3>1 DEF DistinctRuns
    <3> QED BY <1>6, <3>2
  <2>3. ASSUME NEW a \in 1 .. Len(queue.queue), NEW b \in 1 .. Len(line),
               b > Len(queue.queue)
        PROVE  line[a].runId # line[b].runId
    <3>0. Len(queue.queue) \in Nat /\ Len(fs) \in Nat /\ Len(line) = Len(queue.queue) + Len(fs)
      BY <1>6
    <3>3. a \in 1 .. Len(queue.queue) + Len(fs) /\ a <= Len(queue.queue)
      BY <3>0
    <3>1. line[a] \in AllHandles
      BY <1>6, <1>9, <3>3
    <3>4. b \in 1 .. Len(queue.queue) + Len(fs) /\ ~(b <= Len(queue.queue))
          /\ b - Len(queue.queue) \in 1 .. Len(fs)
      BY <2>3, <3>0
    <3>2. b - Len(queue.queue) \in 1 .. Len(fs) /\ line[b] = fs[b - Len(queue.queue)]
      BY <1>6, <3>4
    <3> QED BY <1>2, <3>1, <3>2
  <2>4. CASE i > Len(queue.queue) /\ j \in 1 .. Len(queue.queue)
    BY <2>3, <2>4
  <2>5. /\ i \in 1 .. Len(queue.queue) \/ i > Len(queue.queue)
        /\ j \in 1 .. Len(queue.queue) \/ j > Len(queue.queue)
    BY <1>6
  <2> QED BY <2>1, <2>2, <2>3, <2>4, <2>5
<1>11. \A h \in base, i \in 1 .. Len(line) : h.runId # line[i].runId
  <2>1. \A h \in base : h \in AllHandles
    BY DEF AllHandles
  <2> QED BY <1>2, <1>8, <2>1, LineAtRest
<1>12. \A i \in 1 .. Len(line) : Known(line[i]) /\ line[i] \notin queue.executing
  BY <1>2, <1>8, <1>9, <1>11
<1>13. \A q \in Callers : Holds(q)' =>
        /\ Holds(q) /\ tick'[q] = tick[q]
        /\ \A i \in 1 .. Len(line) : line[i].runId # tick[q].runId
  <2> SUFFICES ASSUME NEW q \in Callers, Holds(q)'
               PROVE  /\ Holds(q) /\ tick'[q] = tick[q]
                      /\ \A i \in 1 .. Len(line) : line[i].runId # tick[q].runId
    OBVIOUS
  <2>1. Holds(q) /\ tick'[q] = tick[q]
    BY <1>3 DEF Holds, regVars
  <2>2. \A h \in AllHandles : h.runId # tick[q].runId
    BY <2>1 DEF LifeInv, Core, PlaceInv
  <2> QED BY <1>2, <1>8, <1>9, <2>1, <2>2
<1>14. Event(line, k, base, n, pr)
  <2>1. UNCHANGED <<lastId, unused, runs>>
    BY <1>3 DEF regVars
  <2>2. QueueBecomes(Serve(line, k, base, n), pr)
    BY <1>1, <1>5 DEF fs
  <2>3. \A r \in RunIds : pr[r].pc # "idle" => \E h \in base : h.runId = r
    BY DEF LifeInv, Core, ExecInv
  <2>4. /\ base \subseteq queue.executing
        /\ \A x \in Procs : pr[x] = proc[x] \/ (x \in RunIds /\ pr[x] = IdleProc)
        /\ \A h \in base : pr[h.runId] = proc[h.runId]
    OBVIOUS
  <2> HIDE DEF base, n, pr
  <2> QED BY <1>6, <1>7, <1>10, <1>11, <1>12, <1>13, <2>1, <2>2, <2>3, <2>4 DEF Event
<1>15. /\ ProcInv' /\ ExecInv' /\ IdsInv' /\ PlaceInv'
       /\ \A c \in Clients : proc'[c] = proc[c]
       /\ AllHandles' = base \cup {line[i] : i \in 1 .. Len(line)}
  BY <1>14, EventLive
<1>16. TickInv'
  BY <1>3, TickKept DEF regVars, LifeInv, Core
<1>17. ServerInv'
  <2>1. \A h \in AllHandles' : h \in AllHandles \/ h.taskId = t
    <3> SUFFICES ASSUME NEW h \in AllHandles' PROVE h \in AllHandles \/ h.taskId = t
      OBVIOUS
    <3>1. CASE h \in base
      BY <3>1 DEF AllHandles
    <3>2. ASSUME NEW i \in 1 .. Len(line), h = line[i]
          PROVE  h \in AllHandles \/ h.taskId = t
      BY <1>2, <1>8, <1>9, <3>2
    <3> QED BY <1>15, <3>1, <3>2
  <2>2. \A u \in Labels \ {t} : sched'[u] = sched[u]
    BY <1>1, ScheduleOK
  <2>3. ServerInv /\ FutureNil' /\ toBoot \subseteq Labels /\ toBoot' = toBoot \ {t}
    BY <1>1, BoxesStep, TaskTypes DEF LifeInv, Core
  <2>4. \A u \in toBoot' : /\ sched'[u] = Nil
                           /\ \A h \in AllHandles' : h.taskId # u
                           /\ \A p \in Callers : tick'[p].pc = "idle" \/ tick'[p].task # u
    BY <1>3, <2>1, <2>2, <2>3 DEF ServerInv
  <2> QED BY <1>3, <1>15, <2>3, <2>4 DEF ServerInv, FutureNil, regVars
<1>18. QueueProofs!Balanced(queue')
  <2>1. \A i, j \in DOMAIN fs : fs[i] = fs[j] => i = j
    BY <1>2, <1>6 DEF DistinctRuns
  <2>2. \A i \in DOMAIN fs : fs[i] \notin QueueProofs!Queued(queue) \cup queue.executing
    BY <1>2, <1>6, SameQueue DEF AllHandles
  <2>3. QueueProofs!Balanced(QueueProofs!EnqueuedAll(queue, fs))
    BY <1>4, <2>1, <2>2, ConcurrencyAssumption, QueueProofs!EnqueuedAllBalanced DEF LifeInv
  <2>4. queue' = QueueProofs!EnqueuedAll(queue, fs)
    BY <1>1, <1>4 DEF QueueBecomes, fs
  <2> QED BY <2>3, <2>4
<1> QED BY <1>15, <1>16, <1>17, <1>18 DEF Live

\* So do its query of the tasks and its end.
LEMMA BootListLive ==
  ASSUME LifeInv, [LifeNext]_vars, BootList
  PROVE  Live'
<1>1. /\ Live /\ FutureNil' /\ server = "down" /\ server' = "booting"
      /\ toBoot' \subseteq tasks
      /\ UNCHANGED <<call, body, lastId, queue, proc, tick, boots, sched>>
      /\ UNCHANGED <<runs, unused, tasks>>
  BY BoxesStep DEF BootList, LifeInv, Core, Live, regVars, memVars
<1>2. ProcInv' /\ ExecInv'
  BY <1>1, ProcKept DEF Live
<1>3. TickInv'
  BY <1>1, TickKept DEF Live
<1>4. IdsInv' /\ PlaceInv'
  <2>1. \A p \in Callers : Holds(p)' => Holds(p) /\ tick'[p] = tick[p]
    BY <1>1 DEF Holds
  <2> QED BY <1>1, <2>1, PlacesKept DEF Live
<1>5. ServerInv'
  <2>1. /\ AllHandles' = {} /\ \A t \in Labels : sched[t] = Nil
        /\ \A p \in Callers : tick[p].pc = "idle"
    BY <1>1 DEF AllHandles, Queue!Queued, Live, ServerInv, Queue!EmptyQueue
  <2>2. /\ \A c \in Clients : proc[c].pc = "idle" /\ boots \in 0 .. MaxBoot
        /\ toBoot' \subseteq Labels
    BY <1>1, TaskTypes DEF Live, ServerInv
  <2> QED BY <1>1, <2>1, <2>2 DEF ServerInv, FutureNil, Live
<1>6. QueueProofs!Balanced(queue')
  BY <1>1 DEF Live
<1> QED BY <1>2, <1>3, <1>4, <1>5, <1>6 DEF Live

LEMMA ListenLive ==
  ASSUME LifeInv, [LifeNext]_vars, Listen
  PROVE  Live'
<1>1. /\ Live /\ FutureNil' /\ server' = "up" /\ toBoot' = {}
      /\ UNCHANGED <<call, body, lastId, queue, proc, tick, boots, sched>>
      /\ UNCHANGED <<runs, unused, tasks>>
  BY BoxesStep DEF Listen, LifeInv, Core, Live, regVars, memVars
<1>2. ProcInv' /\ ExecInv'
  BY <1>1, ProcKept DEF Live
<1>3. TickInv'
  BY <1>1, TickKept DEF Live
<1>4. IdsInv' /\ PlaceInv'
  <2>1. \A p \in Callers : Holds(p)' => Holds(p) /\ tick'[p] = tick[p]
    BY <1>1 DEF Holds
  <2> QED BY <1>1, <2>1, PlacesKept DEF Live
<1>5. ServerInv'
  BY <1>1 DEF ServerInv, FutureNil, Live
<1>6. QueueProofs!Balanced(queue')
  BY <1>1 DEF Live
<1> QED BY <1>2, <1>3, <1>4, <1>5, <1>6 DEF Live

\* A crash leaves nothing in memory.
LEMMA CrashLive ==
  ASSUME LifeInv, [LifeNext]_vars, Crash
  PROVE  Live'
<1>1. /\ Live /\ FutureNil' /\ server' = "down" /\ toBoot' = {}
      /\ call' = [p \in Callers |-> NoCall]
      /\ body' = [p \in Callers |-> NoBody]
      /\ queue' = Queue!EmptyQueue
      /\ tick' = [p \in Callers |-> NoTick]
      /\ proc' = [x \in Procs |-> IdleProc]
      /\ \A t \in Labels : sched'[t] = Nil
      /\ UNCHANGED <<lastId, runs, unused, tasks>>
      /\ boots' \in 0 .. MaxBoot
  BY BoxesStep DEF Crash, LoseMemory, tableVars, LifeInv, Core, Live
<1>2. /\ ~\E p \in Callers : Holds(p)'
      /\ AllHandles' = {} /\ queue'.queue = <<>> /\ queue'.executing = {}
  BY <1>1 DEF Holds, NoBody, AllHandles, Queue!Queued, Queue!EmptyQueue
<1>3. ProcInv'
  <2>1. /\ FrameOK(IdleProc, unused') /\ IdleProc.op = "none" /\ IdleProc.pc = "idle"
    BY <1>1, IdleOK
  <2> HIDE DEF IdleProc
  <2> QED BY <1>1, <2>1, ProcKinds DEF ProcInv
<1>4. ExecInv'
  <2>1. \A x \in Procs : proc'[x].pc = "idle"
    BY <1>1 DEF IdleProc
  <2> QED BY <1>2, <2>1, ProcKinds DEF ExecInv
<1>5. TickInv'
  <2>1. NoTick \in Tick /\ NoTick.pc = "idle" /\ NoCall.phase = "idle"
    BY DEF NoTick, Tick, NoCall
  <2> HIDE DEF NoTick, NoCall
  <2> QED BY <1>1, <2>1 DEF TickInv, Tick
<1>6. IdsInv'
  BY <1>1, <1>2 DEF IdsInv, Live
<1>7. PlaceInv'
  BY <1>2 DEF PlaceInv, RunQueuedOnce
<1>8. ServerInv'
  <2>1. \A x \in Procs : proc'[x].pc = "idle"
    BY <1>1 DEF IdleProc
  <2>2. \A p \in Callers : tick'[p].pc = "idle"
    BY <1>1 DEF NoTick
  <2> QED BY <1>1, <2>1, <2>2, ProcKinds DEF ServerInv, FutureNil
<1>9. QueueProofs!Balanced(queue')
  <2>1. QueueProofs!Balanced(QueueProofs!EmptyQueue)
    BY ConcurrencyAssumption, QueueProofs!EmptyBalanced
  <2> QED BY <1>1, <2>1, SameQueue
<1> QED BY <1>3, <1>4, <1>5, <1>6, <1>7, <1>8, <1>9 DEF Live

\* All steps together.
LEMMA StepLive ==
  ASSUME LifeInv, [LifeNext]_vars
  PROVE  Live'
<1>1. BootStep => BootList \/ BootTask \/ Listen
  BY DEF BootStep
<1> QED BY <1>1, Kinds, FrameLive, SettleLive, OutsideLive, CronLive, TickLive,
           BootListLive, BootTaskLive, ListenLive, CrashLive

-----------------------------------------------------------------------------
(* The invariant, and the first theorems that follow from it.              *)

\* The invariant holds at the first start,
LEMMA LifeInvInit == LifeInit => LifeInv
<1> SUFFICES ASSUME LifeInit PROVE LifeInv
  OBVIOUS
<1>1. RegInv
  BY RegInvInit DEF LifeInit
<1>2. /\ call = [p \in Callers |-> NoCall] /\ body = [p \in Callers |-> NoBody]
      /\ tasks = {} /\ unused = Labels /\ runs = {} /\ lastId = 0
      /\ row = [t \in Labels |-> Nil]
      /\ status = [r \in RunIds |-> "none"]
      /\ sched = [t \in Labels |-> Nil]
      /\ queue = Queue!EmptyQueue
      /\ tick = [p \in Callers |-> NoTick]
      /\ proc = [x \in Procs |-> IdleProc]
      /\ builds = <<>>
      /\ image = [t \in Labels |-> Nil]
      /\ box = [b \in Boxes |-> Nil]
      /\ server = "up" /\ toBoot = {} /\ boots = 0
  BY DEF LifeInit, RegInit, Init
<1>3. /\ ~\E p \in Callers : Holds(p)
      /\ AllHandles = {} /\ queue.queue = <<>> /\ queue.executing = {}
  BY <1>2 DEF Holds, NoBody, AllHandles, Queue!Queued, Queue!EmptyQueue
<1>4. ProcInv
  <2>1. /\ FrameOK(IdleProc, unused) /\ IdleProc.op = "none" /\ IdleProc.pc = "idle"
    BY IdleOK
  <2> HIDE DEF IdleProc
  <2> QED BY <1>2, <2>1, ProcKinds DEF ProcInv
<1>5. ExecInv
  <2>1. \A x \in Procs : proc[x].pc = "idle"
    BY <1>2 DEF IdleProc
  <2> QED BY <1>3, <2>1, ProcKinds DEF ExecInv
<1>6. TickInv
  <2>1. NoTick \in Tick /\ NoTick.pc = "idle" /\ NoCall.phase = "idle"
    BY DEF NoTick, Tick, NoCall
  <2> HIDE DEF NoTick, NoCall
  <2> QED BY <1>2, <2>1 DEF TickInv, Tick
<1>7. IdsInv
  BY <1>2, <1>3, MaxRunIdAssumption DEF IdsInv
<1>8. PlaceInv
  BY <1>3 DEF PlaceInv, RunQueuedOnce
<1>9. ServerInv
  BY <1>2, MaxBootAssumption DEF ServerInv, Boxes
<1>10. FreshInv
  BY <1>2 DEF FreshInv
<1>11. QueueProofs!Balanced(queue)
  <2>1. QueueProofs!Balanced(QueueProofs!EmptyQueue)
    BY ConcurrencyAssumption, QueueProofs!EmptyBalanced
  <2> QED BY <1>2, <2>1, SameQueue
<1>12. LifeTypeOK
  <2>1. RegTypeOK
    BY <1>1 DEF RegInv
  <2>2. Queue!TypeOK
    BY <1>11 DEF QueueProofs!Balanced, QueueProofs!Sound, QueueProofs!QueueState,
       Queue!TypeOK, Queue!QueueState
  <2> QED BY <1>2, <2>1, <2>2 DEF LifeTypeOK
<1> QED BY <1>1, <1>4, <1>5, <1>6, <1>7, <1>8, <1>9, <1>10, <1>11, <1>12 DEF LifeInv, Core

\* every step keeps it,
LEMMA LifeInvStep == LifeInv /\ [LifeNext]_vars => LifeInv'
<1> SUFFICES ASSUME LifeInv, [LifeNext]_vars PROVE LifeInv'
  OBVIOUS
<1>1. Live'
  BY StepLive
<1>2. RegInv'
  <2>1. TickOK
    BY DEF LifeInv, Core, TickInv, TickOK
  <2> QED BY <2>1, LifeStepRegisters, RegInvStep DEF LifeInv
<1>3. FreshInv'
  BY SchedStep, BuildsStep DEF FreshInv, SchedOK, BuildsOK
<1>4. LifeTypeOK'
  <2>1. RegTypeOK'
    BY <1>2 DEF RegInv
  <2>2. Queue!TypeOK'
    BY <1>1 DEF Live, QueueProofs!Balanced, QueueProofs!Sound, QueueProofs!QueueState,
       Queue!TypeOK, Queue!QueueState
  <2>3. \A i \in DOMAIN builds' : builds'[i] \in Build
    BY BuildsStep DEF BuildsOK
  <2> QED BY <2>1, <2>2, <2>3, RowStep, StatusStep, SchedStep, ImageStep, BoxStep
          DEF LifeTypeOK, RowOK, Row, Statuses, SchedOK, Entries, Build, Box
<1> QED BY <1>1, <1>2, <1>3, <1>4 DEF LifeInv, Core, Live

\* and it always holds.
LEMMA LifeInvAlways == LifeSpec => []LifeInv
BY LifeInvInit, LifeInvStep, PTL DEF LifeSpec

\* Every variable of the system keeps its type: no row without a task, no
\* container without a build it was made from.
THEOREM LifecycleTypeCorrect == LifeSpec => []LifeTypeOK
<1>1. LifeInv => LifeTypeOK
  BY DEF LifeInv, Core
<1> QED BY <1>1, LifeInvAlways, PTL

\* A run is executed by one function only, and is not queued while one executes
\* (task.service.ts, lines 35-49; task-executor.service.ts, lines 43-49): the
\* start-up queues the pending runs of a task before cron can fire for it, and a
\* tick enqueues the run that it registered once.
THEOREM LifecycleQueuesOnce == LifeSpec => []RunQueuedOnce
<1>1. LifeInv => RunQueuedOnce
  BY DEF LifeInv, Core, PlaceInv
<1> QED BY <1>1, LifeInvAlways, PTL
=============================================================================
