--------------------------- MODULE RunRegistration ---------------------------
(***************************************************************************)
(* TaskRunService.tryToRegister (src/plugins/task/task-run.service.ts): a  *)
(* cron tick asks for a run of its task.  Under the mutex of the task it   *)
(* counts the rows of task_runs, compares the count with the limit `times` *)
(* and inserts a pending run whose rank is the count plus one.             *)
(*                                                                         *)
(* Counting and inserting are two queries, each awaited: what other flows  *)
(* do in between is why the mutex is there.  deleteTask may remove the     *)
(* task, and by the foreign key's cascade its runs, at any time; it does   *)
(* not take the mutex.  A crash of the process loses the mutex and the     *)
(* registering flows and keeps the tables.                                 *)
(***************************************************************************)
EXTENDS InMemoryMutex, FiniteSets

CONSTANTS Times,      \* per task id (a label of the mutex): the limit `times`
          NoLimit,    \* the limit of a task whose `times` is undefined
          Infinity,   \* JavaScript's Infinity
          MaxRunId    \* bound: ids that AUTOINCREMENT hands out

ASSUME TimesAssumption ==
  /\ Times \in [Labels -> Nat \cup {NoLimit}]
  /\ NoLimit \notin Nat
  /\ Infinity \notin Nat
ASSUME MaxRunIdAssumption == MaxRunId \in Nat

VARIABLES tasks,    \* ids with a row in table tasks
          unused,   \* ids that AUTOINCREMENT has not given to a task yet
          runs,     \* the rows of table task_runs
          lastId,   \* sqlite_sequence: the last id given to a run
          body      \* per caller: progress inside the function that
                    \* tryToRegister hands to the mutex

tableVars == <<tasks, unused, runs, lastId>>
regVars == <<lockedResources, call, tasks, unused, runs, lastId, body>>

Limited == {t \in Labels : Times[t] # NoLimit}

RunsOf(t) == {r \in runs : r.taskId = t}

\* Where the function stands: before it starts, before countByTaskId, before
\* create, or about to return (the run, null, or by rejecting).
NoBody == [stage |-> "none", runsCount |-> 0]
Body == [stage : {"none", "count", "create", "created", "denied", "rejected"},
         runsCount : Nat \cup {Infinity}]

RegInit ==
  /\ Init
  /\ tasks = {}
  /\ unused = Labels
  /\ runs = {}
  /\ lastId = 0
  /\ body = [p \in Callers |-> NoBody]

-----------------------------------------------------------------------------
\* isRunAllowed before its await: without a limit it answers
\* [true, Infinity] and asks no query.
BodyOf(t) ==
  IF Times[t] = NoLimit THEN [stage |-> "create", runsCount |-> Infinity]
                        ELSE [stage |-> "count", runsCount |-> 0]

\* The mutex calls the function in the step in which it locks.
EnterIfLocked(p) ==
  body' = [body EXCEPT ![p] =
             IF call'[p].phase = "inside" THEN BodyOf(call'[p].label) ELSE NoBody]

\* tryToRegister(t): mutex.run.  Ticks are of tasks that were created.
TryToRegister(p, t) ==
  /\ t \notin unused
  /\ Run(p, t)
  /\ EnterIfLocked(p)
  /\ UNCHANGED tableVars

\* The sleep in the mutex is over.
RetryRegister(p) ==
  /\ Wake(p)
  /\ EnterIfLocked(p)
  /\ UNCHANGED tableVars

\* Mutant of CountRuns: lets one run too many through.
CountRunsInclusive(p) ==
  /\ body[p].stage = "count"
  /\ LET t == call[p].label
         n == Cardinality(RunsOf(t))
     IN  body' = [body EXCEPT ![p] =
                    [stage |-> IF n <= Times[t] THEN "create" ELSE "denied",
                     runsCount |-> n]]
  /\ UNCHANGED <<mutexVars, tableVars>>

\* dao.countByTaskId and the answer of isRunAllowed.
CountRuns(p) ==
  /\ body[p].stage = "count"
  /\ LET t == call[p].label
         n == Cardinality(RunsOf(t))
     IN  body' = [body EXCEPT ![p] =
                    [stage |-> IF n < Times[t] THEN "create" ELSE "denied",
                     runsCount |-> n]]
  /\ UNCHANGED <<mutexVars, tableVars>>

\* Mutant of Rank: the runs are numbered from 0.
RankFromZero(n) == n

\* runsCount + 1
Rank(n) == IF n = Infinity THEN Infinity ELSE n + 1

\* dao.create; the foreign key refuses a run of a task that is gone.
CreateRun(p) ==
  /\ body[p].stage = "create"
  /\ call[p].label \in tasks
  /\ lastId < MaxRunId
  /\ lastId' = lastId + 1
  /\ runs' = runs \cup {[id |-> lastId + 1, taskId |-> call[p].label,
                         rank |-> Rank(body[p].runsCount)]}
  /\ body' = [body EXCEPT ![p].stage = "created"]
  /\ UNCHANGED <<mutexVars, tasks, unused>>

\* A query of the function rejects and changes nothing.
QueryRejects(p) ==
  /\ body[p].stage \in {"count", "create"}
  /\ body' = [body EXCEPT ![p].stage = "rejected"]
  /\ UNCHANGED <<mutexVars, tableVars>>

\* The function settled: the mutex unlocks and tryToRegister settles likewise.
Return(p) ==
  /\ body[p].stage \in {"created", "denied", "rejected"}
  /\ Leave(p)
  /\ body' = [body EXCEPT ![p] = NoBody]
  /\ UNCHANGED tableVars

\* createTask: dao.create.
InsertTask(t) ==
  /\ t \in unused
  /\ unused' = unused \ {t}
  /\ tasks' = tasks \cup {t}
  /\ UNCHANGED <<mutexVars, runs, lastId, body>>

\* Mutant of DeleteTask: the foreign key does not cascade.
DeleteTaskAlone(t) ==
  /\ tasks' = tasks \ {t}
  /\ UNCHANGED <<mutexVars, unused, runs, lastId, body>>

\* deleteTask: dao.delete and the cascade on task_runs.task_id.
DeleteTask(t) ==
  /\ tasks' = tasks \ {t}
  /\ runs' = runs \ RunsOf(t)
  /\ UNCHANGED <<mutexVars, unused, lastId, body>>

\* The process dies: what it kept in memory is as after a start.
LoseMemory ==
  /\ lockedResources' = {}
  /\ call' = [p \in Callers |-> NoCall]
  /\ body' = [p \in Callers |-> NoBody]
  /\ UNCHANGED tableVars

RegNext ==
  \/ \E p \in Callers :
       \/ \E t \in Labels : TryToRegister(p, t)
       \/ RetryRegister(p)
       \/ CountRuns(p)
       \/ CreateRun(p)
       \/ QueryRejects(p)
       \/ Return(p)
  \/ \E t \in unused : InsertTask(t)
  \/ \E t \in tasks : DeleteTask(t)
  \/ LoseMemory

RegSpec == RegInit /\ [][RegNext]_regVars

\* The retry timer of a waiting flow fires; queries owe nothing.
FairRegSpec == RegSpec /\ TimersFire

-----------------------------------------------------------------------------
\* Type invariant of the tables and of the registering flows.
RegTypeOK ==
  /\ TypeOK
  /\ tasks \subseteq Labels
  /\ unused \subseteq Labels
  /\ runs \subseteq [id : 1 .. lastId, taskId : tasks, rank : Nat \cup {Infinity}]
  /\ lastId \in Nat
  /\ body \in [Callers -> Body]

\* The count a flow holds while it waits for its insert is still the number
\* of rows, however the ticks of the task interleave; only a deletion can
\* make it stale, and then the insert is refused.
CountStaysFresh ==
  \A p \in Callers :
    LET t == call[p].label
    IN  body[p].stage = "create" /\ t \in tasks \cap Limited
          => body[p].runsCount = Cardinality(RunsOf(t))

\* A limited task never gets more runs than its `times`.
RunLimit == \A t \in Limited : Cardinality(RunsOf(t)) <= Times[t]

\* The ranks of a limited task are 1, 2, ..., n, each given once: the rank is
\* what runTask compares with `times` to close the task after its last run.
RanksConsecutive ==
  \A t \in Limited :
    /\ {r.rank : r \in RunsOf(t)} = 1 .. Cardinality(RunsOf(t))
    /\ \A r, s \in RunsOf(t) : r.rank = s.rank => r = s

\* Seen from the tables, registration implements the abstract budget.
RunBudget == INSTANCE RunBudget
               WITH LimitedTasks <- Limited,
                    Budget <- [t \in Limited |-> Times[t]],
                    issued <- [t \in Limited |-> {r.rank : r \in RunsOf(t)}],
                    phase <- [t \in Limited |-> IF t \in unused THEN "new"
                                             ELSE IF t \in tasks THEN "open"
                                             ELSE "closed"]
ImplementsRunBudget == RunBudget!Spec
=============================================================================
