# Prescott in TLA+

Prescott is one Node.js process that runs tasks on a cron schedule, every run of a task in a docker
container of its own. It keeps tasks, runs, users, sessions, groups and roles in a database, the output of
runs in files, and everything else in memory. This directory holds TLA+ modules of it, TLC runs over small
instances, and proofs that TLAPS checks.

Paths below are relative to the application (`src/lib/...` is `src/src/lib/...` of the checkout), except those of
tests, schemas and migrations. `PROJECT.json` is the index: components, runs, mutants, the lines each
definition models, findings, hazards and theorems.

## 1. The system

### Components

| component | state it keeps | operations | status |
|---|---|---|---|
| `InMemoryMutex` (`src/lib/async.utils.ts`) | set of locked labels | `run` | modelled, proved |
| task queue (`src/workdir/contract/queue`) | array of executor functions, counter `running` | `enqueue`, end of a function | modelled, proved |
| cron scheduler (`src/workdir/contract/scheduler`) | record of entries | `schedule`, `start`, `stop`, `delete`, `exists` | modelled |
| `TaskRunService` + dao | table `task_runs`; a mutex per task | `tryToRegister`, `start`, `finish`, `stopAll` | modelled, registration proved |
| `TaskService` + dao | table `tasks` | create, start, stop, update, delete, cron callback, `runTask`, `registerFromDatabase` | modelled |
| `TaskExecutorService` | none | schedule, enqueue, run, stop, delete, update of executables | modelled |
| docker environment (`src/workdir/contract/env/docker`) | images and containers (in docker) | build, run, list, stop, rm, wait, rmi, logs | partly: sampling and parsing of `docker stats` and inspection are left out |
| start of the server (`src/server.ts`) | none | `registerFromDatabase`, then `listen`; crashes | partly |
| logs and metrics of runs: consumers of the file providers, `flushAll` | files and directories | consume, flush | modelled, proved |
| searches of logs and metrics, paging, aggregates | none beyond a request | `searchLogs`, `searchMetrics`, `aggregateMetrics` | modelled, pages proved |
| authentication, users | tables `users`, `refresh_sessions` | register, login, refresh, logout | modelled, proved |
| tokens and passwords | none | sign, verify, hash | partly: right or wrong, and the time they take |
| authorization | tables `groups`, `user_groups`, `user_roles` | groups, members, roles; the hooks of routes | modelled, proved |
| database schema | keys and cascades | | partly |
| shell commands, contract loader, root configuration, errors, JSON schemas, small helpers | none | conversions, one-time loading | not modelled (section 6) |

### How they interact

A route calls `TaskService`. `createTask` inserts a row and calls `scheduleExecutable`, which makes a
stopped entry in the scheduler and dispatches a docker build without waiting for it; the end of the build
starts the entry. A started entry fires the cron callback: it looks at the row, asks
`tryToRegister` for a run (under the task's mutex: count, compare with `times`, insert) and
enqueues an executor function. The queue starts the function when fewer than `maxConcurrency`
execute. The function (`runTask`) looks at the row again, starts a container, marks the run `running`,
waits, writes the result, removes the container and, after the run with the last rank, closes the task. Any
error on the way is answered with `stopTask`. At its start the server lists the active tasks, enqueues their
pending runs and schedules them again, and only then listens.

When a run is marked `running`, two consumers are dispatched that copy the output of `docker logs` and the
samples of `docker stats` into files; nobody waits for them. Searches read these files while they grow;
`deleteTask` removes their directories. Requests pass hooks that read the group and the roles of the user, and the
user is known by an access token that login or refresh has signed; both act on the database alone.

### What is hard here

* Everything interleaves at `await`: a count that is used after an await, a row that was active when it
  was read, a token that is read and then deleted, a role that is checked and then granted.
* `stop`, `update` and `delete` pull containers, images and files away under runs that are executing.
* A crash loses entries, queue, locks, timers and consumers, and keeps rows, images, containers and files.
* The close of a limited task depends on the order in which runs are registered, queued and started.
* One `docker logs` process feeds two pipes that are read one after the other.

What makes each component correct: the mutex excludes and nobody polls for ever; the queue is
FIFO, bounded and never idle with work waiting; registration never exceeds `times` and numbers runs
1..n; a run's result is final, its container does not outlive it, pending runs survive a restart and
are executed once; at rest the entries agree with the rows; a limited task is closed at last; a log has
everything that was printed, each stream in order; a page has exactly the entries that were asked for; a token is exchanged
for one valid session at most; the sessions of a user are limited; the owner
stays in the group and is the only one to make managers.

## 2. Modules

`InMemoryMutex` and `InMemoryTaskQueue` model one file each. `RunRegistration` extends the mutex by the
function `tryToRegister` runs under it and the two tables. `TaskLifecycle` extends `RunRegistration`, uses
the operators of `InMemoryTaskQueue` and `CronTaskScheduler` on its own variables, and adds every flow of
the services. `RunOutput` has the way of a run's output into its files, `RunSearch` the reading of such a
file; they meet in `OutputFile`, the file as a reader may rely on it: `RunOutput` implements it, `RunSearch` extends it.
`Sessions` and `Membership` stand alone, as their code does. `FifoExecutor`, `RunBudget` and `OutputFile`
are abstract: what the queue, registration and the file providers promise.

```
FifoExecutor <== InMemoryTaskQueue ----\
CronTaskScheduler ----------------------> TaskLifecycle ==> RunRegistration ==> RunBudget
InMemoryMutex --> RunRegistration -----/

RunOutput ==> OutputFile --> RunSearch         Sessions         Membership

(==> implements, --> used by)
```

**The grain of a step.** Between two awaits on the outside world (a query, a docker command, a timer, a file) the
process runs without interruption: awaits of functions that are `async` but touch only memory
(scheduler, queue) are continued in microtasks before the next event is taken. So a step is one query,
one docker command, one operation on a file, or the stretch of code between two of them with all its changes of memory.

**InMemoryMutex.** `lockedResources` is the Set; `call[p]` is the frame of flow `p` inside `run`: idle, waiting
with its `retryIdx`, inside the function, or thrown. `RunImpl` is `runImpl` up to its next await, `Wake` the
timer, `Leave` the `finally` block.

**InMemoryTaskQueue.** `taskQueue` has the array, the counter and the set of functions that execute.
`ExecuteNext`, `Enqueued` and `Settled` are operators on such a value, so that `TaskLifecycle` can use them; `EnqueuedAll`
is the loop of `enqueue` over the pending runs of a task at the start, written as what it comes to (section 4 proves that it does).
`NaN` is what the unary `+` makes of an option that is no number.

**RunRegistration.** `tasks`, `unused`, `runs`, `lastId` are the tables with their AUTOINCREMENT;
`body[p]` is the progress of the function under the mutex. `CountRuns` and `CreateRun` are its queries,
`QueryRejects` a query that fails, `DeleteTask` a deletion with its cascade (the foreign key is
enforced by better-sqlite3 by default, and by PostgreSQL), `LoseMemory` a crash. `times` may be a fraction in the JSON schema; `count < times` and
`rank >= times` then behave as for the next integer, so `Times` ranges over `Nat`. `updateTask`
replaces only the `config` part and cannot change `times`, so it is a constant of the task.

**TaskLifecycle.** `row` and `status` are the remaining columns; `sched`, `queue` the memory; `tick[p]` a running
cron callback; `proc[x]` a request (x a client) or an executor function (x a run id): the routine it is in and
its next step, from the table `Routine`; `builds` the dispatched builds; `image[t]` the build that carries the
tag of task t; `box` the containers, named by run and life of the server; `server`, `toBoot` the start. One
action per step of a method: `Find` (`findByIdThrowable` and the test of `active`), `Deactivate`, `Unschedule`,
`ListChildren`, `HandleChild`, `StopPending` for `stopTask`; `RunCheck` .. `RunRemove`, `Unschedule` ..
`RemoveUnusedImage`, `Deactivate` for `runTaskImpl`, with `Catch` for its errors; and so on. `Failures` says which commands may
fail: `build`, `run` (before docker run makes a container) and `created` (after), `ls` and `rmi` (`CommandFails`: the flow ends where it is, a run
is caught), `child` (docker stop or rm of a listed container: `Promise.allSettled` passes over it, the container stays), `status` (the
`dao.update` of `start` and `finish` of a run).
Docker's own behaviour (`Children`, `Stopped`, `Removed`, `BoxExits`, `BuildImage`, the conflict in `docker rmi`)
is the contract that the adapter relies on.

**RunOutput.** `printed[r]` is what the container printed; `docker logs` has put the first `copied[r]` of it into
its two pipes, and the consumer has taken the places in `taken[r]` out of them: all of stdout, then stderr, as
`logs()` yields. `stage[k]` is the await of the consumer of output `k`; `consumed[k]` what it has passed to the
write stream, of which `written[k]` lines and perhaps half of another are in the file. `dirs` and `linked` are what
the directories hold, so that `rmRecursiveSafe` (unlink, rmdir) and the consumers (mkdir, open) can meet in any
order; `Open` in a directory that is gone is an 'error' event without a listener, which ends the process (`Halt`). A pipe of `PipeSize`
entries stands for the pipe and the buffer of the stream that reads it.

**RunSearch.** A search reads the row of the run, which must be one of the task in the request, opens the file and reads line by line, while the file goes on
as an `OutputFile`. Entries are what the matchers and attributes tell apart: whether they match and a value.
`Process` is the paginator's `process`, `Added` and `Built` the aggregators. `+` of sums is exact, `toFixed` is left out, and what `std`
is the root of is compared as an integer numerator.

**Sessions.** One client is one request under way, `pc` the query or computation it awaits. `FindToken` and
`RefreshDelete` are the two queries of `deleteByTokenAndGet`; `CountSessions`, `Wipe`, `InsertSession` those of
`addRefreshSession`. The unique keys (`login`, `email`; `user_id` with `ip`) act in the inserts.
`heirOf` is no column: it remembers the token a session was made for.

**Membership.** `HookGroup` and `HookRoles` are the pre-handlers, for the routes of tasks with the permissions of the migration (`TaskPermits`); then the queries of each handler
(`Remove...`, `Add...`, `Drop...`). Foreign keys act in the inserts, cascades in `DeleteGroup` and `DeleteMember`. The
throwing `ROLES.some(roles.includes)` is a step that replies with an error.

## 3. Runs

Every property of a passing run has a mutant, an operator of the module that makes a plausible error, under
which TLC finds the property violated.

| run | instance | shows |
|---|---|---|
| `registration` | 3 ticks, one task with `times` 2, one without limit, 4 run ids, 2 retries | `RunLimit`, `RanksConsecutive`, `CountStaysFresh`, `MutualExclusion` with deletions, rejected queries and crashes; implements `RunBudget`; nobody polls for ever |
| `queue` | 5 functions, 2 at once | bound, no idling, each function started at last; implements `FifoExecutor` |
| `lifecycle_limit` | 1 task with `times` 2, 2 overlapping ticks, 2 runs at once, failures of docker run before and after it makes its container and of listing containers | `LimitedTaskCloses` (liveness); a started entry has the image of its configuration |
| `lifecycle_api` | 2 clients, 3 requests of create/start/stop, 2 ticks, 2 runs, one at a time | with failures of listing, stopping and removing containers: `NoZombieRun`, `ActiveHasEntry` |
| `lifecycle_update` | 1 client, 4 requests of create/update/stop/delete, 3 builds, 2 configurations, 1 run | with failures of listing, stopping and removing containers and of `docker rmi`: `EntryMatchesRow`, `NoContainerLeak` |
| `lifecycle_crash` | create and stop, 1 crash at any step, failures of docker build, of docker run after it has made its container and of status updates, `times` 2 | `RunQueuedOnce`, `PendingIsHeld`, `StartedInRankOrder`, `ResultIsFinal`, and that the whole system implements `RunRegistration` |
| `sessions` | 2 requests at once, 3 addresses, 1 session allowed, 4 session ids, crashes, expiry | `SessionBound` (the limit is passed by one session per other request at most), `OneHeir` |
| `membership` | 2 requests at once of 3 users, 1 group, 3 memberships, crashes | `OwnerIsMember`, `MembershipBound`, `ManagersAreTheOwners` |
| `run_output` | 1 run that prints 3 entries to 2 streams, pipes of 1, 1 sample, a delete, the end of the process | `LogIsComplete`, `FittingLogCloses` (liveness); implements `OutputFile` |
| `run_search` | a file of up to 3 lines, `from` -1..2, page sizes 0, 1, 3 under a maximum of 2, an aggregate | `PageIsExact`, `NothingMissed`, `AggregateIsExact` |

Runs that end in a violation show where the code differs from what the repository says of it:

| run | what TLC finds |
|---|---|
| `stop_then_start` | stop keeps the stopped entry, start finds it and returns before `scheduler.start`: active, but never fired |
| `stderr_stall` | with the pipe of stderr full, `docker logs` waits for room and the consumer for the end of stdout: the log of a container that has exited is never closed |

### Deviations that the models follow

The models do what the code does in these places too; no run is spent on them.

* `runImpl` tests `retryIdx` before the lock, so the last sleep is followed by no look: a call may reject with the label
  free (`src/lib/async.utils.ts:39`; `test/unit/lib/async.utils.test.ts:18` says it retries 5 times).
* A run of a task without `times` gets the rank `Infinity` (`task-run.service.ts:72`, `:84`), while
  `schemas/domain/task-run.json:12` says positive integer.
* `start` of an entry is by task id: the build of an older configuration, ending after an update, starts the
  new entry before its image exists (`task-executor.service.ts:56`). `StartedEntryHasImage` is checked without updates.
  A delete, and the close of a task by its resumed last run, remove the image just as well between docker build and `scheduler.start`.
* An update removes the container of an executing run. The run's `docker wait` or `docker rm` fails, `runTask` catches and stops the
  task that was just updated (`task.service.ts:96`); `stopAll` then touches pending runs only, so this run may stay
  `running`. `NoZombieRun` is therefore checked without updates.
* An update whose `docker container ls` or `docker rmi` rejects ends between the removal of the old entry and the new one
  (`task-executor.service.ts:142`, `:103`): the row stays active without an entry until the server restarts. A delete that a start overlaps and that fails there leaves
  the same. `ActiveHasEntry` is therefore checked without updates and deletes; `EntryMatchesRow` holds all the same.
* A `docker run` that fails after it has made its container, and an update of the status that rejects (`task.service.ts:113`, `:115`), go
  through a catch that calls `stopTask` and removes nothing (`task.service.ts:87`): the container stays, and after a rejected `finish` the run stays
  `running`. `NoContainerLeak` is stated without these two failures, `NoZombieRun` without the second; `lifecycle_crash` has both.
* A delete whose `docker rmi` rejects has removed the container of an executing run and keeps its row: that run stays `running`.
  `NoZombieRun` is stated without this failure too.
* `ROLES.some(roles.includes)` calls `includes` without its array and throws (`authorization.service.ts:64`, `:87`):
  whoever is not the owner can remove no member and add no role.
* `next` of a page is `matchedCounter + 1`, while `from` is compared with a counter from 0 (`paging.utils.ts:31`): who
  follows `next` skips an entry per page.
* A page size of 0 or less never equals the size of a page that has an entry, so it switches the limit off (`paging.utils.ts:27`).
* `tasks.group_id` references `groups` without a cascade, so that the delete of a group that has tasks is refused
  by the database (`DeleteGroup` throws).

### Bounds

`MaxRequests`, `MaxBuild`, `MaxBoot`, `MaxRunId`, `MaxSessionId`, `MaxGroupId`, `MaxMemberId`, `MaxPrinted`, `MaxSamples`,
`MaxLines` and `Menu` cap what is otherwise unbounded: requests, builds, crashes, ids, entries, and who asks for what. They
appear as guards. A lifecycle run may therefore stop
at its bounds, so it does not check deadlock; the other passing runs do.

The sizes are the least that let the hazards happen: two overlapping ticks for every race of registration and for
two queued runs; `times` 2 so that there is a run before the last one; one execution at a time with
two runs so that one waits in the queue while the other is stopped; four requests for create, update,
stop, delete in one life of a task; one crash, since a second one meets the same state as the first. Two requests
race for a token, a session or a membership; four session ids let both of them exchange a token after it was itself the result of an
exchange; three addresses let a user pass a limit of one session by one and still have an address left to come from.
Three entries in pipes of one let docker logs wait for either pipe with another entry behind it. Three lines are one more than the
largest page, so that a page can be full before the end of the file. What depends on numbers of tasks,
ticks, runs, clients, users, entries and lines is proved instead (section 4). The retries in the lifecycle are 2 in place of 5, and 1 in `lifecycle_crash`, which makes
the rejected tick reachable with two ticks. Client, tick, address and configuration identities are symmetric where no
liveness is checked.

### Fairness

`registration`: a timer that was set fires; queries owe nothing. `queue`: executor functions end. `lifecycle_limit`: every query and
docker command that was issued ends, cron fires a started entry again and again, and a container ends, by itself or because
of its `ttl` (a task whose container never ends and that has no ttl is never closed). `run_output` and `stderr_stall`: `docker logs`
copies when there is room, and the consumers go on with what is there; containers, deletes and the process owe nothing. Clients owe nothing.
All of it is weak fairness per flow: Node's event loop continues every flow whose event has arrived.

## 4. Proofs

| module | what is proved, for every value of the constants |
|---|---|
| `InMemoryTaskQueueProofs` | `TypeOK`, `NothingTwice`, `RunningCountsExecuting`, `WorkConserving`, `ConcurrencyBound`, that the queue implements `FifoExecutor`, and that `EnqueuedAll` is `enqueue` done once per function |
| `RunRegistrationProofs` | of the mutex `MutualExclusion`, `LockedIffHeld`, `ThrowsAfterAllRetries`; of registration `RegTypeOK`, `MutualExclusion`, `CountStaysFresh`, `RunLimit`, `RanksConsecutive`, and that registration implements `RunBudget` |
| `TaskLifecycleProofs` | that `TaskLifecycle` implements `RunRegistration`, and so `RunLimit` and `RanksConsecutive` of the whole system; the inductive invariant `LifeInv`; `LifeTypeOK`, `RunQueuedOnce` |
| `TaskLifecyclePropertiesProofs` | `ResultIsFinal`, `StartedInRankOrder`; `NoContainerLeak` without docker run failing halfway and rejected status updates; `ActiveHasEntry` without failures of docker ls and rmi, or without updates and deletes; `EntryMatchesRow` with one client; `PendingIsHeld` without start requests; `NoZombieRun` without updates, crashes and failures of docker rmi and of status updates; `StartedEntryHasImage` without updates, deletes and crashes |
| `SessionsProofs` | `SessTypeOK`, `SessionBound`, `OneHeir` |
| `MembershipProofs` | `MembTypeOK`, `OwnerIsMember`, `MembershipBound`, `ManagersAreTheOwners` |
| `RunOutputProofs` | `OutTypeOK`, `LogIsComplete`, and that `RunOutput` implements `OutputFile` |
| `RunSearchProofs` | `SearchTypeOK`, `PageIsExact`, `NothingMissed`, `AggregateIsExact` |

The assumptions are those the modules declare: `RetryNumber` and `MaxConcurrency` are naturals (or `NaN`), special values are no
members of the sets they extend, a limit is a natural or none, clients are finitely many and `maxSessions` is at least 1, what
is asked for names users, groups and roles that can be named, and the number of crashes is a natural.

*Mutex.* Neither exclusion nor exactness of the set is inductive alone: the `finally` block removes a label,
which frees it only if nobody else holds it. The invariant is their conjunction with the type invariant.

*Queue.* The counter, the absence of repetition and "no work waits while there is room" are carried
together: the bound follows because a function is started only in an unsaturated state in which the counter is the
cardinality of the set; starting one function per event suffices because an event frees, or fills, at most one place.

*Registration.* The heart is `CountStaysFresh`: a flow between its count and its insert holds the mutex of
its task, so no other insert can happen there; a deletion can, but then the task is gone and the insert is refused,
and ids are never given again (`unused`). With the mutex invariant it gives the two steps of the limit: the count compared with
`times` is the number of rows, and the new rank is one more than it. Ranks of a task are 1..n and each once, which is the
injection that the cardinality argument needs. The invariant adds that run ids are at most `lastId`, so that the
inserted row is new.

*Lifecycle, the refinement.* No flow of the services touches the mutex, the tables or a registering function except by an action of
`RunRegistration`, so a step of the system is a step or a stutter of it. The one thing to carry along is `TickOK`: a tick that has left
cron and not yet entered the mutex works for a task of `Labels`.

*Lifecycle, the invariant.* `LifeInv` is what every other proof stands on: the invariant of registration (`RegInv`), the balance of
the queue (`Balanced`), and `Core`, whose parts are the type invariant and the following. `ProcInv` and `TickInv`: a flow is at a step of
its routine and a tick at one of its own, and what their later steps use is there. `IdsInv`: what is in memory of a run agrees with its row, and
ids are given once. `PlaceInv`: a run is in one place of the queue, one function that executes or the hands of one tick. `ExecInv`: a function
executes exactly if it has a frame. `ServerInv`: of a task that the start has still to schedule nothing is in memory. `FreshInv`: neither is
anything of a task that was not created yet. None of them is inductive
without the others: that no run is queued twice needs that a tick which has a row for its run is alone with it, which is `RegInv`;
that the start queues a run once needs `ServerInv`. On `LifeInv` stand, each carried by a strengthening of its own:

* `NoContainerLeak` is inductive with `LifeInv`, if `created` and `status` are not among the failures: the flow that started a container is the
  one that removes it.
* `ResultIsFinal` needs `ResultInv`: no run in the queue, in the hands of a tick, or with a function that will still write its status has its
  result yet.
* `StartedInRankOrder` needs `RankInv`: what is queued, executes or is held by a tick is ranked below what is registered
  after it, and a tick that holds a run holds the highest rank of its task.
* `ActiveHasEntry` needs `EntryInv`: an active task, or one that a client will activate next, has an entry, or a client or the start-up is
  about to make one. A client that fails between the removal of the entry and the new one breaks that, so it needs that docker ls and rmi do
  not fail, or that there are no updates and deletes.
* `EntryMatchesRow` needs `MatchInv`: what the one client relies on between its looks at the row and at the entry. With two clients, two updates
  overlap and the entry of one stays with the configuration of the other, or a start overlaps a delete and schedules a task that is gone.
* `PendingIsHeld` needs `PendInv`, and no `start` request: a tick past its look at `active` registers a run after a stop, its executor skips it, and
  a start makes the task active with that run still pending and held by nobody.
* `NoZombieRun` needs `OwnInv` (image, container and list of containers serve one task) and `RunningInv` (a run marked as running has an
  executor that will write its result), and neither updates nor crashes, nor failures of docker rmi and of the update of
  a status: an update, or a delete that then fails, removes the container of an executing run, a crash leaves its run `running`. Deletes that
  succeed are covered.
* `StartedEntryHasImage` needs `BuildInv` (runs and ticks of a task come after its build), and neither updates, deletes nor crashes: the build
  of an entry that an update removed starts the new one; a delete, or the close of a task whose last run a crash interrupted, removes
  the image between docker build and `scheduler.start`.

The hypotheses are needed: in each of these cases TLC reaches a state without the property when a hypothesis is dropped, and the
behaviour is the code's (section 3, and the hazards of `PROJECT.json`).

*Sessions.* The number of a user's sessions is not bounded by an induction on the table: a request that has counted holds a
place the table does not show. `PlacesBound` counts both, and no step raises it past the limit. `OneHeir` follows from where a
token may be remembered: its row, the requests that read it and the session it was exchanged for all have the same
user and address (`OneHolder`), and a user has one row at an address.

*Membership.* Rows of a member are counted with the requests about to insert one. The owner is safe because
ids are not given twice and an owner never changes, so what a handler knows of the owner stays true of the group
however late it acts (`Known`).

*Output.* What makes the file an `OutputFile` is `Steady`: an output has no file, and nothing consumed, until its one
consumer opens it, and half a line is one yet to be counted. The order of a log is `Reading`: what the consumer has of a log is exactly what was
taken out of the two pipes, first the places of stdout, then those of stderr, so that the number of lines tells the place of the
next one. `LogIsComplete` says where in the log an entry of either stream is to be found (`PlacesOf`, `PlaceInLog`), by cardinalities, so that no
recursion over the sequence is needed.

*Searches.* The counter of the paginator is the number of matches in what was read, each entry of the page is preceded
by `from` and its place more (`PageInv`), and the file is never changed where it was read (`FileGrows`). A search that is not stopped by a
full page has read at least what was there when it opened the file (`EndInv`).

An aggregate is what was read of the file put through the accumulator (`AggregateInv`). The folds of the model are shown to be sums
that take any order and grow by a summand (`FoldsAny`, `TotalAdds`); these lemmas need no induction theorem, they take the least number of elements for
which they fail. `std` keeps values and not places, so it is compared by number, sum and sum of squares, from which
the sum of squared deviations is multiplied out (`TotalDeviations`).

Only model-checked: liveness, as fairness and ENABLED are beyond the prover (`LimitedTaskCloses`, `EveryWaitEnds`, `EveryQueuedStarts`,
`FittingLogCloses`). Every other property of a passing run is proved. `LockedIffHeld`, `ThrowsAfterAllRetries`, `NothingTwice` and
`RunningCountsExecuting` are proved and in no run: their consequences are.

## 5. Limits of the model

* One process, one database. Queries are atomic and, except for refused inserts and deletes, do not fail in `Sessions` and
  `Membership`. In `TaskLifecycle` those of registration and the status updates of a run may fail, the other queries do not; docker commands
  fail as `Failures` says.
* A docker build that is under way at a crash may end after it (an orphan) or die with the process; containers live on.
* A container that an earlier life of the server left behind is in `box` under that life: listing, stopping and
  `rmi` see it, the new process does not know its run. A run that was `running` stays so after a crash.
* Cron expressions and time are left out: a started entry may fire at any time, a session may expire at any time.
* Contents of logs, metrics, scripts and configurations are left out; a configuration is a name, an entry its stream or its match and value.
* `RunOutput` takes from docker that a `docker logs` which has begun delivers everything printed, even if the container is
  removed meanwhile. An entry is one unit on its way: that chunks of the pipe may split a line, which `consumeLogStream` then parses as two
  rows, is left out; so is a file that ends just before a line break, whose last line a search takes for whole.
* `RunOutput` has the runs of one task and one delete; what the runs do otherwise is `TaskLifecycle`'s.
* Read-only routes and the validation of requests are left out.
* `EntryMatchesRow` is checked with one updating client; with two it fails, as `PROJECT.json` lists under hazards.

## 6. Not modelled

* *Shell commands of tasks* (`task.utils.ts`, `command-builder.ts`): string building; how steps are joined says nothing
  until the shell that reads them is modelled.
* *Contract loader and validator, root configuration*: run once, one after the other, before anything else; a failure ends the start. No state
  that changes later.
* *Errors and replies, JSON schemas and model types*: tables and declarations; what they let through bounds the requests of the models.
* *String, time, date, case, shell and random helpers*: stateless conversions.
* *Docker environment, the rest*: sampling of `docker stats` and of the process tree, inspection, and the parsing of their text.
* *Tokens and passwords, the rest*: what the libraries compute.
* *Routes of tasks and their views*: their hooks are in `Membership`, their handlers in `TaskLifecycle`; listing
  tasks and runs changes nothing.
