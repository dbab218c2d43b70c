-------------------------- MODULE CronTaskScheduler --------------------------
(***************************************************************************)
(* The cron scheduler of src/workdir/contract/scheduler: the record        *)
(* `tasks` from task ids to node-cron's scheduled tasks.  None of its      *)
(* functions awaits anything, so each is an operator from a value of the   *)
(* record to the next one; their callers make it part of their own steps.  *)
(***************************************************************************)
CONSTANTS NoEntry   \* the value of tasks[t] when there is no entry

\* An entry: whether node-cron fires it, and the configuration of the task
\* it was scheduled with.
Entry(isOn, config) == [on |-> isOn, config |-> config]

\* exists(t)
Exists(sched, t) == sched[t] # NoEntry

\* schedule(t, dto): the entry is created with { scheduled: false }.
Schedule(sched, t, config) == [sched EXCEPT ![t] = Entry(FALSE, config)]

\* start(t) and stop(t) do nothing when there is no entry.
Start(sched, t) ==
  IF Exists(sched, t) THEN [sched EXCEPT ![t].on = TRUE] ELSE sched
Stop(sched, t) ==
  IF Exists(sched, t) THEN [sched EXCEPT ![t].on = FALSE] ELSE sched

\* delete(t)
Delete(sched, t) == [sched EXCEPT ![t] = NoEntry]
=============================================================================
