------------------------------ MODULE RunBudget ------------------------------
(***************************************************************************)
(* What the limit `times` of a task promises: the runs of a limited task   *)
(* get the ranks 1, 2, 3, ... one after the other, never more than         *)
(* Budget[t] of them, and none any more once the task is gone.             *)
(***************************************************************************)
EXTENDS Naturals

CONSTANTS LimitedTasks,
          Budget         \* per limited task: its `times`

VARIABLES issued,   \* per limited task: the ranks its runs have
          phase     \* per limited task: not created yet, open, or closed

budgetVars == <<issued, phase>>

Init ==
  /\ issued = [t \in LimitedTasks |-> {}]
  /\ phase = [t \in LimitedTasks |-> "new"]

Open(t) ==
  /\ phase[t] = "new"
  /\ phase' = [phase EXCEPT ![t] = "open"]
  /\ UNCHANGED issued

Issue(t) ==
  /\ phase[t] = "open"
  /\ \E n \in 1 .. Budget[t] :
       /\ issued[t] = 1 .. n - 1
       /\ issued' = [issued EXCEPT ![t] = 1 .. n]
  /\ UNCHANGED phase

Close(t) ==
  /\ phase[t] = "open"
  /\ phase' = [phase EXCEPT ![t] = "closed"]
  /\ issued' = [issued EXCEPT ![t] = {}]

Next == \E t \in LimitedTasks : Open(t) \/ Issue(t) \/ Close(t)

Spec == Init /\ [][Next]_budgetVars
=============================================================================
