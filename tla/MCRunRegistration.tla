-------------------------- MODULE MCRunRegistration --------------------------
(* Three ticks, a task with two runs to spend and one without a limit. *)
EXTENDS RunRegistration, TLC

CONSTANTS p1, p2, p3, limited, unlimited

MCCallers == {p1, p2, p3}
MCLabels == {limited, unlimited}
MCTimes == [t \in MCLabels |-> IF t = limited THEN 2 ELSE NoLimit]
=============================================================================
