----------------------------- MODULE FifoExecutor -----------------------------
(***************************************************************************)
(* What a task queue promises the services that enqueue into it: jobs are  *)
(* started in the order of submission, never more than Capacity at once,   *)
(* and a job waits only while Capacity others execute.  Nothing is said of *)
(* counters, or of how and when the executor looks for its next job.       *)
(***************************************************************************)
EXTENDS Naturals, Sequences, FiniteSets

CONSTANTS Jobs,       \* what can be submitted
          Capacity,   \* how many jobs may execute at once
          NaN         \* Capacity of an executor that has no limit

VARIABLES waiting, active

fifoVars == <<waiting, active>>

\* The k jobs that waited longest leave the line w and join the active ones;
\* k is as large as Capacity allows.
Fill(w, a) ==
  \E k \in 0 .. Len(w) :
    /\ waiting' = SubSeq(w, k + 1, Len(w))
    /\ active' = a \cup {w[i] : i \in 1 .. k}
    /\ Capacity # NaN => Cardinality(active') <= Capacity
    /\ waiting' = <<>> \/ (Capacity # NaN /\ Cardinality(active') = Capacity)

Init == waiting = <<>> /\ active = {}

Submit(f) == Fill(Append(waiting, f), active)

Complete(f) == f \in active /\ Fill(waiting, active \ {f})

Next == \E f \in Jobs : Submit(f) \/ Complete(f)

Spec == Init /\ [][Next]_fifoVars
=============================================================================
