---------------------------- MODULE InMemoryMutex ----------------------------
(***************************************************************************)
(* InMemoryMutex of src/lib/async.utils.ts: a per-label lock kept in a Set *)
(* of one Node.js process.  A caller that finds its label locked sleeps    *)
(* for retryTimeout and tries again, at most retryNumber times; then       *)
(* run() rejects.                                                          *)
(*                                                                         *)
(* Between two awaits JavaScript runs without interruption, so the test    *)
(* of lockedResources and the add that follows it are one step; the sleep  *)
(* and the callback fn are where other callers run.                        *)
(***************************************************************************)
EXTENDS Integers

CONSTANTS Callers,      \* the asynchronous flows that call run(label, fn)
          Labels,       \* the resources they lock
          NoLabel,      \* label of a flow that is in no call
          RetryNumber   \* constructor argument retryNumber

ASSUME RetryNumberAssumption == RetryNumber \in Nat
ASSUME NoLabelAssumption == NoLabel \notin Labels

VARIABLES lockedResources,   \* the Set of the same name
          call               \* per caller: the frame of its run() call

mutexVars == <<lockedResources, call>>

\* The frame of run(): where it stands, its label and its retryIdx.
NoCall == [phase |-> "idle", label |-> NoLabel, retryIdx |-> 0]
Thrown == [phase |-> "thrown", label |-> NoLabel, retryIdx |-> 0]
Frame ==
  {NoCall, Thrown} \cup
  [phase : {"waiting", "inside"}, label : Labels, retryIdx : 0 .. RetryNumber - 1]

Inside(p)  == call[p].phase = "inside"
Waiting(p) == call[p].phase = "waiting"

Init ==
  /\ lockedResources = {}
  /\ call = [p \in Callers |-> NoCall]

-----------------------------------------------------------------------------
\* Mutant of RunImpl: sleeps and comes back without testing the lock again.
RunImplIgnoringLock(p, l, i) ==
  /\ i < RetryNumber
  /\ lockedResources' = lockedResources \cup {l}
  /\ call' = [call EXCEPT ![p] = [phase |-> "inside", label |-> l, retryIdx |-> i]]

\* runImpl(resource, fn, retryIdx) up to its next await.
RunImpl(p, l, i) ==
  \/ /\ i >= RetryNumber
     /\ call' = [call EXCEPT ![p] = Thrown]
     /\ UNCHANGED lockedResources
  \/ /\ i < RetryNumber /\ l \in lockedResources
     /\ call' = [call EXCEPT ![p] = [phase |-> "waiting", label |-> l, retryIdx |-> i]]
     /\ UNCHANGED lockedResources
  \/ /\ i < RetryNumber /\ l \notin lockedResources
     /\ lockedResources' = lockedResources \cup {l}
     /\ call' = [call EXCEPT ![p] = [phase |-> "inside", label |-> l, retryIdx |-> i]]

\* run(label, fn): the first attempt.
Run(p, l) ==
  /\ call[p].phase \in {"idle", "thrown"}
  /\ RunImpl(p, l, 0)

\* Mutant of Wake: the recursive call forgets to count the retry.
WakeUncounted(p) == Waiting(p) /\ RunImpl(p, call[p].label, call[p].retryIdx)

\* The retry timer fires: the recursive call with retryIdx + 1.
Wake(p) == Waiting(p) /\ RunImpl(p, call[p].label, call[p].retryIdx + 1)

\* fn settled, either way: the finally block of the frame that locked.
Leave(p) ==
  /\ Inside(p)
  /\ lockedResources' = lockedResources \ {call[p].label}
  /\ call' = [call EXCEPT ![p] = NoCall]

Next ==
  \E p \in Callers :
    \/ \E l \in Labels : Run(p, l)
    \/ Wake(p)
    \/ Leave(p)

\* A timer that was set fires; nothing is assumed about fn or new callers.
TimersFire == \A p \in Callers : WF_mutexVars(Wake(p))

Spec == Init /\ [][Next]_mutexVars

-----------------------------------------------------------------------------
\* Type invariant of the lock set and of the frames of run().
TypeOK ==
  /\ lockedResources \subseteq Labels
  /\ call \in [Callers -> Frame]

\* At most one flow executes fn under a label, although flows come and go at
\* every await (runImpl, lines 44-53).
MutualExclusion ==
  \A p, q \in Callers :
    Inside(p) /\ Inside(q) /\ call[p].label = call[q].label => p = q

\* A label is in the Set exactly while somebody executes under it: no flow
\* ever unlocks for another one, and no exit path leaves the label behind.
LockedIffHeld ==
  lockedResources = {call[p].label : p \in {q \in Callers : Inside(q)}}

\* run() rejects only after it has slept RetryNumber times (lines 39-46).
ThrowsAfterAllRetries ==
  [][\A p \in Callers :
       call[p].phase # "thrown" /\ call'[p].phase = "thrown" /\ RetryNumber > 0
         => Waiting(p) /\ call[p].retryIdx = RetryNumber - 1]_mutexVars

\* Nobody polls forever, not even while the label stays locked.
EveryWaitEnds == \A p \in Callers : Waiting(p) ~> ~Waiting(p)
=============================================================================
