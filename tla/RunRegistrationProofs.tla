------------------------ MODULE RunRegistrationProofs ------------------------
(***************************************************************************)
(* The mutex excludes, for every set of callers and labels and every       *)
(* number of retries, and registration under it keeps the limit and the    *)
(* ranks of every task, for every set of ticks, tasks and limits.          *)
(*                                                                         *)
(* Of the mutex: LockedIffHeld alone is not inductive with MutualExclusion *)
(* left out, as the label a leaving flow deletes could still be held by a  *)
(* second one.  The two are proved together (MutexInv).                    *)
(*                                                                         *)
(* Of registration: none of the properties is inductive alone.  The chain  *)
(* is: the mutex excludes, and a flow with work in the function is inside  *)
(* the mutex (BodyInside), so nobody inserts between a flow's count and    *)
(* its insert and the count stays fresh; the count was below the limit     *)
(* when the insert was allowed (GrantBelowLimit); and the existing ranks   *)
(* are 1..n, so n + 1 extends them.                                        *)
(***************************************************************************)
EXTENDS RunRegistration, FiniteSetTheorems, TLAPS

-----------------------------------------------------------------------------
(* The mutex.                                                              *)

MutexInv == TypeOK /\ MutualExclusion /\ LockedIffHeld

\* What runImpl(p, l, i) does to the invariant, whoever calls it (run() with
\* i = 0 or the timer with retryIdx + 1): the caller is not inside yet.
LEMMA RunImplKeepsInv ==
  ASSUME MutexInv,
         NEW p \in Callers, NEW l \in Labels, NEW i \in Nat,
         ~Inside(p), RunImpl(p, l, i)
  PROVE  MutexInv'
<1>1. CASE UNCHANGED lockedResources /\ ~Inside(p)'
  <2>1. TypeOK'
    BY <1>1, RetryNumberAssumption DEF MutexInv, TypeOK, RunImpl, Frame, Inside
  <2>2. \A q \in Callers : Inside(q)' <=> Inside(q)
    BY <1>1 DEF MutexInv, TypeOK, RunImpl, Inside
  <2>3. \A q \in Callers : Inside(q) => call'[q] = call[q]
    BY DEF MutexInv, TypeOK, RunImpl, Inside
  <2>4. MutualExclusion'
    BY <2>2, <2>3 DEF MutexInv, MutualExclusion
  <2>5. LockedIffHeld'
    BY <1>1, <2>2, <2>3 DEF MutexInv, LockedIffHeld
  <2> QED BY <2>1, <2>4, <2>5 DEF MutexInv
<1>2. CASE /\ i < RetryNumber /\ l \notin lockedResources
           /\ lockedResources' = lockedResources \cup {l}
           /\ call' = [call EXCEPT ![p] =
                         [phase |-> "inside", label |-> l, retryIdx |-> i]]
  <2>1. TypeOK'
    <3>1. [phase |-> "inside", label |-> l, retryIdx |-> i] \in Frame
      BY <1>2, RetryNumberAssumption DEF Frame
    <3> QED BY <1>2, <3>1 DEF MutexInv, TypeOK
  <2>2. \A q \in Callers : Inside(q)' <=> q = p \/ Inside(q)
    BY <1>2 DEF MutexInv, TypeOK, Inside
  <2>3. \A q \in Callers : Inside(q) => call[q].label # l
    BY <1>2 DEF MutexInv, LockedIffHeld
  <2>4. MutualExclusion'
    BY <1>2, <2>2, <2>3 DEF MutexInv, TypeOK, MutualExclusion, Inside
  <2>5. LockedIffHeld'
    BY <1>2, <2>2 DEF MutexInv, TypeOK, LockedIffHeld, Inside
  <2> QED BY <2>1, <2>4, <2>5 DEF MutexInv
<1> QED BY <1>1, <1>2 DEF RunImpl, MutexInv, TypeOK, Inside, Thrown

\* Leaving deletes exactly the label that p, and nobody else, executes under.
LEMMA LeaveKeepsInv ==
  ASSUME MutexInv, NEW p \in Callers, Leave(p)
  PROVE  MutexInv'
<1>1. TypeOK'
  BY DEF MutexInv, TypeOK, Leave, Frame, NoCall
<1>2. \A q \in Callers : Inside(q)' <=> q # p /\ Inside(q)
  BY DEF MutexInv, TypeOK, Leave, Inside, NoCall
<1>3. \A q \in Callers : Inside(q) /\ q # p => call[q].label # call[p].label
  BY DEF MutexInv, MutualExclusion, Leave
<1>4. MutualExclusion'
  BY <1>2 DEF MutexInv, TypeOK, MutualExclusion, Leave, Inside, NoCall
<1>5. LockedIffHeld'
  BY <1>2, <1>3 DEF MutexInv, TypeOK, LockedIffHeld, Leave, Inside, NoCall
<1> QED BY <1>1, <1>4, <1>5 DEF MutexInv

LEMMA MutexInit == Init => MutexInv
BY NoLabelAssumption
   DEF Init, MutexInv, TypeOK, MutualExclusion, LockedIffHeld, Inside, Frame, NoCall

LEMMA MutexStep == MutexInv /\ [Next]_mutexVars => MutexInv'
<1> SUFFICES ASSUME MutexInv, [Next]_mutexVars
             PROVE  MutexInv'
  OBVIOUS
<1>1. ASSUME NEW p \in Callers, NEW l \in Labels, Run(p, l)
      PROVE  MutexInv'
  <2>1. ~Inside(p) /\ RunImpl(p, l, 0)
    BY <1>1 DEF Run, Inside
  <2> QED BY <2>1, RunImplKeepsInv
<1>2. ASSUME NEW p \in Callers, Wake(p)
      PROVE  MutexInv'
  <2>1. /\ ~Inside(p)
        /\ call[p].label \in Labels
        /\ call[p].retryIdx + 1 \in Nat
        /\ RunImpl(p, call[p].label, call[p].retryIdx + 1)
    BY <1>2, RetryNumberAssumption
       DEF Wake, Waiting, Inside, MutexInv, TypeOK, Frame, NoCall, Thrown
  <2> QED BY <2>1, RunImplKeepsInv
<1>3. ASSUME NEW p \in Callers, Leave(p)
      PROVE  MutexInv'
  BY <1>3, LeaveKeepsInv
<1>4. CASE UNCHANGED mutexVars
  BY <1>4 DEF MutexInv, TypeOK, MutualExclusion, LockedIffHeld, Inside, mutexVars
<1> QED BY <1>1, <1>2, <1>3, <1>4 DEF Next

\* In every reachable state no two flows execute fn under one label.
THEOREM MutexExcludes == Spec => []MutualExclusion
<1>1. MutexInv => MutualExclusion
  BY DEF MutexInv
<1> QED BY <1>1, MutexInit, MutexStep, PTL DEF Spec

\* In every reachable state the Set holds exactly the labels under which a
\* flow executes fn: nothing is left locked and nothing unlocked for others.
THEOREM MutexSetIsExact == Spec => []LockedIffHeld
<1>1. MutexInv => LockedIffHeld
  BY DEF MutexInv
<1> QED BY <1>1, MutexInit, MutexStep, PTL DEF Spec

\* run() rejects only a flow that has slept RetryNumber times: a flow is let
\* in or made to wait while i < RetryNumber, and i grows by one per sleep.
THEOREM ThrowsLate == Spec => ThrowsAfterAllRetries
<1>1. MutexInv /\ [Next]_mutexVars
      => [\A p \in Callers :
            call[p].phase # "thrown" /\ call'[p].phase = "thrown" /\ RetryNumber > 0
              => Waiting(p) /\ call[p].retryIdx = RetryNumber - 1]_mutexVars
  <2> SUFFICES ASSUME MutexInv, Next, NEW p \in Callers, RetryNumber > 0,
                      call[p].phase # "thrown", call'[p].phase = "thrown"
               PROVE  Waiting(p) /\ call[p].retryIdx = RetryNumber - 1
    OBVIOUS
  <2>1. ASSUME NEW q \in Callers, NEW l \in Labels, Run(q, l)
        PROVE  FALSE
    BY <2>1, RetryNumberAssumption DEF Run, RunImpl, MutexInv, TypeOK
  <2>2. ASSUME NEW q \in Callers, Wake(q)
        PROVE  Waiting(p) /\ call[p].retryIdx = RetryNumber - 1
    BY <2>2, RetryNumberAssumption
       DEF Wake, Waiting, RunImpl, MutexInv, TypeOK, Frame, NoCall, Thrown
  <2>3. ASSUME NEW q \in Callers, Leave(q)
        PROVE  FALSE
    BY <2>3 DEF Leave, MutexInv, TypeOK, NoCall
  <2> QED BY <2>1, <2>2, <2>3 DEF Next
<1> QED BY <1>1, MutexInit, MutexStep, PTL DEF Spec, ThrowsAfterAllRetries

-----------------------------------------------------------------------------
(* Registration.                                                           *)

BodyInside == \A p \in Callers : body[p].stage # "none" <=> Inside(p)

GrantBelowLimit ==
  \A p \in Callers :
    body[p].stage = "create" /\ call[p].label \in Limited
      => body[p].runsCount \in Nat /\ body[p].runsCount < Times[call[p].label]

\* No flow is at a task that was not created yet, so that a count cannot be
\* older than its task.
CallsKnown ==
  /\ tasks \cap unused = {}
  /\ \A p \in Callers : call[p].label \notin unused

RegInv ==
  /\ MutexInv
  /\ CallsKnown
  /\ RegTypeOK
  /\ IsFiniteSet(runs)
  /\ BodyInside
  /\ GrantBelowLimit
  /\ CountStaysFresh
  /\ RunLimit
  /\ RanksConsecutive

\* A flow inside the mutex has a task's label.
LEMMA InsideLabel ==
  ASSUME MutexInv, NEW p \in Callers, Inside(p)
  PROVE  call[p].label \in Labels
BY DEF MutexInv, TypeOK, Frame, NoCall, Thrown, Inside

LEMMA RunsOfFinite ==
  ASSUME IsFiniteSet(runs), NEW t
  PROVE  IsFiniteSet(RunsOf(t)) /\ Cardinality(RunsOf(t)) \in Nat
BY FS_Subset, FS_CardinalityType DEF RunsOf

LEMMA RegInvInit == RegInit => RegInv
<1> SUFFICES ASSUME RegInit
             PROVE  RegInv
  OBVIOUS
<1>1. MutexInv
  BY MutexInit DEF RegInit
<1>2. RegTypeOK /\ CallsKnown
  BY <1>1, NoLabelAssumption
     DEF RegInit, Init, RegTypeOK, CallsKnown, MutexInv, Body, NoBody, NoCall
<1>3. \A t : RunsOf(t) = {}
  BY DEF RegInit, RunsOf
<1>4. IsFiniteSet(runs) /\ IsFiniteSet({}) /\ Cardinality({}) = 0
  BY FS_EmptySet DEF RegInit
<1>5. BodyInside /\ GrantBelowLimit /\ CountStaysFresh
  BY DEF RegInit, Init, BodyInside, GrantBelowLimit, CountStaysFresh,
         NoBody, NoCall, Inside
<1>6. RunLimit
  BY <1>3, <1>4, TimesAssumption DEF RunLimit, Limited
<1>7. RanksConsecutive
  BY <1>3, <1>4 DEF RanksConsecutive
<1> QED BY <1>1, <1>2, <1>4, <1>5, <1>6, <1>7 DEF RegInv

-----------------------------------------------------------------------------
\* The first attempt and every retry: a flow enters the function, or not.
LEMMA EnterKeepsInv ==
  ASSUME RegInv, NEW p \in Callers,
         MutexInv', ~Inside(p),
         \A q \in Callers \ {p} : call'[q] = call[q],
         call'[p].label \notin unused,
         EnterIfLocked(p), UNCHANGED tableVars
  PROVE  RegInv'
<1>0. UNCHANGED <<tasks, unused, runs, lastId>>
  BY DEF tableVars
<1>1. call'[p].phase = "inside" => call'[p].label \in Labels
  BY DEF MutexInv, TypeOK, Frame, NoCall, Thrown
<1>2. \A t \in Labels : BodyOf(t) \in Body /\ BodyOf(t).stage # "none"
  BY DEF BodyOf, Body
<1>3. /\ \A q \in Callers \ {p} : body'[q] = body[q]
      /\ body'[p] = IF call'[p].phase = "inside" THEN BodyOf(call'[p].label) ELSE NoBody
      /\ body' \in [Callers -> Body]
  BY <1>1, <1>2 DEF EnterIfLocked, RegInv, RegTypeOK, NoBody, Body
<1>4. RegTypeOK' /\ CallsKnown'
  BY <1>0, <1>3 DEF RegInv, RegTypeOK, CallsKnown, MutexInv
<1>5. BodyInside'
  <2> SUFFICES ASSUME NEW q \in Callers
               PROVE  body'[q].stage # "none" <=> Inside(q)'
    BY DEF BodyInside
  <2>1. CASE q = p
    BY <1>1, <1>2, <1>3, <2>1 DEF Inside, NoBody
  <2>2. CASE q # p
    BY <1>3, <2>2 DEF RegInv, BodyInside, Inside
  <2> QED BY <2>1, <2>2
<1>6. body'[p].stage = "create" => call'[p].label \notin Limited
  BY <1>1, <1>3 DEF BodyOf, NoBody, Limited
<1>7. GrantBelowLimit'
  BY <1>0, <1>3, <1>6 DEF RegInv, GrantBelowLimit, Limited
<1>8. CountStaysFresh'
  BY <1>0, <1>3, <1>6 DEF RegInv, CountStaysFresh, Limited, RunsOf
<1>9. RunLimit' /\ RanksConsecutive'
  BY <1>0 DEF RegInv, RunLimit, RanksConsecutive, Limited, RunsOf
<1> QED BY <1>0, <1>4, <1>5, <1>7, <1>8, <1>9 DEF RegInv

\* Steps inside the function that leave the tables and the mutex alone.
LEMMA BodyStepKeepsInv ==
  ASSUME RegInv, NEW p \in Callers, NEW b \in Body,
         body[p].stage # "none", b.stage # "none",
         b.stage = "create" /\ call[p].label \in Limited
           => /\ b.runsCount = Cardinality(RunsOf(call[p].label))
              /\ b.runsCount < Times[call[p].label],
         body' = [body EXCEPT ![p] = b],
         UNCHANGED <<mutexVars, tableVars>>
  PROVE  RegInv'
<1>0. UNCHANGED <<lockedResources, call, tasks, unused, runs, lastId>>
  BY DEF mutexVars, tableVars
<1>1. MutexInv'
  BY <1>0 DEF RegInv, MutexInv, TypeOK, MutualExclusion, LockedIffHeld, Inside
<1>2. RegTypeOK' /\ CallsKnown'
  BY <1>0, <1>1 DEF RegInv, RegTypeOK, CallsKnown, MutexInv
<1>3. /\ body'[p] = b
      /\ \A q \in Callers \ {p} : body'[q] = body[q]
      /\ \A q \in Callers : Inside(q)' <=> Inside(q)
  BY <1>0 DEF RegInv, RegTypeOK, Inside
<1>4. BodyInside'
  BY <1>3 DEF RegInv, BodyInside
<1>5. b.stage = "create" /\ call[p].label \in Limited => b.runsCount \in Nat
  BY RunsOfFinite DEF RegInv
<1>6. GrantBelowLimit'
  BY <1>0, <1>3, <1>5 DEF RegInv, GrantBelowLimit, Limited
<1>7. CountStaysFresh'
  <2>1. /\ \A t : RunsOf(t)' = RunsOf(t)
        /\ tasks' = tasks /\ call' = call
    BY <1>0 DEF RunsOf
  <2> SUFFICES ASSUME NEW q \in Callers, body'[q].stage = "create",
                      call[q].label \in tasks \cap Limited
               PROVE  body'[q].runsCount = Cardinality(RunsOf(call[q].label))
    BY <2>1 DEF CountStaysFresh, Limited
  <2>2. CASE q = p
    BY <1>3, <2>2
  <2>3. CASE q # p
    BY <1>3, <2>3 DEF RegInv, CountStaysFresh
  <2> QED BY <2>2, <2>3
<1>8. RunLimit' /\ RanksConsecutive'
  BY <1>0 DEF RegInv, RunLimit, RanksConsecutive, Limited, RunsOf
<1> QED BY <1>0, <1>1, <1>2, <1>4, <1>6, <1>7, <1>8 DEF RegInv

LEMMA CountRunsKeepsInv ==
  ASSUME RegInv, NEW p \in Callers, CountRuns(p)
  PROVE  RegInv'
<1> DEFINE t == call[p].label
           n == Cardinality(RunsOf(t))
           b == [stage |-> IF n < Times[t] THEN "create" ELSE "denied",
                 runsCount |-> n]
<1>1. n \in Nat
  BY RunsOfFinite DEF RegInv
<1>2. b \in Body /\ b.stage # "none"
  BY <1>1 DEF Body
<1>3. /\ body[p].stage # "none"
      /\ body' = [body EXCEPT ![p] = b]
      /\ UNCHANGED <<mutexVars, tableVars>>
  BY DEF CountRuns
<1>4. b.stage = "create" => b.runsCount = n /\ b.runsCount < Times[t]
  OBVIOUS
<1> HIDE DEF b
<1> QED BY <1>2, <1>3, <1>4, BodyStepKeepsInv

LEMMA QueryRejectsKeepsInv ==
  ASSUME RegInv, NEW p \in Callers, QueryRejects(p)
  PROVE  RegInv'
<1> DEFINE b == [body[p] EXCEPT !.stage = "rejected"]
<1>1. b \in Body /\ b.stage = "rejected"
  BY DEF RegInv, RegTypeOK, Body
<1>2. /\ body[p].stage # "none"
      /\ body' = [body EXCEPT ![p] = b]
      /\ UNCHANGED <<mutexVars, tableVars>>
  BY DEF QueryRejects
<1> HIDE DEF b
<1> QED BY <1>1, <1>2, BodyStepKeepsInv

LEMMA ReturnKeepsInv ==
  ASSUME RegInv, NEW p \in Callers, Return(p)
  PROVE  RegInv'
<1>0. UNCHANGED <<tasks, unused, runs, lastId>>
  BY DEF Return, tableVars
<1>1. MutexInv'
  BY LeaveKeepsInv DEF RegInv, Return
<1>2. /\ body' \in [Callers -> Body]
      /\ body'[p] = NoBody
      /\ call'[p] = NoCall
      /\ \A q \in Callers \ {p} : body'[q] = body[q] /\ call'[q] = call[q]
  BY DEF RegInv, RegTypeOK, MutexInv, TypeOK, Return, Leave, NoBody, Body
<1>3. RegTypeOK' /\ CallsKnown'
  <2>1. call'[p].label \notin unused
    BY <1>2, NoLabelAssumption DEF RegInv, RegTypeOK, NoCall
  <2> QED BY <1>0, <1>1, <1>2, <2>1 DEF RegInv, RegTypeOK, CallsKnown, MutexInv
<1>4. BodyInside'
  BY <1>2 DEF RegInv, BodyInside, Inside, NoBody, NoCall
<1>5. GrantBelowLimit'
  BY <1>2 DEF RegInv, GrantBelowLimit, NoBody, Limited
<1>6. CountStaysFresh'
  BY <1>0, <1>2 DEF RegInv, CountStaysFresh, NoBody, Limited, RunsOf
<1>7. RunLimit' /\ RanksConsecutive'
  BY <1>0 DEF RegInv, RunLimit, RanksConsecutive, Limited, RunsOf
<1>8. IsFiniteSet(runs)'
  BY <1>0 DEF RegInv
<1> QED BY <1>1, <1>3, <1>4, <1>5, <1>6, <1>7, <1>8 DEF RegInv

-----------------------------------------------------------------------------
\* What the insert does to the tables: one run of p's task more, of a new id.
LEMMA InsertedRun ==
  ASSUME RegInv, NEW p \in Callers, CreateRun(p), NEW t, call[p].label = t
  PROVE  LET r == [id |-> lastId + 1, taskId |-> t, rank |-> Rank(body[p].runsCount)]
         IN  /\ t \in Labels
             /\ r \notin runs
             /\ runs' = runs \cup {r}
             /\ RunsOf(t)' = RunsOf(t) \cup {r}
             /\ Cardinality(RunsOf(t)') = Cardinality(RunsOf(t)) + 1
             /\ \A u : u # t => RunsOf(u)' = RunsOf(u)
<1> DEFINE r == [id |-> lastId + 1, taskId |-> t, rank |-> Rank(body[p].runsCount)]
<1>1. r \notin runs
  BY DEF RegInv, RegTypeOK
<1>2. runs' = runs \cup {r}
  BY DEF CreateRun
<1>3. r.taskId = t
  OBVIOUS
<1> HIDE DEF r
<1>4. RunsOf(t)' = RunsOf(t) \cup {r}
  BY <1>2, <1>3 DEF RunsOf
<1>5. \A u : u # t => RunsOf(u)' = RunsOf(u)
  BY <1>2, <1>3 DEF RunsOf
<1>6. r \notin RunsOf(t) /\ IsFiniteSet(RunsOf(t))
  BY <1>1, RunsOfFinite DEF RunsOf, RegInv
<1>7. Cardinality(RunsOf(t)') = Cardinality(RunsOf(t)) + 1
  BY <1>4, <1>6, FS_AddElement
<1>8. t \in Labels
  BY DEF RegInv, RegTypeOK, CreateRun
<1> QED BY <1>1, <1>2, <1>4, <1>5, <1>7, <1>8 DEF r

\* If the task is limited, the rank inserted is its number of runs plus one.
LEMMA InsertedRank ==
  ASSUME RegInv, NEW p \in Callers, CreateRun(p),
         NEW t \in Limited, call[p].label = t
  PROVE  LET n == Cardinality(RunsOf(t))
         IN  n \in Nat /\ Rank(body[p].runsCount) = n + 1 /\ n < Times[t]
<1> DEFINE n == Cardinality(RunsOf(t))
<1>1. body[p].runsCount = n /\ n \in Nat /\ n < Times[t]
  BY RunsOfFinite DEF RegInv, CountStaysFresh, GrantBelowLimit, CreateRun
<1> QED BY <1>1, TimesAssumption DEF Rank

LEMMA CreateRunKeepsInv ==
  ASSUME RegInv, NEW p \in Callers, CreateRun(p)
  PROVE  RegInv'
<1> PICK t : call[p].label = t
  OBVIOUS
<1> DEFINE n == Cardinality(RunsOf(t))
           r == [id |-> lastId + 1, taskId |-> t, rank |-> Rank(body[p].runsCount)]
<1>1. /\ t \in Labels /\ t \in tasks
      /\ r \notin runs
      /\ runs' = runs \cup {r}
      /\ RunsOf(t)' = RunsOf(t) \cup {r}
      /\ Cardinality(RunsOf(t)') = n + 1
      /\ \A u : u # t => RunsOf(u)' = RunsOf(u)
  BY InsertedRun DEF CreateRun
<1>2. t \in Limited => n \in Nat /\ r.rank = n + 1 /\ n < Times[t]
  BY InsertedRank
<1>3. /\ r.rank \in Nat \cup {Infinity}
      /\ r.taskId = t
      /\ r.id = lastId + 1
      /\ r \in [id : {lastId + 1}, taskId : {t}, rank : Nat \cup {Infinity}]
  BY DEF RegInv, RegTypeOK, Body, Rank
<1>4. /\ body'[p].stage = "created"
      /\ \A q \in Callers \ {p} : body'[q] = body[q]
      /\ body' \in [Callers -> Body]
      /\ UNCHANGED <<lockedResources, call, tasks, unused>>
  BY DEF RegInv, RegTypeOK, Body, CreateRun, mutexVars
<1> HIDE DEF r
<1>5. MutexInv'
  BY <1>4 DEF RegInv, MutexInv, TypeOK, MutualExclusion, LockedIffHeld, Inside
<1>6. RegTypeOK' /\ CallsKnown'
  <2>1. lastId' = lastId + 1 /\ lastId \in Nat
    BY DEF CreateRun, RegInv, RegTypeOK
  <2>2. runs' \subseteq [id : 1 .. lastId', taskId : tasks, rank : Nat \cup {Infinity}]
    BY <1>1, <1>3, <2>1 DEF RegInv, RegTypeOK
  <2> QED BY <1>4, <1>5, <2>1, <2>2 DEF RegInv, RegTypeOK, CallsKnown, MutexInv
<1>7. IsFiniteSet(runs)'
  BY <1>1, FS_AddElement DEF RegInv
<1>8. BodyInside'
  BY <1>4 DEF RegInv, BodyInside, Inside, CreateRun
<1>9. GrantBelowLimit'
  BY <1>4 DEF RegInv, GrantBelowLimit, Limited
<1>10. CountStaysFresh'
  <2> SUFFICES ASSUME NEW q \in Callers, body'[q].stage = "create",
                      call[q].label \in tasks \cap Limited
               PROVE  body'[q].runsCount = Cardinality(RunsOf(call[q].label)')
    BY <1>4 DEF CountStaysFresh, Limited
  <2> PICK u : call[q].label = u
    OBVIOUS
  <2>1. q # p /\ body'[q] = body[q] /\ call'[q].label = u
    BY <1>4
  <2>2. Inside(q) /\ Inside(p)
    BY <2>1 DEF RegInv, BodyInside, CreateRun
  <2>3. u # t
    BY <2>1, <2>2 DEF RegInv, MutexInv, MutualExclusion
  <2>4. body[q].runsCount = Cardinality(RunsOf(u))
    BY <2>1 DEF RegInv, CountStaysFresh
  <2> QED BY <1>1, <2>1, <2>3, <2>4
<1>11. RunLimit'
  <2> SUFFICES ASSUME NEW u \in Limited
               PROVE  Cardinality(RunsOf(u)') <= Times[u]
    BY DEF RunLimit, Limited
  <2>1. CASE u = t
    <3>1. Times[t] \in Nat
      BY <2>1, TimesAssumption DEF Limited
    <3>2. n + 1 <= Times[t]
      BY <1>2, <2>1, <3>1
    <3>3. Cardinality(RunsOf(t)') <= Times[t]
      BY <1>1, <3>2
    <3> QED BY <2>1, <3>3
  <2>2. CASE u # t
    BY <1>1, <2>2 DEF RegInv, RunLimit
  <2> QED BY <2>1, <2>2
<1>12. RanksConsecutive'
  <2> SUFFICES ASSUME NEW u \in Limited
               PROVE  /\ {s.rank : s \in RunsOf(u)'} = 1 .. Cardinality(RunsOf(u)')
                      /\ \A s1, s2 \in RunsOf(u)' : s1.rank = s2.rank => s1 = s2
    BY DEF RanksConsecutive, Limited
  <2>1. CASE u # t
    BY <1>1, <2>1 DEF RegInv, RanksConsecutive
  <2>2. CASE u = t
    <3>1. /\ {s.rank : s \in RunsOf(t)} = 1 .. n
          /\ \A s1, s2 \in RunsOf(t) : s1.rank = s2.rank => s1 = s2
      BY <2>2 DEF RegInv, RanksConsecutive
    <3>2. {s.rank : s \in RunsOf(t)'} = (1 .. n) \cup {n + 1}
      BY <1>1, <1>2, <2>2, <3>1
    <3>3. (1 .. n) \cup {n + 1} = 1 .. n + 1
      BY <1>2, <2>2
    <3>4. ASSUME NEW s \in RunsOf(t)
          PROVE  s.rank # n + 1
      <4>1. s.rank \in 1 .. n /\ n \in Nat
        BY <1>2, <2>2, <3>1
      <4> QED BY <4>1
    <3> QED BY <1>1, <1>2, <2>2, <3>1, <3>2, <3>3, <3>4
  <2> QED BY <2>1, <2>2
<1> QED BY <1>5, <1>6, <1>7, <1>8, <1>9, <1>10, <1>11, <1>12 DEF RegInv

LEMMA DeleteTaskKeepsInv ==
  ASSUME RegInv, NEW t \in tasks, DeleteTask(t)
  PROVE  RegInv'
<1>1. /\ UNCHANGED <<lockedResources, call, unused, lastId, body>>
      /\ tasks' = tasks \ {t}
      /\ runs' = runs \ RunsOf(t)
  BY DEF DeleteTask, mutexVars
<1>2. MutexInv'
  BY <1>1 DEF RegInv, MutexInv, TypeOK, MutualExclusion, LockedIffHeld, Inside
<1>3. RunsOf(t)' = {} /\ \A u : u # t => RunsOf(u)' = RunsOf(u)
  BY <1>1 DEF RunsOf
<1>4. RegTypeOK' /\ CallsKnown'
  <2>1. \A r \in runs' : r \in runs /\ r.taskId # t
    BY <1>1 DEF RunsOf
  <2>2. runs' \subseteq [id : 1 .. lastId', taskId : tasks', rank : Nat \cup {Infinity}]
    BY <1>1, <2>1 DEF RegInv, RegTypeOK
  <2> QED BY <1>1, <1>2, <2>2 DEF RegInv, RegTypeOK, CallsKnown, MutexInv
<1>5. IsFiniteSet(runs)'
  BY <1>1, FS_Subset DEF RegInv
<1>6. BodyInside' /\ GrantBelowLimit'
  BY <1>1 DEF RegInv, BodyInside, GrantBelowLimit, Inside, Limited
<1>7. CountStaysFresh'
  <2> SUFFICES ASSUME NEW q \in Callers, body[q].stage = "create",
                      NEW u, call[q].label = u, u \in tasks', u \in Limited
               PROVE  body[q].runsCount = Cardinality(RunsOf(u)')
    BY <1>1 DEF CountStaysFresh, Limited
  <2>1. u # t /\ u \in tasks
    BY <1>1
  <2> QED BY <1>3, <2>1 DEF RegInv, CountStaysFresh
<1>8. Cardinality({}) = 0
  BY FS_EmptySet
<1>9. RunLimit'
  <2> SUFFICES ASSUME NEW u \in Limited
               PROVE  Cardinality(RunsOf(u)') <= Times[u]
    BY DEF RunLimit, Limited
  <2>1. CASE u = t
    BY <1>3, <1>8, <2>1, TimesAssumption DEF Limited
  <2>2. CASE u # t
    BY <1>3, <2>2 DEF RegInv, RunLimit
  <2> QED BY <2>1, <2>2
<1>10. RanksConsecutive'
  <2> SUFFICES ASSUME NEW u \in Limited
               PROVE  /\ {s.rank : s \in RunsOf(u)'} = 1 .. Cardinality(RunsOf(u)')
                      /\ \A s1, s2 \in RunsOf(u)' : s1.rank = s2.rank => s1 = s2
    BY DEF RanksConsecutive, Limited
  <2>1. CASE u = t
    BY <1>3, <1>8, <2>1
  <2>2. CASE u # t
    BY <1>3, <2>2 DEF RegInv, RanksConsecutive
  <2> QED BY <2>1, <2>2
<1> QED BY <1>2, <1>4, <1>5, <1>6, <1>7, <1>9, <1>10 DEF RegInv

LEMMA InsertTaskKeepsInv ==
  ASSUME RegInv, NEW t \in unused, InsertTask(t)
  PROVE  RegInv'
<1>1. /\ UNCHANGED <<lockedResources, call, runs, lastId, body>>
      /\ tasks' = tasks \cup {t}
      /\ unused' = unused \ {t}
      /\ \A u : RunsOf(u)' = RunsOf(u)
  BY DEF InsertTask, mutexVars, RunsOf
<1>2. MutexInv'
  BY <1>1 DEF RegInv, MutexInv, TypeOK, MutualExclusion, LockedIffHeld, Inside
<1>3. RegTypeOK'
  <2>1. runs' \subseteq [id : 1 .. lastId', taskId : tasks', rank : Nat \cup {Infinity}]
    BY <1>1 DEF RegInv, RegTypeOK
  <2> QED BY <1>1, <1>2, <2>1 DEF RegInv, RegTypeOK, MutexInv
<1>4. CallsKnown'
  BY <1>1 DEF RegInv, CallsKnown
<1>5. BodyInside' /\ GrantBelowLimit' /\ IsFiniteSet(runs)'
  BY <1>1 DEF RegInv, BodyInside, GrantBelowLimit, Inside, Limited
<1>6. CountStaysFresh'
  <2> SUFFICES ASSUME NEW q \in Callers, body[q].stage = "create",
                      NEW u, call[q].label = u, u \in tasks', u \in Limited
               PROVE  body[q].runsCount = Cardinality(RunsOf(u)')
    BY <1>1 DEF CountStaysFresh, Limited
  <2>1. u # t
    BY DEF RegInv, CallsKnown
  <2> QED BY <1>1, <2>1 DEF RegInv, CountStaysFresh
<1>7. RunLimit' /\ RanksConsecutive'
  BY <1>1 DEF RegInv, RunLimit, RanksConsecutive, Limited
<1> QED BY <1>2, <1>3, <1>4, <1>5, <1>6, <1>7 DEF RegInv

\* After a crash nobody is inside the mutex and no count is held.
LEMMA LoseMemoryKeepsInv ==
  ASSUME RegInv, LoseMemory
  PROVE  RegInv'
<1>1. UNCHANGED <<tasks, unused, runs, lastId>>
  BY DEF LoseMemory, tableVars
<1>2. \A p \in Callers : /\ call'[p] = NoCall /\ body'[p] = NoBody
                         /\ ~Inside(p)'
  BY DEF LoseMemory, Inside, NoCall
<1>3. MutexInv'
  BY <1>2 DEF LoseMemory, MutexInv, TypeOK, MutualExclusion, LockedIffHeld, Frame
<1>4. RegTypeOK' /\ CallsKnown'
  BY <1>1, <1>3, NoLabelAssumption
     DEF LoseMemory, RegInv, RegTypeOK, CallsKnown, MutexInv, NoBody, NoCall, Body
<1>5. BodyInside' /\ GrantBelowLimit' /\ CountStaysFresh'
  BY <1>2 DEF BodyInside, GrantBelowLimit, CountStaysFresh, NoBody, Limited
<1>6. RunLimit' /\ RanksConsecutive' /\ IsFiniteSet(runs)'
  BY <1>1 DEF RegInv, RunLimit, RanksConsecutive, Limited, RunsOf
<1> QED BY <1>3, <1>4, <1>5, <1>6 DEF RegInv

-----------------------------------------------------------------------------
\* A step of the mutex that p takes outside of it changes p's frame only.
LEMMA RunImplFrame ==
  ASSUME MutexInv, NEW p \in Callers, NEW l, NEW i, RunImpl(p, l, i)
  PROVE  /\ \A q \in Callers \ {p} : call'[q] = call[q]
         /\ call'[p].label \in {l, NoLabel}
BY DEF MutexInv, TypeOK, RunImpl, Thrown

LEMMA RegInvStep == RegInv /\ [RegNext]_regVars => RegInv'
<1> SUFFICES ASSUME RegInv, [RegNext]_regVars
             PROVE  RegInv'
  OBVIOUS
<1> MutexInv
  BY DEF RegInv
<1>1. ASSUME NEW p \in Callers, NEW t \in Labels, TryToRegister(p, t)
      PROVE  RegInv'
  <2>1. Run(p, t) /\ Next
    BY <1>1 DEF TryToRegister, Next
  <2>2. MutexInv'
    BY <2>1, MutexStep
  <2>3. ~Inside(p)
    BY <2>1 DEF Run, Inside
  <2>4. /\ \A q \in Callers \ {p} : call'[q] = call[q]
        /\ call'[p].label \notin unused
    BY <1>1, <2>1, RunImplFrame, NoLabelAssumption
       DEF Run, TryToRegister, RegInv, RegTypeOK
  <2> QED BY <1>1, <2>2, <2>3, <2>4, EnterKeepsInv DEF TryToRegister
<1>2. ASSUME NEW p \in Callers, RetryRegister(p)
      PROVE  RegInv'
  <2>1. Wake(p) /\ Next
    BY <1>2 DEF RetryRegister, Next
  <2>2. MutexInv'
    BY <2>1, MutexStep
  <2>3. ~Inside(p)
    BY <2>1 DEF Wake, Waiting, Inside
  <2>4. /\ \A q \in Callers \ {p} : call'[q] = call[q]
        /\ call'[p].label \notin unused
    BY <2>1, RunImplFrame, NoLabelAssumption DEF Wake, RegInv, RegTypeOK, CallsKnown
  <2> QED BY <1>2, <2>2, <2>3, <2>4, EnterKeepsInv DEF RetryRegister
<1>3. ASSUME NEW p \in Callers, CountRuns(p)
      PROVE  RegInv'
  BY <1>3, CountRunsKeepsInv
<1>4. ASSUME NEW p \in Callers, CreateRun(p)
      PROVE  RegInv'
  BY <1>4, CreateRunKeepsInv
<1>5. ASSUME NEW p \in Callers, QueryRejects(p)
      PROVE  RegInv'
  BY <1>5, QueryRejectsKeepsInv
<1>6. ASSUME NEW p \in Callers, Return(p)
      PROVE  RegInv'
  BY <1>6, ReturnKeepsInv
<1>7. ASSUME NEW t \in tasks, DeleteTask(t)
      PROVE  RegInv'
  BY <1>7, DeleteTaskKeepsInv
<1>8. ASSUME NEW t \in unused, InsertTask(t)
      PROVE  RegInv'
  BY <1>8, InsertTaskKeepsInv
<1>9. CASE LoseMemory
  BY <1>9, LoseMemoryKeepsInv
<1>10. CASE UNCHANGED regVars
  <2>1. MutexInv'
    BY <1>10 DEF MutexInv, TypeOK, MutualExclusion, LockedIffHeld, Inside, regVars
  <2>2. RegTypeOK' /\ CallsKnown'
    BY <1>10, <2>1 DEF RegInv, RegTypeOK, CallsKnown, MutexInv, regVars
  <2>3. BodyInside' /\ GrantBelowLimit' /\ IsFiniteSet(runs)'
    BY <1>10 DEF RegInv, BodyInside, GrantBelowLimit, Inside, Limited, regVars
  <2>4. CountStaysFresh'
    BY <1>10 DEF RegInv, CountStaysFresh, RunsOf, Limited, regVars
  <2>5. RunLimit' /\ RanksConsecutive'
    BY <1>10 DEF RegInv, RunLimit, RanksConsecutive, RunsOf, Limited, regVars
  <2> QED BY <2>1, <2>2, <2>3, <2>4, <2>5 DEF RegInv
<1> QED BY <1>1, <1>2, <1>3, <1>4, <1>5, <1>6, <1>7, <1>8, <1>9, <1>10 DEF RegNext

LEMMA RegInvAlways == RegSpec => []RegInv
BY RegInvInit, RegInvStep, PTL DEF RegSpec

\* The types of the tables and of the flows that register runs.
THEOREM RegistrationTypeCorrect == RegSpec => []RegTypeOK
<1>1. RegInv => RegTypeOK
  BY DEF RegInv
<1> QED BY <1>1, RegInvAlways, PTL

\* Two ticks never count and insert runs of one task at a time, across
\* deletions of the task, rejected queries and crashes.
THEOREM RegistrationExcludes == RegSpec => []MutualExclusion
<1>1. RegInv => MutualExclusion
  BY DEF RegInv, MutexInv
<1> QED BY <1>1, RegInvAlways, PTL

\* No interleaving of ticks makes the count stale under which a run of a
\* limited task is inserted.
THEOREM RegistrationCountFresh == RegSpec => []CountStaysFresh
<1>1. RegInv => CountStaysFresh
  BY DEF RegInv
<1> QED BY <1>1, RegInvAlways, PTL

\* No task ever has more runs than its `times`.
THEOREM RegistrationKeepsLimit == RegSpec => []RunLimit
<1>1. RegInv => RunLimit
  BY DEF RegInv
<1> QED BY <1>1, RegInvAlways, PTL

\* The ranks of a limited task's runs are 1..n without a gap or a repetition.
THEOREM RegistrationRanks == RegSpec => []RanksConsecutive
<1>1. RegInv => RanksConsecutive
  BY DEF RegInv
<1> QED BY <1>1, RegInvAlways, PTL

-----------------------------------------------------------------------------
\* A step that leaves the tables alone is invisible to the budget.
LEMMA TablesUnchanged ==
  ASSUME UNCHANGED <<tasks, unused, runs>>
  PROVE  UNCHANGED (RunBudget!budgetVars)
<1>1. \A t : RunsOf(t)' = RunsOf(t)
  BY DEF RunsOf
<1> QED BY <1>1 DEF RunBudget!budgetVars, Limited

\* Registration implements the budget: the insert of a run of a limited task
\* issues the next rank, and a deletion closes the task.
THEOREM RegistrationImplementsBudget == RegSpec => ImplementsRunBudget
<1> DEFINE Phase(t) == IF t \in unused THEN "new"
                       ELSE IF t \in tasks THEN "open" ELSE "closed"
           Ranks(t) == {r.rank : r \in RunsOf(t)}
<1>1. RegInit => RunBudget!Init
  <2> SUFFICES ASSUME RegInit
               PROVE  RunBudget!Init
    OBVIOUS
  <2>1. \A t : RunsOf(t) = {}
    BY DEF RegInit, RunsOf
  <2>2. \A t \in Limited : t \in unused
    BY DEF RegInit, Limited
  <2> QED BY <2>1, <2>2 DEF RunBudget!Init
<1>2. ASSUME RegInv, [RegNext]_regVars
      PROVE  [RunBudget!Next]_(RunBudget!budgetVars)
  <2>1. ASSUME NEW p \in Callers, CreateRun(p)
        PROVE  [RunBudget!Next]_(RunBudget!budgetVars)
    <3> PICK t : call[p].label = t
      OBVIOUS
    <3> DEFINE n == Cardinality(RunsOf(t))
               r == [id |-> lastId + 1, taskId |-> t, rank |-> Rank(body[p].runsCount)]
    <3>1. /\ RunsOf(t)' = RunsOf(t) \cup {r}
          /\ \A u : u # t => RunsOf(u)' = RunsOf(u)
          /\ t \in tasks /\ t \notin unused
      BY <1>2, <2>1, InsertedRun DEF CreateRun, RegInv, CallsKnown
    <3>2. tasks' = tasks /\ unused' = unused
      BY <2>1 DEF CreateRun
    <3>3. CASE t \notin Limited
      <4>1. \A u \in Limited : RunsOf(u)' = RunsOf(u)
        BY <3>1, <3>3
      <4>2. [u \in Limited |-> Ranks(u)]' = [u \in Limited |-> Ranks(u)]
        BY <4>1 DEF Limited
      <4> QED BY <3>2, <4>2 DEF RunBudget!budgetVars, Limited
    <3>4. CASE t \in Limited
      <4>1. n \in Nat /\ r.rank = n + 1 /\ n < Times[t] /\ Times[t] \in Nat
        BY <1>2, <2>1, <3>4, InsertedRank, TimesAssumption DEF Limited
      <4>2. Ranks(t) = 1 .. n
        BY <1>2, <3>4 DEF RegInv, RanksConsecutive
      <4> HIDE DEF r
      <4>3. Ranks(t)' = Ranks(t) \cup {r.rank}
        BY <3>1
      <4>4. Ranks(t)' = 1 .. n + 1
        BY <4>1, <4>2, <4>3
      <4>5. n + 1 \in 1 .. Times[t] /\ (n + 1) - 1 = n
        BY <4>1
      <4>6. \A u \in Limited : u # t => Ranks(u)' = Ranks(u)
        BY <3>1
      <4>7. [u \in Limited |-> Ranks(u)]'
            = [[u \in Limited |-> Ranks(u)] EXCEPT ![t] = 1 .. n + 1]
        BY <3>4, <4>4, <4>6 DEF Limited
      <4>8. RunBudget!Issue(t)
        BY <3>1, <3>2, <3>4, <4>2, <4>5, <4>7 DEF RunBudget!Issue, Limited
      <4> QED BY <3>4, <4>8 DEF RunBudget!Next
    <3> QED BY <3>3, <3>4
  <2>2. ASSUME NEW t \in tasks, DeleteTask(t)
        PROVE  [RunBudget!Next]_(RunBudget!budgetVars)
    <3>1. RunsOf(t)' = {} /\ \A u : u # t => RunsOf(u)' = RunsOf(u)
      BY <2>2 DEF DeleteTask, RunsOf
    <3>2. tasks' = tasks \ {t} /\ unused' = unused /\ t \notin unused
      BY <1>2, <2>2 DEF DeleteTask, RegInv, CallsKnown
    <3>3. CASE t \notin Limited
      <4>1. \A u \in Limited : RunsOf(u)' = RunsOf(u)
        BY <3>1, <3>3
      <4>2. [u \in Limited |-> Ranks(u)]' = [u \in Limited |-> Ranks(u)]
        BY <4>1 DEF Limited
      <4>3. [u \in Limited |-> Phase(u)]' = [u \in Limited |-> Phase(u)]
        BY <3>2, <3>3 DEF Limited
      <4> QED BY <4>2, <4>3 DEF RunBudget!budgetVars, Limited
    <3>4. CASE t \in Limited
      <4>1. [u \in Limited |-> Ranks(u)]'
            = [[u \in Limited |-> Ranks(u)] EXCEPT ![t] = {}]
        BY <3>1, <3>4 DEF Limited
      <4>2. [u \in Limited |-> Phase(u)]'
            = [[u \in Limited |-> Phase(u)] EXCEPT ![t] = "closed"]
        BY <3>2, <3>4 DEF Limited
      <4>3. RunBudget!Close(t)
        BY <3>2, <3>4, <4>1, <4>2 DEF RunBudget!Close, Limited
      <4> QED BY <3>4, <4>3 DEF RunBudget!Next
    <3> QED BY <3>3, <3>4
  <2>3. ASSUME NEW t \in unused, InsertTask(t)
        PROVE  [RunBudget!Next]_(RunBudget!budgetVars)
    <3>1. \A u : RunsOf(u)' = RunsOf(u)
      BY <2>3 DEF InsertTask, RunsOf
    <3>2. /\ tasks' = tasks \cup {t} /\ unused' = unused \ {t}
          /\ t \notin tasks
      BY <1>2, <2>3 DEF InsertTask, RegInv, CallsKnown
    <3>3. [u \in Limited |-> Ranks(u)]' = [u \in Limited |-> Ranks(u)]
      BY <3>1 DEF Limited
    <3>4. CASE t \notin Limited
      <4>1. [u \in Limited |-> Phase(u)]' = [u \in Limited |-> Phase(u)]
        BY <3>2, <3>4 DEF Limited
      <4> QED BY <3>3, <4>1 DEF RunBudget!budgetVars, Limited
    <3>5. CASE t \in Limited
      <4>1. [u \in Limited |-> Phase(u)]'
            = [[u \in Limited |-> Phase(u)] EXCEPT ![t] = "open"]
        BY <3>2, <3>5 DEF Limited
      <4>2. RunBudget!Open(t)
        BY <2>3, <3>3, <3>5, <4>1 DEF RunBudget!Open, Limited
      <4> QED BY <3>5, <4>2 DEF RunBudget!Next
    <3> QED BY <3>4, <3>5
  <2>4. CASE UNCHANGED <<tasks, unused, runs>>
    BY <2>4, TablesUnchanged
  <2>5. CASE UNCHANGED regVars
    BY <2>4, <2>5 DEF regVars
  <2> QED BY <1>2, <2>1, <2>2, <2>3, <2>4, <2>5
          DEF RegNext, TryToRegister, RetryRegister, CountRuns, QueryRejects, Return,
              LoseMemory, tableVars
<1> QED BY <1>1, <1>2, RegInvAlways, PTL DEF RegSpec, ImplementsRunBudget, RunBudget!Spec
=============================================================================
