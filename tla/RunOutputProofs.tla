---------------------------- MODULE RunOutputProofs ----------------------------
(***************************************************************************)
(* The file of an output is an OutputFile, for any runs, entries and sizes *)
(* of pipes.  That it is made once and left alone once it is closed needs  *)
(* to be known of the consumers: none is registered twice, because a run   *)
(* is started once, nothing is there before the file is opened, and what   *)
(* is half written is yet to be counted (Steady).                          *)
(* The order of a log needs to be known of what was taken out of the pipes *)
(* (Reading): the consumer has exactly that, so the number of entries it   *)
(* has tells the place of the next one.                                    *)
(***************************************************************************)
EXTENDS RunOutput, FiniteSetTheorems, TLAPS

Stages == {"none", "mkdir", "open", "writing", "closed", "lost"}

Steady ==
  /\ \A k \in Outputs :
       /\ flow[RunOf(k)] \in {"pending", "start"} => stage[k] = "none"
       /\ stage[k] \in {"none", "mkdir", "open"}
            => consumed[k] = <<>> /\ written[k] = 0 /\ k \notin linked
       /\ half[k] => written[k] < Len(consumed[k]) /\ stage[k] # "closed"
  /\ \A r \in Runs : taken[r] \subseteq 1 .. copied[r]

Inv == OutTypeOK /\ Steady

LEMMA OutputFacts ==
  /\ \A k \in Outputs : RunOf(k) \in Runs /\ Provider(k) \in Providers
  /\ \A r \in Runs : Log(r) \in Outputs /\ RunOf(Log(r)) = r /\ <<"metric", r>> \in Outputs
BY DEF Outputs, RunOf, Provider, Providers, Log

LEMMA InitInv == Init => Inv
BY OutputFacts DEF Init, Inv, OutTypeOK, Steady, RunOf, Outputs

-----------------------------------------------------------------------------
(* The steps of the invariant *)

LEMMA RunContainerInv == ASSUME Inv, NEW r \in Runs, RunContainer(r) PROVE Inv'
BY OutputFacts DEF RunContainer, Inv, OutTypeOK, Steady

LEMMA EmitInv ==
  ASSUME Inv, NEW r \in Runs, NEW e \in LogEntries, Emit(r, e) PROVE Inv'
BY OutputFacts DEF Emit, Inv, OutTypeOK, Steady

LEMMA ExitInv == ASSUME Inv, NEW r \in Runs, Exit(r) PROVE Inv'
BY OutputFacts DEF Exit, Inv, OutTypeOK, Steady

LEMMA CopyInv == ASSUME Inv, NEW r \in Runs, Copy(r) PROVE Inv'
BY OutputFacts DEF Copy, Inv, OutTypeOK, Steady

LEMMA RegisterInv == ASSUME Inv, NEW r \in Runs, RegisterRunListeners(r) PROVE Inv'
BY OutputFacts DEF RegisterRunListeners, Inv, OutTypeOK, Steady

LEMMA EnsureDirectoryInv == ASSUME Inv, NEW k \in Outputs, EnsureDirectory(k) PROVE Inv'
BY OutputFacts DEF EnsureDirectory, Inv, OutTypeOK, Steady

LEMMA HaltInv == ASSUME Inv, Halt PROVE Inv'
BY OutputFacts DEF Halt, Inv, OutTypeOK, Steady

LEMMA OpenInv == ASSUME Inv, NEW k \in Outputs, Open(k) PROVE Inv'
<1>1. CASE Halt
  BY <1>1, HaltInv
<1>2. CASE ~Halt
  <2>1. /\ stage[k] = "open"
        /\ stage' = [stage EXCEPT ![k] = "writing"]
        /\ linked' = linked \cup {k}
        /\ UNCHANGED <<rows, flow, container, printed, copied, taken, written, half,
                       dirs, deleting>>
    BY <1>2 DEF Open
  <2>2. PICK start \in {<<NoSuchContainer>>, <<>>} :
          consumed' = [consumed EXCEPT ![k] = start]
    BY <1>2 DEF Open
  <2>3. start \in Seq(Lines)
    <3>1. NoSuchContainer \in Lines
      BY DEF Lines
    <3>2. <<NoSuchContainer>> \in Seq(Lines) /\ <<>> \in Seq(Lines)
      BY <3>1
    <3> QED BY <3>2
  <2>4. written[k] = 0 /\ consumed[k] = <<>> /\ ~half[k]
    BY <2>1 DEF Inv, OutTypeOK, Steady
  <2>5. consumed' \in [Outputs -> Seq(Lines)]
    BY <2>2, <2>3 DEF Inv, OutTypeOK
  <2>6. \A m \in Outputs :
          /\ written'[m] <= Len(consumed'[m])
          /\ stage'[m] = "closed" => written'[m] = Len(consumed'[m])
          /\ flow'[RunOf(m)] \in {"pending", "start"} => stage'[m] = "none"
          /\ flow'[RunOf(m)] \in {"wait", "done"} => stage'[m] # "none"
    <3> TAKE m \in Outputs
    <3>1. CASE m = k
      BY <2>1, <2>4, <2>5, <3>1 DEF Inv, OutTypeOK
    <3>2. CASE m # k
      BY <2>1, <2>2, <3>2 DEF Inv, OutTypeOK
    <3> QED BY <3>1, <3>2
  <2>7. OutTypeOK'
    BY <2>1, <2>5, <2>6 DEF Inv, OutTypeOK
  <2>8. Steady'
    <3>1. ASSUME NEW m \in Outputs
          PROVE  /\ flow'[RunOf(m)] \in {"pending", "start"} => stage'[m] = "none"
                 /\ stage'[m] \in {"none", "mkdir", "open"}
                      => consumed'[m] = <<>> /\ written'[m] = 0 /\ m \notin linked'
                 /\ half'[m] => written'[m] < Len(consumed'[m]) /\ stage'[m] # "closed"
      <4>1. CASE m = k
        BY <2>1, <2>4, <4>1 DEF Inv, OutTypeOK, Steady
      <4>2. CASE m # k
        BY <2>1, <2>2, <4>2 DEF Inv, OutTypeOK, Steady
      <4> QED BY <4>1, <4>2
    <3> QED BY <2>1, <3>1 DEF Inv, Steady
  <2> QED BY <2>7, <2>8 DEF Inv
<1> QED BY <1>1, <1>2

\* A consumer that writes gets one more entry.
LEMMA ConsumeInv ==
  ASSUME Inv, NEW k \in Outputs, NEW e \in Lines, stage[k] = "writing",
         consumed' = [consumed EXCEPT ![k] = Append(@, e)]
  PROVE  /\ consumed' \in [Outputs -> Seq(Lines)]
         /\ \A m \in Outputs :
              /\ Len(consumed[m]) \in Nat /\ Len(consumed'[m]) \in Nat
              /\ Len(consumed[m]) <= Len(consumed'[m])
              /\ m # k => consumed'[m] = consumed[m]
<1>1. consumed[k] \in Seq(Lines)
  BY DEF Inv, OutTypeOK
<1>2. Append(consumed[k], e) \in Seq(Lines)
      /\ Len(Append(consumed[k], e)) = Len(consumed[k]) + 1
  BY <1>1
<1>3. consumed' \in [Outputs -> Seq(Lines)]
  BY <1>2 DEF Inv, OutTypeOK
<1>4. ASSUME NEW m \in Outputs
      PROVE  /\ Len(consumed[m]) \in Nat /\ Len(consumed'[m]) \in Nat
             /\ Len(consumed[m]) <= Len(consumed'[m])
             /\ m # k => consumed'[m] = consumed[m]
  <2>1. consumed[m] \in Seq(Lines) /\ Len(consumed[m]) \in Nat
    BY DEF Inv, OutTypeOK
  <2>2. CASE m = k
    BY <1>2, <2>1, <2>2 DEF Inv, OutTypeOK
  <2>3. CASE m # k
    BY <2>1, <2>3 DEF Inv, OutTypeOK
  <2> QED BY <2>2, <2>3
<1> QED BY <1>3, <1>4

LEMMA TakeInv == ASSUME Inv, NEW r \in Runs, NEW stream, Take(r, stream) PROVE Inv'
<1> DEFINE k == Log(r)
<1>1. k \in Outputs /\ stage[k] = "writing"
  BY OutputFacts DEF Take, Follows
<1>2. PICK i \in InPipe(r, stream) :
        /\ taken' = [taken EXCEPT ![r] = @ \cup {i}]
        /\ consumed' = [consumed EXCEPT ![k] = Append(@, printed[r][i])]
  BY DEF Take
<1>3. i \in 1 .. copied[r] /\ printed[r][i] \in Lines
  <2>1. i \in 1 .. copied[r] /\ copied[r] <= Len(printed[r]) /\ copied[r] \in Nat
        /\ printed[r] \in Seq(LogEntries)
    BY <1>2 DEF InPipe, Inv, OutTypeOK
  <2>2. i \in 1 .. Len(printed[r])
    BY <2>1
  <2>3. printed[r][i] \in LogEntries
    BY <2>1, <2>2
  <2> QED BY <2>1, <2>3 DEF Lines
<1> HIDE DEF k
<1>4. /\ consumed' \in [Outputs -> Seq(Lines)]
      /\ \A m \in Outputs :
           /\ Len(consumed[m]) \in Nat /\ Len(consumed'[m]) \in Nat
           /\ Len(consumed[m]) <= Len(consumed'[m])
           /\ m # k => consumed'[m] = consumed[m]
  BY <1>1, <1>2, <1>3, ConsumeInv
<1>5. UNCHANGED <<rows, flow, container, printed, copied, stage, written, half, dirs,
                  linked, deleting>>
  BY DEF Take
<1>6. \A q \in Runs : taken'[q] \subseteq 1 .. copied[q]
  BY <1>2, <1>3 DEF Inv, Steady
<1>7. taken' \in [Runs -> SUBSET Nat]
  BY <1>2, <1>3 DEF Inv, OutTypeOK
<1> QED BY <1>1, <1>4, <1>5, <1>6, <1>7 DEF Inv, OutTypeOK, Steady

LEMMA SampleInv ==
  ASSUME Inv, NEW r \in Runs, NEW e \in MetricEntries, Sample(r, e) PROVE Inv'
<1>1. PICK k \in Outputs : k = <<"metric", r>>
  BY OutputFacts
<1>2. /\ stage[k] = "writing" /\ e \in Lines
      /\ consumed' = [consumed EXCEPT ![k] = Append(@, e)]
      /\ UNCHANGED <<rows, flow, container, printed, copied, taken, stage, written, half,
                     dirs, linked, deleting>>
  BY <1>1 DEF Sample, Lines
<1>3. /\ consumed' \in [Outputs -> Seq(Lines)]
      /\ \A m \in Outputs :
           /\ Len(consumed[m]) \in Nat /\ Len(consumed'[m]) \in Nat
           /\ Len(consumed[m]) <= Len(consumed'[m])
           /\ m # k => consumed'[m] = consumed[m]
  BY <1>2, ConsumeInv
<1> QED BY <1>2, <1>3 DEF Inv, OutTypeOK, Steady

LEMMA WriteInv == ASSUME Inv, NEW k \in Outputs, WritePart(k) \/ WriteLine(k) PROVE Inv'
<1>1. /\ stage[k] = "writing" /\ written[k] < Len(consumed[k])
      /\ UNCHANGED <<rows, flow, container, printed, copied, taken, stage, consumed, dirs,
                     linked, deleting>>
      /\ Len(consumed[k]) \in Nat /\ written[k] \in Nat
  BY DEF WritePart, WriteLine, Inv, OutTypeOK
<1>2. CASE WritePart(k)
  BY <1>1, <1>2 DEF WritePart, Inv, OutTypeOK, Steady
<1>3. CASE WriteLine(k)
  <2>1. /\ written' = [written EXCEPT ![k] = written[k] + 1]
        /\ half' \in [Outputs -> BOOLEAN] /\ ~half'[k]
        /\ \A m \in Outputs : m # k => half'[m] = half[m]
    BY <1>3 DEF WriteLine, Inv, OutTypeOK
  <2>2. OutTypeOK'
    BY <1>1, <2>1 DEF Inv, OutTypeOK
  <2>3. Steady'
    BY <1>1, <2>1 DEF Inv, OutTypeOK, Steady
  <2> QED BY <2>2, <2>3 DEF Inv
<1> QED BY <1>2, <1>3

LEMMA FinishInv == ASSUME Inv, NEW k \in Outputs, Finish(k) PROVE Inv'
BY OutputFacts DEF Finish, Inv, OutTypeOK, Steady

LEMMA RemoveContainerInv == ASSUME Inv, NEW r \in Runs, RemoveContainer(r) PROVE Inv'
BY OutputFacts DEF RemoveContainer, Inv, OutTypeOK, Steady

LEMMA DeleteInv == ASSUME Inv, DeleteExecutable \/ DeleteRow PROVE Inv'
BY OutputFacts DEF DeleteExecutable, DeleteRow, Inv, OutTypeOK, Steady

LEMMA FlushInv == ASSUME Inv, FlushAll PROVE Inv'
BY OutputFacts DEF FlushAll, Unlink, RemoveDirectory, Inv, OutTypeOK, Steady

LEMMA NextInv == ASSUME Inv, [Next]_vars PROVE Inv'
<1>1. CASE \E r \in Runs :
             \/ RunContainer(r) \/ RegisterRunListeners(r) \/ Exit(r) \/ RemoveContainer(r)
             \/ \E e \in LogEntries : Emit(r, e)
             \/ \E e \in MetricEntries : Sample(r, e)
             \/ Follow(r)
  BY <1>1, RunContainerInv, RegisterInv, ExitInv, RemoveContainerInv, EmitInv, SampleInv,
     CopyInv, TakeInv DEF Follow, TakeStdout, TakeStderr
<1>2. CASE \E k \in Outputs : Consume(k)
  BY <1>2, EnsureDirectoryInv, OpenInv, WriteInv, FinishInv DEF Consume
<1>3. CASE DeleteExecutable \/ FlushAll \/ DeleteRow \/ Halt
  BY <1>3, DeleteInv, FlushInv, HaltInv
<1>4. CASE UNCHANGED vars
  BY <1>4 DEF vars, Inv, OutTypeOK, Steady
<1> QED BY <1>1, <1>2, <1>3, <1>4 DEF Next

\* Tables, containers, consumers and files keep their types, no consumer writes what
\* it has not read, and none takes from a pipe what docker logs has not put there
\* (registerRunListeners, consumeLogGenerator, logs).
THEOREM OutputTypeCorrect == Spec => []OutTypeOK
<1>1. Inv => OutTypeOK
  BY DEF Inv
<1> QED BY <1>1, InitInv, NextInv, PTL DEF Spec

-----------------------------------------------------------------------------
(* The refinement *)

\* How a file ended, to who reads it.
Fate(k) == IF stage[k] \in {"closed", "lost"} THEN stage[k] ELSE "no"

LEMMA FileSteps ==
  ASSUME Inv, UNCHANGED <<written, half, linked, rows>>,
         \A k \in Outputs : Fate(k)' = Fate(k) /\ Written(k)' = Written(k)
  PROVE  UNCHANGED File!fileVars
BY DEF File!fileVars, Fate

\* The entries a consumer reads are not in the file yet.
LEMMA ReadAhead ==
  ASSUME Inv, NEW k \in Outputs, NEW e \in Lines, stage[k] = "writing",
         consumed' = [consumed EXCEPT ![k] = Append(@, e)], UNCHANGED written
  PROVE  \A m \in Outputs : Written(m)' = Written(m)
<1> TAKE m \in Outputs
<1>1. /\ consumed[m] \in Seq(Lines) /\ written[m] \in Nat /\ written[m] <= Len(consumed[m])
      /\ Len(consumed[m]) \in Nat
  BY DEF Inv, OutTypeOK
<1>2. CASE m # k
  BY <1>2 DEF Written, Inv, OutTypeOK
<1>3. CASE m = k
  <2>1. consumed'[m] = Append(consumed[m], e)
    BY <1>3 DEF Inv, OutTypeOK
  <2>2. \A i \in 1 .. written[m] : Append(consumed[m], e)[i] = consumed[m][i]
    BY <1>1
  <2> QED BY <1>1, <2>1, <2>2 DEF Written
<1> QED BY <1>2, <1>3

LEMMA InitFile == ASSUME Init PROVE File!FileInit
<1>1. \A k \in Outputs : Written(k) = <<>>
  BY DEF Init, Written
<1> QED BY <1>1, OutputFacts DEF Init, File!FileInit

LEMMA HaltFile == ASSUME Inv, Halt PROVE File!GiveUp
<1> DEFINE stopped == {k \in Outputs : stage[k] \in {"mkdir", "open", "writing"}}
<1>1. stopped \subseteq {k \in Outputs : Fate(k) = "no"}
  BY DEF Fate
<1>2. \A k \in Outputs : Fate(k)' = IF k \in stopped THEN "lost" ELSE Fate(k)
  BY DEF Halt, Fate, Inv, OutTypeOK
<1>3. UNCHANGED <<half, linked, rows>> /\ \A k \in Outputs : Written(k)' = Written(k)
  BY DEF Halt, Written
<1> QED BY <1>1, <1>2, <1>3 DEF File!GiveUp, Fate

LEMMA OpenFileStep == ASSUME Inv, NEW k \in Outputs, Open(k), ~Halt PROVE File!Make(k)
<1>1. /\ stage[k] = "open" /\ stage' = [stage EXCEPT ![k] = "writing"]
      /\ linked' = linked \cup {k} /\ UNCHANGED <<rows, written, half>>
  BY DEF Open
<1>2. PICK start : consumed' = [consumed EXCEPT ![k] = start]
  BY DEF Open
<1>3. written[k] = 0 /\ k \notin linked /\ ~half[k]
  BY <1>1 DEF Inv, OutTypeOK, Steady
<1>4. \A m \in Outputs : Written(m)' = Written(m)
  <2> TAKE m \in Outputs
  <2>1. CASE m = k
    BY <1>1, <1>3, <2>1 DEF Written
  <2>2. CASE m # k
    BY <1>1, <1>2, <2>2 DEF Written, Inv, OutTypeOK
  <2> QED BY <2>1, <2>2
<1>5. \A m \in Outputs : Fate(m)' = Fate(m)
  BY <1>1 DEF Fate, Inv, OutTypeOK
<1>6. Written(k) = <<>> /\ Fate(k) = "no"
  BY <1>1, <1>3 DEF Written, Fate
<1> QED BY <1>1, <1>3, <1>4, <1>5, <1>6 DEF File!Make, Fate

LEMMA WriteLineStep ==
  ASSUME Inv, NEW k \in Outputs, WriteLine(k)
  PROVE  \E e \in Lines : File!WriteLine(k, e)
<1> DEFINE n == written[k] + 1
           e == consumed[k][n]
<1>1. /\ stage[k] = "writing" /\ written[k] \in Nat /\ n <= Len(consumed[k])
      /\ consumed[k] \in Seq(Lines) /\ Len(consumed[k]) \in Nat
      /\ written' = [written EXCEPT ![k] = n] /\ half' = [half EXCEPT ![k] = FALSE]
      /\ UNCHANGED <<rows, consumed, stage, linked>>
  BY DEF WriteLine, Inv, OutTypeOK
<1>2. e \in Lines
  BY <1>1
<1>3. Written(k)' = Append(Written(k), e)
  <2>1. Written(k)' = SubSeq(consumed[k], 1, n)
    BY <1>1 DEF Written, Inv, OutTypeOK
  <2>2. SubSeq(consumed[k], 1, n) = Append(SubSeq(consumed[k], 1, written[k]), e)
    BY <1>1
  <2> QED BY <2>1, <2>2 DEF Written
<1>4. \A m \in Outputs : m # k => Written(m)' = Written(m)
  BY <1>1 DEF Written, Inv, OutTypeOK
<1>5. Fate(k) = "no" /\ \A m \in Outputs : Fate(m)' = Fate(m)
  BY <1>1 DEF Fate
<1> HIDE DEF e, n
<1> QED BY <1>1, <1>2, <1>3, <1>4, <1>5 DEF File!WriteLine, Fate

LEMMA WritePartStep == ASSUME Inv, NEW k \in Outputs, WritePart(k) PROVE File!WritePart(k)
<1>1. /\ stage[k] = "writing" /\ ~half[k] /\ half' = [half EXCEPT ![k] = TRUE]
      /\ UNCHANGED <<rows, consumed, stage, written, linked>>
  BY DEF WritePart
<1> QED BY <1>1 DEF File!WritePart, Written, Fate

LEMMA FinishStep == ASSUME Inv, NEW k \in Outputs, Finish(k) PROVE File!Close(k)
<1>1. /\ stage[k] = "writing" /\ written[k] = Len(consumed[k])
      /\ stage' = [stage EXCEPT ![k] = "closed"]
      /\ UNCHANGED <<rows, consumed, half, written, linked>>
  BY DEF Finish
<1>2. ~half[k]
  BY <1>1 DEF Inv, OutTypeOK, Steady
<1>3. Fate(k) = "no" /\ \A m \in Outputs : Fate(m)' = IF m = k THEN "closed" ELSE Fate(m)
  BY <1>1 DEF Fate, Inv, OutTypeOK
<1> QED BY <1>1, <1>2, <1>3 DEF File!Close, Written, Fate

LEMMA FlushStep == ASSUME Inv, FlushAll PROVE [File!FileNext]_(File!fileVars)
<1>1. UNCHANGED <<rows, written, half, stage, consumed>>
  BY DEF FlushAll, Unlink, RemoveDirectory
<1>2. \A k \in Outputs : Written(k)' = Written(k) /\ Fate(k)' = Fate(k)
  BY <1>1 DEF Written, Fate
<1>3. CASE UNCHANGED linked
  BY <1>1, <1>2, <1>3, FileSteps
<1>4. ASSUME NEW p \in Providers, linked' = {k \in linked : Provider(k) # p},
             linked' # linked
      PROVE  \E k \in Outputs : File!Unlink(k[1])
  <2>1. PICK k \in Outputs : k \in linked /\ k[1] = p
    BY <1>4 DEF Inv, OutTypeOK, Provider
  <2> QED BY <1>1, <1>2, <1>4, <2>1 DEF File!Unlink, Provider, Fate
<1>5. UNCHANGED linked \/ \E p \in Providers : linked' = {k \in linked : Provider(k) # p}
  BY DEF FlushAll, Unlink, RemoveDirectory, Providers
<1> QED BY <1>3, <1>4, <1>5 DEF File!FileNext

LEMMA DeleteRowStep == ASSUME Inv, DeleteRow PROVE File!Unlist
<1>1. rows' = {} /\ UNCHANGED <<written, half, stage, consumed, linked>>
  BY DEF DeleteRow
<1> QED BY <1>1 DEF File!Unlist, Written

\* The steps nobody sees in a file.
LEMMA RunSteps ==
  ASSUME Inv, NEW r \in Runs,
         \/ RunContainer(r) \/ RegisterRunListeners(r) \/ Exit(r) \/ RemoveContainer(r)
         \/ \E e \in LogEntries : Emit(r, e)
         \/ \E e \in MetricEntries : Sample(r, e)
         \/ Follow(r)
  PROVE  UNCHANGED File!fileVars
<1>1. UNCHANGED <<rows, written, half, linked>>
  BY DEF RunContainer, RegisterRunListeners, Exit, RemoveContainer, Emit, Sample, Follow,
         Copy, TakeStdout, TakeStderr, Take
<1>2. \A k \in Outputs : Fate(k)' = Fate(k)
  <2>1. CASE RegisterRunListeners(r)
    BY <2>1, OutputFacts DEF RegisterRunListeners, Fate, Inv, OutTypeOK, Steady
  <2>2. CASE ~RegisterRunListeners(r)
    <3>1. UNCHANGED stage
      BY <2>2 DEF RunContainer, Exit, RemoveContainer, Emit, Sample, Follow, Copy,
                  TakeStdout, TakeStderr, Take
    <3> QED BY <3>1 DEF Fate
  <2> QED BY <2>1, <2>2
<1>3. \A k \in Outputs : Written(k)' = Written(k)
  <2>1. CASE UNCHANGED consumed
    BY <1>1, <2>1 DEF Written
  <2>2. CASE \E e \in MetricEntries : Sample(r, e)
    <3>1. PICK k \in Outputs, e \in Lines :
            /\ stage[k] = "writing" /\ consumed' = [consumed EXCEPT ![k] = Append(@, e)]
      BY <2>2, OutputFacts DEF Sample, Lines
    <3> QED BY <1>1, <3>1, ReadAhead
  <2>3. CASE \E stream \in {"stdout", "stderr"} : Take(r, stream)
    <3>0. PICK stream \in {"stdout", "stderr"} : Take(r, stream)
      BY <2>3
    <3>1. PICK i \in InPipe(r, stream) :
            /\ stage[Log(r)] = "writing"
            /\ consumed' = [consumed EXCEPT ![Log(r)] = Append(@, printed[r][i])]
      BY <3>0 DEF Take, Follows
    <3>2. /\ i \in 1 .. copied[r] /\ copied[r] <= Len(printed[r]) /\ copied[r] \in Nat
          /\ printed[r] \in Seq(LogEntries)
      BY DEF InPipe, Inv, OutTypeOK
    <3>3. i \in 1 .. Len(printed[r])
      BY <3>2
    <3>4. printed[r][i] \in Lines
      BY <3>2, <3>3 DEF Lines
    <3> QED BY <1>1, <3>1, <3>4, OutputFacts, ReadAhead
  <2>4. \/ UNCHANGED consumed
        \/ \E e \in MetricEntries : Sample(r, e)
        \/ \E stream \in {"stdout", "stderr"} : Take(r, stream)
    BY DEF RunContainer, RegisterRunListeners, Exit, RemoveContainer, Emit, Follow, Copy,
           TakeStdout, TakeStderr
  <2> QED BY <2>1, <2>2, <2>3, <2>4
<1> QED BY <1>1, <1>2, <1>3, FileSteps

LEMMA NextFile == ASSUME Inv, [Next]_vars PROVE [File!FileNext]_(File!fileVars)
<1>1. CASE \E r \in Runs :
             \/ RunContainer(r) \/ RegisterRunListeners(r) \/ Exit(r) \/ RemoveContainer(r)
             \/ \E e \in LogEntries : Emit(r, e)
             \/ \E e \in MetricEntries : Sample(r, e)
             \/ Follow(r)
  BY <1>1, RunSteps
<1>2. CASE Halt
  BY <1>2, HaltFile DEF File!FileNext
<1>3. ASSUME NEW k \in Outputs, Consume(k), ~Halt
      PROVE  [File!FileNext]_(File!fileVars)
  <2>1. CASE EnsureDirectory(k)
    <3>1. /\ stage[k] = "mkdir" /\ stage' = [stage EXCEPT ![k] = "open"]
          /\ UNCHANGED <<rows, written, half, linked, consumed>>
      BY <2>1 DEF EnsureDirectory
    <3>2. \A m \in Outputs : Fate(m)' = Fate(m) /\ Written(m)' = Written(m)
      BY <3>1 DEF Fate, Written, Inv, OutTypeOK
    <3> QED BY <3>1, <3>2, FileSteps
  <2>2. CASE Open(k)
    BY <1>3, <2>2, OpenFileStep DEF File!FileNext
  <2>3. CASE WritePart(k)
    BY <2>3, WritePartStep DEF File!FileNext
  <2>4. CASE WriteLine(k)
    BY <2>4, WriteLineStep DEF File!FileNext
  <2>5. CASE Finish(k)
    BY <2>5, FinishStep DEF File!FileNext
  <2> QED BY <1>3, <2>1, <2>2, <2>3, <2>4, <2>5 DEF Consume
<1>4. CASE DeleteExecutable
  <2>1. UNCHANGED <<rows, written, half, linked, stage, consumed>>
    BY <1>4 DEF DeleteExecutable
  <2> QED BY <2>1, FileSteps DEF Fate, Written
<1>5. CASE FlushAll
  BY <1>5, FlushStep
<1>6. CASE DeleteRow
  BY <1>6, DeleteRowStep DEF File!FileNext
<1>7. CASE UNCHANGED vars
  BY <1>7, FileSteps DEF vars, Fate, Written
<1> QED BY <1>1, <1>2, <1>3, <1>4, <1>5, <1>6, <1>7 DEF Next

\* To a search the file grows by whole lines, is made once and never written after it
\* was closed, with any number of runs, consumers, deletes and ends of the process
\* (consumeLogGenerator, consumeMetricGenerator, flushAll).
THEOREM OutputImplementsFile == Spec => ImplementsOutputFile
<1>1. Init => File!FileInit
  BY InitFile
<1>2. Inv /\ [Next]_vars => [File!FileNext]_(File!fileVars)
  BY NextFile
<1> QED BY <1>1, <1>2, InitInv, NextInv, PTL DEF Spec, ImplementsOutputFile, File!FileSpec

-----------------------------------------------------------------------------
(* The order of the log *)

\* A container that has no place in docker is not run yet, so one that has exited or
\* was removed prints no more; the consumer has what was taken out of the pipes and
\* nothing else, each entry at its place in the log; it takes stdout from its first
\* entry on, and stderr only after all of stdout; and it closes the log with
\* everything taken and written.
Reading(r) ==
  LET k == Log(r)
  IN  /\ flow[r] = "pending" => container[r] = "none"
      /\ stage[k] \in {"none", "mkdir", "open"} => taken[r] = {}
      /\ \A p \in taken[r], q \in PlacesOf(r, "stdout") :
           q < p \/ printed[r][p].stream = "stderr" => q \in taken[r]
      /\ \A p \in taken[r] :
           printed[r][p].stream = "stderr" =>
             /\ Copied(r)
             /\ \A q \in PlacesOf(r, "stderr") : q < p => q \in taken[r]
      /\ consumed[k] # <<NoSuchContainer>> =>
           /\ Len(consumed[k]) = Cardinality(taken[r])
           /\ \A i \in 1 .. Len(consumed[k]) :
                \E p \in taken[r] :
                  consumed[k][i] = printed[r][p] /\ PlaceInLog(r, p) = i
           /\ stage[k] = "closed" =>
                Copied(r) /\ taken[r] = 1 .. copied[r] /\ written[k] = Len(consumed[k])

ReadInv == Inv /\ \A r \in Runs : Reading(r)

\* What an entry is, and where.
LEMMA PrintedFacts ==
  ASSUME Inv, NEW r \in Runs
  PROVE  /\ printed[r] \in Seq(LogEntries) /\ Len(printed[r]) \in Nat /\ copied[r] \in Nat
         /\ copied[r] <= Len(printed[r]) /\ taken[r] \subseteq 1 .. copied[r]
         /\ taken[r] \subseteq 1 .. Len(printed[r])
         /\ \A p \in 1 .. Len(printed[r]) :
              /\ printed[r][p] \in LogEntries
              /\ printed[r][p].stream \in {"stdout", "stderr"}
<1>1. printed[r] \in Seq(LogEntries) /\ copied[r] \in Nat /\ copied[r] <= Len(printed[r])
      /\ taken[r] \subseteq 1 .. copied[r]
  BY DEF Inv, OutTypeOK
<1>2. Len(printed[r]) \in Nat
  BY <1>1
<1>3. taken[r] \subseteq 1 .. Len(printed[r])
  BY <1>1, <1>2
<1>4. ASSUME NEW p \in 1 .. Len(printed[r])
      PROVE  printed[r][p] \in LogEntries /\ printed[r][p].stream \in {"stdout", "stderr"}
  <2>1. printed[r][p] \in LogEntries
    BY <1>1
  <2> QED BY <2>1, OutputAssumption
<1> QED BY <1>1, <1>2, <1>3, <1>4

\* Nothing is taken at first.
LEMMA InitReading == Init => ReadInv
<1> SUFFICES ASSUME Init PROVE \A r \in Runs : Reading(r)
  BY InitInv DEF ReadInv
<1> TAKE r \in Runs
<1>1. /\ container[r] = "none" /\ taken[r] = {} /\ Log(r) \in Outputs
      /\ consumed[Log(r)] = <<>> /\ stage[Log(r)] = "none"
  BY OutputFacts DEF Init
<1>2. Cardinality(taken[r]) = 0
  BY <1>1, FS_EmptySet
<1> QED BY <1>1, <1>2 DEF Reading

\* A step that touches neither what was printed, copied, taken and consumed nor what
\* was there to be read leaves the order as it is.
LEMMA ReadingKept ==
  ASSUME NEW r \in Runs, Reading(r),
         UNCHANGED <<printed[r], copied[r], taken[r], consumed[Log(r)]>>,
         flow'[r] = "pending" => container'[r] = "none",
         Copied(r) => Copied(r)',
         stage'[Log(r)] \in {"none", "mkdir", "open"} => taken[r] = {},
         stage'[Log(r)] = "closed" /\ consumed[Log(r)] # <<NoSuchContainer>> =>
           Copied(r)' /\ taken[r] = 1 .. copied[r] /\ written'[Log(r)] = Len(consumed[Log(r)])
  PROVE  Reading(r)'
<1>1. \A st : PlacesOf(r, st)' = PlacesOf(r, st)
  BY DEF PlacesOf
<1>2. \A p : PlaceInLog(r, p)' = PlaceInLog(r, p)
  BY DEF PlaceInLog, PlacesOf
<1> HIDE DEF PlacesOf, PlaceInLog, Copied
<1> DEFINE k == Log(r)
<1>3. k' = k
  BY DEF Log
<1>4. /\ \A p \in taken'[r], q \in PlacesOf(r, "stdout")' :
           q < p \/ printed'[r][p].stream = "stderr" => q \in taken'[r]
      /\ \A p \in taken'[r] :
           printed'[r][p].stream = "stderr" =>
             /\ Copied(r)'
             /\ \A q \in PlacesOf(r, "stderr")' : q < p => q \in taken'[r]
  BY <1>1 DEF Reading
<1>5. consumed'[k] # <<NoSuchContainer>> =>
           /\ Len(consumed'[k]) = Cardinality(taken'[r])
           /\ \A i \in 1 .. Len(consumed'[k]) :
                \E p \in taken'[r] :
                  consumed'[k][i] = printed'[r][p] /\ PlaceInLog(r, p)' = i
  BY <1>2 DEF Reading
<1> QED BY <1>3, <1>4, <1>5 DEF Reading


\* What one more entry is printed to does not move the others.
LEMMA EmitReading ==
  ASSUME ReadInv, NEW r \in Runs, NEW e \in LogEntries, Emit(r, e) PROVE Reading(r)'
<1> DEFINE k == Log(r)
           n == Len(printed[r])
<1>1. /\ container[r] = "up" /\ printed'[r] = Append(printed[r], e)
      /\ UNCHANGED <<flow, container, copied, taken, stage, consumed, written>>
      /\ printed[r] \in Seq(LogEntries) /\ n \in Nat /\ taken[r] \subseteq 1 .. n
      /\ copied[r] \in Nat /\ copied[r] <= n
      /\ Reading(r)
  BY PrintedFacts DEF Emit, ReadInv, Inv, OutTypeOK
<1>2. Len(printed'[r]) = n + 1 /\ \A p \in 1 .. n : printed'[r][p] = printed[r][p]
  BY <1>1
<1>3. ~Copied(r)
  BY <1>1 DEF Copied
<1>4. \A p \in taken[r] : printed[r][p].stream # "stderr"
  BY <1>1, <1>3 DEF Reading
<1>5. \A p \in taken[r] : p \in Nat /\ p <= n /\ printed[r][p].stream = "stdout"
  BY <1>1, <1>4, PrintedFacts DEF ReadInv
<1>6. \A p \in taken[r] :
        PlacesOf(r, "stdout")' \cap 1 .. p = PlacesOf(r, "stdout") \cap 1 .. p
  <2> TAKE p \in taken[r]
  <2>1. ASSUME NEW q \in 1 .. p
        PROVE  q \in PlacesOf(r, "stdout")' <=> q \in PlacesOf(r, "stdout")
    <3>1. q \in 1 .. n /\ q \in 1 .. n + 1
      BY <1>1, <1>5
    <3> QED BY <1>2, <3>1 DEF PlacesOf
  <2> QED BY <2>1
<1>7. \A p \in taken[r] : PlaceInLog(r, p)' = PlaceInLog(r, p) /\ printed'[r][p] = printed[r][p]
  BY <1>1, <1>2, <1>5, <1>6 DEF PlaceInLog
<1>8. k' = k
  BY DEF Log
<1>9. flow'[r] = "pending" => container'[r] = "none"
  BY <1>1 DEF Reading
<1>10. stage'[k] \in {"none", "mkdir", "open"} => taken'[r] = {}
  BY <1>1 DEF Reading
<1>11. ASSUME NEW p \in taken'[r]
       PROVE  /\ printed'[r][p].stream # "stderr"
              /\ \A q \in PlacesOf(r, "stdout")' : q < p => q \in taken'[r]
  <2>1. p \in taken[r] /\ p \in 1 .. n /\ printed'[r][p].stream = "stdout"
    BY <1>1, <1>5, <1>7
  <2>2. ASSUME NEW q \in PlacesOf(r, "stdout")', q < p PROVE q \in taken'[r]
    <3>1. q \in 1 .. n + 1
      BY <1>1, <1>2, <2>2 DEF PlacesOf
    <3>2. q \in 1 .. p
      BY <2>1, <2>2, <3>1
    <3>3. q \in PlacesOf(r, "stdout")
      BY <1>6, <2>1, <2>2, <3>2
    <3> QED BY <1>1, <2>1, <2>2, <3>3 DEF Reading
  <2> QED BY <2>1, <2>2
<1>12. consumed'[k] # <<NoSuchContainer>> =>
         /\ Len(consumed'[k]) = Cardinality(taken'[r])
         /\ \A i \in 1 .. Len(consumed'[k]) :
              \E p \in taken'[r] :
                consumed'[k][i] = printed'[r][p] /\ PlaceInLog(r, p)' = i
         /\ stage'[k] # "closed"
  BY <1>1, <1>3, <1>7 DEF Reading
<1> HIDE DEF k
<1> QED BY <1>8, <1>9, <1>10, <1>11, <1>12 DEF Reading, k


\* The entry a consumer takes is the next one of the log.
LEMMA NextPlace ==
  ASSUME ReadInv, NEW r \in Runs, NEW stream \in {"stdout", "stderr"},
         stream = "stderr" => Copied(r) /\ InPipe(r, "stdout") = {},
         NEW i \in InPipe(r, stream), \A j \in InPipe(r, stream) : i <= j
  PROVE  /\ Cardinality(taken[r] \cup {i}) = PlaceInLog(r, i)
         /\ Cardinality(taken[r] \cup {i}) = Cardinality(taken[r]) + 1
         /\ Cardinality(taken[r]) \in Nat
         /\ \A q \in PlacesOf(r, "stdout") :
              q < i \/ stream = "stderr" => q \in taken[r] \cup {i}
         /\ stream = "stderr" =>
              \A q \in PlacesOf(r, "stderr") : q < i => q \in taken[r] \cup {i}
<1> DEFINE n == Len(printed[r])
           out == PlacesOf(r, "stdout")
           err == PlacesOf(r, "stderr")
<1>1. /\ n \in Nat /\ copied[r] \in Nat /\ copied[r] <= n /\ taken[r] \subseteq 1 .. copied[r]
      /\ taken[r] \subseteq 1 .. n /\ Reading(r)
      /\ \A p \in 1 .. n : printed[r][p].stream \in {"stdout", "stderr"}
  BY PrintedFacts DEF ReadInv
<1>2. /\ i \in 1 .. copied[r] /\ i \in 1 .. n /\ i \notin taken[r]
      /\ printed[r][i].stream = stream
  BY <1>1 DEF InPipe
<1>3. \A q \in PlacesOf(r, stream) : q < i => q \in taken[r]
  <2> SUFFICES ASSUME NEW q \in PlacesOf(r, stream), q < i, q \notin taken[r] PROVE FALSE
    OBVIOUS
  <2>1. q \in 1 .. copied[r] /\ printed[r][q].stream = stream
    BY <1>1, <1>2 DEF PlacesOf
  <2>2. q \in InPipe(r, stream)
    BY <2>1 DEF InPipe
  <2> QED BY <1>1, <1>2, <2>1, <2>2
<1>4. IsFiniteSet(taken[r]) /\ IsFiniteSet(out) /\ IsFiniteSet(err)
  <2>1. IsFiniteSet(1 .. n)
    BY <1>1, FS_Interval
  <2>2. out \subseteq 1 .. n /\ err \subseteq 1 .. n
    BY DEF PlacesOf
  <2> QED BY <1>1, <2>1, <2>2, FS_Subset
<1>5. Cardinality(taken[r] \cup {i}) = Cardinality(taken[r]) + 1 /\ Cardinality(taken[r]) \in Nat
  BY <1>2, <1>4, FS_AddElement, FS_CardinalityType
<1>6. CASE stream = "stdout"
  <2>1. i \in out /\ i \notin err
    BY <1>2, <1>6 DEF PlacesOf
  <2>2. ASSUME NEW p \in taken[r] PROVE p \in out /\ p \in 1 .. i
    <3>1. p \in 1 .. n /\ p # i
      BY <1>1, <1>2
    <3>2. printed[r][p].stream = "stdout" /\ ~(i < p)
      BY <1>1, <1>2, <2>1, <2>2, <3>1 DEF Reading
    <3> QED BY <1>2, <3>1, <3>2 DEF PlacesOf
  <2>3. taken[r] \cup {i} = out \cap 1 .. i
    <3>1. ASSUME NEW q \in out \cap 1 .. i PROVE q \in taken[r] \cup {i}
      BY <1>2, <1>3, <1>6
    <3> QED BY <1>2, <2>1, <2>2, <3>1
  <2> QED BY <1>2, <1>3, <1>5, <1>6, <2>3 DEF PlaceInLog
<1>7. CASE stream = "stderr"
  <2>1. copied[r] = n
    BY <1>7 DEF Copied
  <2>2. out \subseteq taken[r]
    <3> SUFFICES ASSUME NEW q \in out, q \notin taken[r] PROVE FALSE
      OBVIOUS
    <3>1. q \in InPipe(r, "stdout")
      BY <2>1 DEF PlacesOf, InPipe
    <3> QED BY <1>7, <3>1
  <2>3. i \in err /\ i \notin out
    BY <1>2, <1>7 DEF PlacesOf
  <2>4. ASSUME NEW p \in taken[r] PROVE p \in out \/ p \in err \cap 1 .. i
    <3>1. p \in 1 .. n /\ p # i
      BY <1>1, <1>2
    <3>2. CASE printed[r][p].stream = "stdout"
      BY <3>1, <3>2 DEF PlacesOf
    <3>3. CASE printed[r][p].stream = "stderr"
      <4>1. ~(i < p)
        BY <1>1, <1>2, <2>3, <2>4, <3>3 DEF Reading
      <4> QED BY <1>2, <3>1, <3>3, <4>1 DEF PlacesOf
    <3> QED BY <1>1, <3>1, <3>2, <3>3
  <2>5. taken[r] \cup {i} = out \cup (err \cap 1 .. i)
    <3>1. ASSUME NEW q \in err \cap 1 .. i PROVE q \in taken[r] \cup {i}
      BY <1>2, <1>3, <1>7
    <3> QED BY <1>2, <2>2, <2>3, <2>4, <3>1
  <2>6. out \cap (err \cap 1 .. i) = {}
    BY DEF PlacesOf
  <2>7. IsFiniteSet(err \cap 1 .. i)
    BY <1>4, FS_Subset
  <2>8. Cardinality(out \cup (err \cap 1 .. i)) = Cardinality(out) + Cardinality(err \cap 1 .. i)
    <3> HIDE DEF out, err
    <3> DEFINE some == err \cap 1 .. i
    <3>1. IsFiniteSet(some) /\ out \cap some = {}
      BY <2>6, <2>7
    <3> HIDE DEF some
    <3>2. Cardinality(out \cup some) = Cardinality(out) + Cardinality(some) - Cardinality({})
      BY <1>4, <3>1, FS_Union
    <3>3. Cardinality({}) = 0 /\ Cardinality(out) \in Nat /\ Cardinality(some) \in Nat
      BY <1>4, <3>1, FS_EmptySet, FS_CardinalityType
    <3>4. Cardinality(out \cup some) = Cardinality(out) + Cardinality(some)
      BY <3>2, <3>3
    <3> QED BY <3>4 DEF some
  <2>9. Cardinality(taken[r] \cup {i}) = PlaceInLog(r, i)
    BY <1>2, <1>7, <2>5, <2>8 DEF PlaceInLog
  <2> QED BY <1>3, <1>5, <1>7, <2>2, <2>9
<1> QED BY <1>6, <1>7


\* What is taken goes to its place in the log.
LEMMA TakeReading ==
  ASSUME ReadInv, NEW r \in Runs, NEW stream \in {"stdout", "stderr"}, Take(r, stream),
         stream = "stderr" => Copied(r) /\ InPipe(r, "stdout") = {}
  PROVE  Reading(r)'
<1> DEFINE k == Log(r)
           n == Len(printed[r])
           m == Len(consumed[k])
<1>1. PICK i \in InPipe(r, stream) :
        /\ \A j \in InPipe(r, stream) : i <= j
        /\ taken' = [taken EXCEPT ![r] = @ \cup {i}]
        /\ consumed' = [consumed EXCEPT ![k] = Append(@, printed[r][i])]
  BY DEF Take
<1>2. /\ stage[k] = "writing" /\ consumed[k] # <<NoSuchContainer>>
      /\ UNCHANGED <<flow, container, printed, copied, stage, written>>
      /\ k \in Outputs
  BY OutputFacts DEF Take, Follows
<1>3. /\ Cardinality(taken[r] \cup {i}) = PlaceInLog(r, i)
      /\ Cardinality(taken[r] \cup {i}) = Cardinality(taken[r]) + 1
      /\ Cardinality(taken[r]) \in Nat
      /\ \A q \in PlacesOf(r, "stdout") : q < i \/ stream = "stderr" => q \in taken[r] \cup {i}
      /\ stream = "stderr" => \A q \in PlacesOf(r, "stderr") : q < i => q \in taken[r] \cup {i}
  BY <1>1, NextPlace
<1>4. taken'[r] = taken[r] \cup {i} /\ printed[r][i].stream = stream
  BY <1>1 DEF InPipe, ReadInv, Inv, OutTypeOK
<1>5. /\ consumed[k] \in Seq(Lines) /\ m \in Nat
      /\ consumed'[k] = Append(consumed[k], printed[r][i])
  BY <1>1, <1>2 DEF ReadInv, Inv, OutTypeOK
<1>6. /\ Len(consumed'[k]) = m + 1 /\ consumed'[k][m + 1] = printed[r][i]
      /\ \A j \in 1 .. m : consumed'[k][j] = consumed[k][j]
  <2>1. printed[r][i] \in Lines
    BY <1>1, PrintedFacts DEF InPipe, Lines, ReadInv
  <2> QED BY <1>5, <2>1
<1>7. Reading(r)
  BY DEF ReadInv
<1>8. /\ \A st : PlacesOf(r, st)' = PlacesOf(r, st)
      /\ \A p : PlaceInLog(r, p)' = PlaceInLog(r, p)
      /\ Copied(r)' = Copied(r) /\ k' = k
  BY <1>2 DEF PlaceInLog, PlacesOf, Copied, Log
<1>9. \A p \in taken'[r], q \in PlacesOf(r, "stdout")' :
        q < p \/ printed'[r][p].stream = "stderr" => q \in taken'[r]
  <2> TAKE p \in taken'[r], q \in PlacesOf(r, "stdout")'
  <2>1. CASE p = i
    BY <1>2, <1>3, <1>4, <1>8, <2>1
  <2>2. CASE p \in taken[r]
    BY <1>2, <1>4, <1>7, <1>8, <2>2 DEF Reading
  <2> QED BY <1>4, <2>1, <2>2
<1>10. \A p \in taken'[r] :
         printed'[r][p].stream = "stderr" =>
           /\ Copied(r)'
           /\ \A q \in PlacesOf(r, "stderr")' : q < p => q \in taken'[r]
  <2> TAKE p \in taken'[r]
  <2>1. CASE p = i
    BY <1>2, <1>3, <1>4, <1>8, <2>1
  <2>2. CASE p \in taken[r]
    BY <1>2, <1>4, <1>7, <1>8, <2>2 DEF Reading
  <2> QED BY <1>4, <2>1, <2>2
<1>11. m = Cardinality(taken[r])
  BY <1>2, <1>7 DEF Reading
<1>12. \A j \in 1 .. m + 1 :
         \E p \in taken'[r] : consumed'[k][j] = printed'[r][p] /\ PlaceInLog(r, p)' = j
  <2> TAKE j \in 1 .. m + 1
  <2>1. CASE j = m + 1
    BY <1>2, <1>3, <1>4, <1>6, <1>8, <1>11, <2>1
  <2>2. CASE j # m + 1
    <3>1. j \in 1 .. m
      BY <1>5, <2>2
    <3>2. \E p \in taken[r] : consumed[k][j] = printed[r][p] /\ PlaceInLog(r, p) = j
      BY <1>2, <1>7, <3>1 DEF Reading
    <3> QED BY <1>2, <1>4, <1>6, <1>8, <3>1, <3>2
  <2> QED BY <2>1, <2>2
<1>13. Len(consumed'[k]) = Cardinality(taken'[r])
  BY <1>3, <1>4, <1>6, <1>11
<1>14. /\ flow'[r] = "pending" => container'[r] = "none"
       /\ stage'[k] = "writing"
  BY <1>2, <1>7 DEF Reading
<1> HIDE DEF k, m, n
<1> QED BY <1>6, <1>8, <1>9, <1>10, <1>12, <1>13, <1>14 DEF Reading, k, m

\* What the other steps leave of a run.
LEMMA OtherReading ==
  ASSUME ReadInv, NEW r \in Runs, UNCHANGED <<printed[r], copied[r], taken[r], consumed[Log(r)]>>,
         \/ \E q \in Runs :
              \/ RunContainer(q) \/ RegisterRunListeners(q) \/ Exit(q) \/ RemoveContainer(q)
              \/ \E e \in LogEntries : Emit(q, e)
              \/ \E e \in MetricEntries : Sample(q, e)
              \/ Copy(q)
              \/ \E stream \in {"stdout", "stderr"} : Take(q, stream)
         \/ \E k \in Outputs : Consume(k)
         \/ DeleteExecutable \/ FlushAll \/ DeleteRow \/ Halt
         \/ UNCHANGED vars
  PROVE  Reading(r)'
<1> DEFINE k == Log(r)
<1>1. Reading(r) /\ k \in Outputs /\ RunOf(k) = r /\ OutTypeOK /\ Steady
  BY OutputFacts DEF ReadInv, Inv
<1>2. flow'[r] = "pending" => container'[r] = "none"
  <2>1. flow[r] = "pending" => container[r] = "none"
    BY <1>1 DEF Reading
  <2>2. \A q \in Runs :
          \/ RunContainer(q) \/ RegisterRunListeners(q) \/ Exit(q) \/ RemoveContainer(q)
          => (flow'[r] = "pending" => container'[r] = "none")
    BY <1>1, <2>1 DEF RunContainer, RegisterRunListeners, Exit, RemoveContainer, OutTypeOK
  <2>3. Halt \/ DeleteExecutable => (flow'[r] = "pending" => container'[r] = "none")
    BY <1>1, <2>1 DEF Halt, DeleteExecutable, OutTypeOK
  <2>4. \/ \E q \in Runs :
             RunContainer(q) \/ RegisterRunListeners(q) \/ Exit(q) \/ RemoveContainer(q)
        \/ Halt \/ DeleteExecutable
        \/ UNCHANGED <<flow, container>>
    BY DEF Emit, Sample, Copy, Take, Consume, EnsureDirectory, Open, WritePart, WriteLine,
           Finish, FlushAll, Unlink, RemoveDirectory, DeleteRow, vars
  <2> QED BY <2>1, <2>2, <2>3, <2>4
<1>3. container[r] \in {"exited", "removed"} => container'[r] \in {"exited", "removed"}
  <2>1. \A q \in Runs :
          RunContainer(q) \/ Exit(q) \/ RemoveContainer(q)
          => (container[r] \in {"exited", "removed"} => container'[r] \in {"exited", "removed"})
    BY <1>1 DEF RunContainer, Exit, RemoveContainer, OutTypeOK, Reading
  <2>2. DeleteExecutable
          => (container[r] \in {"exited", "removed"} => container'[r] \in {"exited", "removed"})
    BY <1>1 DEF DeleteExecutable, OutTypeOK
  <2>3. \/ \E q \in Runs : RunContainer(q) \/ Exit(q) \/ RemoveContainer(q)
        \/ DeleteExecutable
        \/ UNCHANGED container
    BY DEF RegisterRunListeners, Emit, Sample, Copy, Take, Consume, EnsureDirectory, Open,
           WritePart, WriteLine, Finish, FlushAll, Unlink, RemoveDirectory, DeleteRow, Halt,
           vars
  <2> QED BY <2>1, <2>2, <2>3
<1>4. Copied(r) => Copied(r)'
  BY <1>3 DEF Copied
<1>5. \/ stage'[k] \in {"none", "mkdir", "open"} => stage[k] \in {"none", "mkdir", "open"}
      \/ taken[r] = {}
  <2>1. \A q \in Runs : RegisterRunListeners(q)
          => (stage'[k] \in {"none", "mkdir", "open"} => stage[k] \in {"none", "mkdir", "open"})
    <3> TAKE q \in Runs
    <3> HAVE RegisterRunListeners(q)
    <3>1. CASE q = r
      BY <1>1, <3>1 DEF RegisterRunListeners, Steady
    <3>2. CASE q # r
      BY <1>1, <3>2 DEF RegisterRunListeners
    <3> QED BY <3>1, <3>2
  <2>2. \A j \in Outputs : Consume(j) \/ Halt
          => (stage'[k] \in {"none", "mkdir", "open"} => stage[k] \in {"none", "mkdir", "open"})
    BY <1>1 DEF Consume, EnsureDirectory, Open, WritePart, WriteLine, Finish, Halt, OutTypeOK
  <2>3. \/ \E q \in Runs : RegisterRunListeners(q)
        \/ \E j \in Outputs : Consume(j)
        \/ Halt
        \/ UNCHANGED stage
    BY DEF RunContainer, Exit, RemoveContainer, Emit, Sample, Copy, Take, FlushAll, Unlink,
           RemoveDirectory, DeleteRow, DeleteExecutable, vars
  <2> QED BY <1>1, <2>1, <2>2, <2>3
<1>6. stage'[k] \in {"none", "mkdir", "open"} => taken[r] = {}
  BY <1>1, <1>5 DEF Reading
<1>7. stage'[k] = "closed" /\ consumed[k] # <<NoSuchContainer>> =>
        Copied(r) /\ taken[r] = 1 .. copied[r] /\ written'[k] = Len(consumed[k])
  <2> HAVE stage'[k] = "closed" /\ consumed[k] # <<NoSuchContainer>>
  <2>1. CASE Finish(k)
    <3>1. Provider(k) = "log" /\ written'[k] = Len(consumed[k]) /\ Ended(k)
      BY <2>1 DEF Finish, Log, Provider
    <3> QED BY <1>1, <3>1 DEF Ended
  <2>2. CASE ~Finish(k)
    <3>1. stage[k] = "closed"
      <4>1. \A q \in Runs : RegisterRunListeners(q) => stage[k] = "closed"
        BY <1>1 DEF RegisterRunListeners
      <4>2. \A j \in Outputs : Consume(j) \/ Halt => stage[k] = "closed"
        BY <1>1, <2>2 DEF Consume, EnsureDirectory, Open, WritePart, WriteLine, Finish, Halt,
                          OutTypeOK
      <4>3. \/ \E q \in Runs : RegisterRunListeners(q)
            \/ \E j \in Outputs : Consume(j)
            \/ Halt
            \/ UNCHANGED stage
        BY DEF RunContainer, Exit, RemoveContainer, Emit, Sample, Copy, Take, FlushAll, Unlink,
               RemoveDirectory, DeleteRow, DeleteExecutable, vars
      <4> QED BY <1>1, <4>1, <4>2, <4>3
    <3>2. Copied(r) /\ taken[r] = 1 .. copied[r] /\ written[k] = Len(consumed[k])
      BY <1>1, <3>1 DEF Reading
    <3>3. written'[k] = written[k]
      <4>1. \A j \in Outputs : Consume(j) => written'[k] = written[k]
        BY <1>1, <3>1 DEF Consume, EnsureDirectory, Open, Halt, WritePart, WriteLine, Finish,
                          OutTypeOK
      <4>2. UNCHANGED written \/ \E j \in Outputs : Consume(j)
        BY DEF RunContainer, RegisterRunListeners, Exit, RemoveContainer, Emit, Sample, Copy,
               Take, FlushAll, Unlink, RemoveDirectory, DeleteRow, DeleteExecutable, Halt, vars
      <4> QED BY <4>1, <4>2
    <3> QED BY <3>2, <3>3
  <2> QED BY <2>1, <2>2
<1> QED BY <1>1, <1>2, <1>4, <1>6, <1>7, ReadingKept


\* docker logs copies only while the container may still print, or before it has
\* copied all: nothing of stderr is taken then.
LEMMA CopyReading ==
  ASSUME ReadInv, NEW r \in Runs, Copy(r) PROVE Reading(r)'
<1> DEFINE k == Log(r)
<1>1. /\ stage[k] = "writing" /\ ~Copied(r) /\ Reading(r)
      /\ UNCHANGED <<flow, container, printed, taken, stage, consumed, written>>
  BY DEF Copy, Follows, Copied, ReadInv
<1>2. /\ \A st : PlacesOf(r, st)' = PlacesOf(r, st)
      /\ \A p : PlaceInLog(r, p)' = PlaceInLog(r, p)
      /\ k' = k
  BY <1>1 DEF PlaceInLog, PlacesOf, Log
<1>3. \A p \in taken[r] : printed[r][p].stream # "stderr"
  BY <1>1 DEF Reading
<1> HIDE DEF k
<1>4. Reading(r)' <=>
        /\ flow[r] = "pending" => container[r] = "none"
        /\ stage[k] \in {"none", "mkdir", "open"} => taken[r] = {}
        /\ \A p \in taken[r], q \in PlacesOf(r, "stdout") :
             q < p \/ printed[r][p].stream = "stderr" => q \in taken[r]
        /\ \A p \in taken[r] :
             printed[r][p].stream = "stderr" =>
               /\ Copied(r)'
               /\ \A q \in PlacesOf(r, "stderr") : q < p => q \in taken[r]
        /\ consumed[k] # <<NoSuchContainer>> =>
             /\ Len(consumed[k]) = Cardinality(taken[r])
             /\ \A i \in 1 .. Len(consumed[k]) :
                  \E p \in taken[r] :
                    consumed[k][i] = printed[r][p] /\ PlaceInLog(r, p) = i
             /\ stage[k] = "closed" =>
                  Copied(r)' /\ taken[r] = 1 .. copied'[r] /\ written[k] = Len(consumed[k])
  BY <1>1, <1>2 DEF Reading, k
<1> QED BY <1>1, <1>3, <1>4 DEF Reading, k

\* Every step keeps the order.
LEMMA NextReading == ASSUME ReadInv, [Next]_vars PROVE ReadInv'
<1>1. Inv'
  BY NextInv DEF ReadInv
<1>2. ASSUME NEW r \in Runs PROVE Reading(r)'
  <2> DEFINE Other ==
        \/ \E q \in Runs :
             \/ RunContainer(q) \/ RegisterRunListeners(q) \/ Exit(q) \/ RemoveContainer(q)
             \/ \E e \in LogEntries : Emit(q, e)
             \/ \E e \in MetricEntries : Sample(q, e)
             \/ Copy(q)
             \/ \E stream \in {"stdout", "stderr"} : Take(q, stream)
        \/ \E k \in Outputs : Consume(k)
        \/ DeleteExecutable \/ FlushAll \/ DeleteRow \/ Halt
        \/ UNCHANGED vars
  <2>1. Other
    BY DEF Next, Follow, TakeStdout, TakeStderr
  <2>2. CASE \E e \in LogEntries : Emit(r, e)
    BY <2>2, EmitReading
  <2>3. CASE Copy(r)
    BY <2>3, CopyReading
  <2>4. CASE TakeStdout(r) \/ TakeStderr(r)
    BY <2>4, TakeReading DEF TakeStdout, TakeStderr
  <2>5. CASE \E k \in Outputs : Open(k)
    <3>1. PICK k \in Outputs : Open(k)
      BY <2>5
    <3>2. UNCHANGED <<printed, copied, taken>>
      BY <3>1 DEF Open, Halt
    <3>3. CASE k # Log(r) \/ Halt
      <4>1. UNCHANGED consumed[Log(r)]
        <5>1. CASE Halt
          BY <5>1 DEF Halt
        <5>2. CASE k # Log(r) /\ ~Halt
          BY <3>1, <5>2, OutputFacts DEF Open, ReadInv, Inv, OutTypeOK
        <5> QED BY <3>3, <5>1, <5>2
      <4> QED BY <3>2, <2>1, <4>1, OtherReading
    <3>4. CASE k = Log(r) /\ ~Halt
      <4>1. /\ stage[k] = "open" /\ stage'[k] = "writing"
            /\ UNCHANGED <<flow, container, written>>
            /\ consumed'[k] \in {<<NoSuchContainer>>, <<>>}
            /\ taken[r] = {} /\ Reading(r)
        BY <3>1, <3>4 DEF Open, ReadInv, Reading, Inv, OutTypeOK
      <4>2. Cardinality(taken'[r]) = 0 /\ taken'[r] = {}
        BY <3>2, <4>1, FS_EmptySet
      <4>3. Log(r)' = k
        BY <3>4 DEF Log
      <4>4. consumed'[k] # <<NoSuchContainer>> => Len(consumed'[k]) = 0
        BY <4>1
      <4> QED BY <4>1, <4>2, <4>3, <4>4 DEF Reading
    <3> QED BY <3>3, <3>4
  <2>6. CASE /\ ~\E e \in LogEntries : Emit(r, e)
             /\ ~Copy(r) /\ ~TakeStdout(r) /\ ~TakeStderr(r)
             /\ ~\E k \in Outputs : Open(k)
    <3>1. UNCHANGED <<printed[r], copied[r], taken[r], consumed[Log(r)]>>
      <4>1. CASE \E q \in Runs : \E e \in LogEntries : Emit(q, e)
        BY <2>6, <4>1 DEF Emit, ReadInv, Inv, OutTypeOK
      <4>2. CASE \E q \in Runs : Copy(q)
        BY <2>6, <4>2 DEF Copy, ReadInv, Inv, OutTypeOK
      <4>3. CASE \E q \in Runs : TakeStdout(q) \/ TakeStderr(q)
        <5>1. PICK q \in Runs : q # r /\ (TakeStdout(q) \/ TakeStderr(q))
          BY <2>6, <4>3
        <5>2. Log(q) # Log(r)
          BY <5>1 DEF Log
        <5>3. PICK stream \in {"stdout", "stderr"} : Take(q, stream)
          BY <5>1 DEF TakeStdout, TakeStderr
        <5>4. UNCHANGED <<printed, copied>>
          BY <5>3 DEF Take
        <5>5. PICK i \in InPipe(q, stream) :
                /\ taken' = [taken EXCEPT ![q] = @ \cup {i}]
                /\ consumed' = [consumed EXCEPT ![Log(q)] = Append(@, printed[q][i])]
          BY <5>3 DEF Take
        <5>6. UNCHANGED taken[r]
          BY <5>1, <5>5 DEF ReadInv, Inv, OutTypeOK
        <5>7. UNCHANGED consumed[Log(r)]
          BY <5>2, <5>5, OutputFacts DEF ReadInv, Inv, OutTypeOK
        <5> QED BY <5>4, <5>6, <5>7
      <4>4. CASE \E q \in Runs, e \in MetricEntries : Sample(q, e)
        <5>1. PICK q \in Runs, e \in MetricEntries : Sample(q, e)
          BY <4>4
        <5>2. <<"metric", q>> # Log(r)
          BY DEF Log
        <5> QED BY <5>1, <5>2 DEF Sample, ReadInv, Inv, OutTypeOK
      <4>5. CASE UNCHANGED <<printed, copied, taken, consumed>>
        BY <4>5
      <4>6. \/ \E q \in Runs : \E e \in LogEntries : Emit(q, e)
            \/ \E q \in Runs : Copy(q)
            \/ \E q \in Runs : TakeStdout(q) \/ TakeStderr(q)
            \/ \E q \in Runs, e \in MetricEntries : Sample(q, e)
            \/ UNCHANGED <<printed, copied, taken, consumed>>
        BY <2>6 DEF Next, Follow, Consume, RunContainer, RegisterRunListeners, Exit,
                    RemoveContainer, EnsureDirectory, WritePart, WriteLine, Finish,
                    DeleteExecutable, FlushAll, Unlink, RemoveDirectory, DeleteRow, Halt, vars
      <4> QED BY <4>1, <4>2, <4>3, <4>4, <4>5, <4>6
    <3> QED BY <2>1, <3>1, OtherReading
  <2> QED BY <2>2, <2>3, <2>4, <2>5, <2>6
<1> QED BY <1>1, <1>2 DEF ReadInv

\* The order of what was consumed is that of what is written of it.
LEMMA ReadingOrders == ASSUME ReadInv PROVE LogIsComplete
<1> SUFFICES ASSUME NEW r \in Runs, consumed[Log(r)] # <<NoSuchContainer>>
             PROVE  /\ \A i \in 1 .. written[Log(r)] :
                         \E p \in 1 .. Len(printed[r]) :
                           /\ consumed[Log(r)][i] = printed[r][p] /\ PlaceInLog(r, p) = i
                           /\ printed[r][p].stream = "stderr" => Copied(r)
                    /\ stage[Log(r)] = "closed" => written[Log(r)] = Len(printed[r])
  BY DEF LogIsComplete
<1> DEFINE k == Log(r)
<1>1. /\ k \in Outputs /\ Reading(r) /\ written[k] \in Nat /\ Len(consumed[k]) \in Nat
      /\ written[k] <= Len(consumed[k])
      /\ taken[r] \subseteq 1 .. Len(printed[r]) /\ Len(printed[r]) \in Nat
  <2>1. k \in Outputs /\ Reading(r)
    BY OutputFacts DEF ReadInv
  <2>2. written[k] \in Nat /\ consumed[k] \in Seq(Lines) /\ written[k] <= Len(consumed[k])
    BY <2>1 DEF ReadInv, Inv, OutTypeOK
  <2>3. taken[r] \subseteq 1 .. Len(printed[r]) /\ Len(printed[r]) \in Nat
    BY PrintedFacts DEF ReadInv
  <2> QED BY <2>1, <2>2, <2>3
<1>2. ASSUME NEW i \in 1 .. written[k]
      PROVE  \E p \in 1 .. Len(printed[r]) :
               /\ consumed[k][i] = printed[r][p] /\ PlaceInLog(r, p) = i
               /\ printed[r][p].stream = "stderr" => Copied(r)
  <2>1. i \in 1 .. Len(consumed[k])
    BY <1>1
  <2>2. PICK p \in taken[r] : consumed[k][i] = printed[r][p] /\ PlaceInLog(r, p) = i
    BY <1>1, <2>1 DEF Reading
  <2> QED BY <1>1, <2>2 DEF Reading
<1>3. ASSUME stage[k] = "closed" PROVE written[k] = Len(printed[r])
  <2>1. copied[r] = Len(printed[r]) /\ taken[r] = 1 .. copied[r] /\ written[k] = Len(consumed[k])
        /\ Len(consumed[k]) = Cardinality(taken[r])
    BY <1>1, <1>3 DEF Reading, Copied
  <2>2. Cardinality(1 .. Len(printed[r])) = Len(printed[r])
    BY <1>1, FS_Interval
  <2> QED BY <2>1, <2>2
<1> QED BY <1>2, <1>3

\* The log has all of stdout and then all of stderr, in their order, up to where it is
\* written, and all of both once it is closed, for any number of runs, entries and
\* sizes of pipes, whatever prints, stops, deletes and ends meanwhile (logs,
\* consumeLogGenerator, registerRunListeners).
THEOREM OutputLogIsComplete == Spec => []LogIsComplete
<1>1. Init => ReadInv
  BY InitReading
<1>2. ReadInv /\ [Next]_vars => ReadInv'
  BY NextReading
<1>3. ReadInv => LogIsComplete
  BY ReadingOrders
<1> QED BY <1>1, <1>2, <1>3, PTL DEF Spec
=============================================================================
