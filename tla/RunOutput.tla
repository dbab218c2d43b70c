------------------------------- MODULE RunOutput -------------------------------
(***************************************************************************)
(* The output of the runs of one task: TaskRunService.registerRunListeners *)
(* and flushAll (src/plugins/task/task-run.service.ts), the consumers of   *)
(* the file providers of logs and metrics (src/workdir/contract/log and    *)
(* .../metric), and the generators of a container's handle                 *)
(* (docker-env-handle.ts).                                                 *)
(*                                                                         *)
(* A container prints; `docker logs` copies what it prints, in that order, *)
(* to the pipes of stdout and of stderr, which hold PipeSize entries; the  *)
(* consumer reads all of stdout and then all of stderr, and writes a line  *)
(* for each entry.  A delete of the task removes the files meanwhile.      *)
(* What a consumer has read is `consumed`; the file is its first `written` *)
(* entries and, if `half`, a part of the next one.  To who reads it, that  *)
(* is an OutputFile.                                                       *)
(***************************************************************************)
EXTENDS Naturals, Sequences, FiniteSets

CONSTANTS Runs,
          LogEntries,     \* what a container prints, to stdout and to stderr
          MetricEntries,  \* what docker stats samples
          PipeSize,       \* entries that a pipe of the child process holds
          MaxPrinted,     \* bound: entries a container prints
          MaxSamples      \* bound: samples of a run

Providers == {"log", "metric"}
Outputs == Providers \X Runs
Provider(k) == k[1]
RunOf(k) == k[2]
Log(r) == <<"log", r>>

\* What docker logs says itself, on stderr, of a container that is no more.
NoSuchContainer == [stream |-> "docker", text |-> 0]
Lines == LogEntries \cup MetricEntries \cup {NoSuchContainer}

ASSUME OutputAssumption ==
  /\ LogEntries \subseteq [stream : {"stdout", "stderr"}, text : Nat]
  /\ MetricEntries \subseteq [stream : {"stats"}, text : Nat]
  /\ PipeSize \in Nat \ {0} /\ MaxPrinted \in Nat /\ MaxSamples \in Nat

VARIABLES rows,       \* ids in table task_runs
          flow,       \* per run: where runTask is
          container,  \* per run: what docker has of it
          printed,    \* per run: what its container printed
          copied,     \* per run: how much of that docker logs put into its pipes
          taken,      \* per run: which of that the consumer took out of them
          stage,      \* per output: what its consumer awaits
          consumed, written, half,
          dirs,       \* providers whose directory of the task exists
          linked,     \* outputs whose file is in its directory
          deleting    \* the delete of the task

vars == <<rows, flow, container, printed, copied, taken, stage, consumed, written,
          half, dirs, linked, deleting>>

Init ==
  /\ rows = Runs /\ flow = [r \in Runs |-> "pending"]
  /\ container = [r \in Runs |-> "none"] /\ printed = [r \in Runs |-> <<>>]
  /\ copied = [r \in Runs |-> 0] /\ taken = [r \in Runs |-> {}]
  /\ stage = [k \in Outputs |-> "none"] /\ consumed = [k \in Outputs |-> <<>>]
  /\ written = [k \in Outputs |-> 0] /\ half = [k \in Outputs |-> FALSE]
  /\ dirs = {} /\ linked = {} /\ deleting = "no"

-----------------------------------------------------------------------------
(* The container and docker logs *)

\* runTaskImpl: docker run.  The task is active while nobody deletes it.
RunContainer(r) ==
  /\ flow[r] = "pending" /\ deleting = "no"
  /\ flow' = [flow EXCEPT ![r] = "start"]
  /\ container' = [container EXCEPT ![r] = "up"]
  /\ UNCHANGED <<rows, printed, copied, taken, stage, consumed, written, half, dirs,
                 linked, deleting>>

Emit(r, e) ==
  /\ container[r] = "up" /\ Len(printed[r]) < MaxPrinted
  /\ printed' = [printed EXCEPT ![r] = Append(@, e)]
  /\ UNCHANGED <<rows, flow, container, copied, taken, stage, consumed, written, half,
                 dirs, linked, deleting>>

Exit(r) ==
  /\ container[r] = "up"
  /\ container' = [container EXCEPT ![r] = "exited"]
  /\ UNCHANGED <<rows, flow, printed, copied, taken, stage, consumed, written, half,
                 dirs, linked, deleting>>

\* What is in the pipe of a stream: places in what the container printed.
InPipe(r, stream) ==
  {i \in 1 .. copied[r] : i \notin taken[r] /\ printed[r][i].stream = stream}

\* Whether docker logs is at the container's output, and not at its absence.
Follows(r) == stage[Log(r)] = "writing" /\ consumed[Log(r)] # <<NoSuchContainer>>

\* One process copies both streams: a full pipe stops it for both.
Copy(r) ==
  /\ Follows(r) /\ copied[r] < Len(printed[r])
  /\ Cardinality(InPipe(r, printed[r][copied[r] + 1].stream)) < PipeSize
  /\ copied' = [copied EXCEPT ![r] = @ + 1]
  /\ UNCHANGED <<rows, flow, container, printed, taken, stage, consumed, written, half,
                 dirs, linked, deleting>>

\* docker logs ends: both pipes are closed.
Copied(r) == container[r] \in {"exited", "removed"} /\ copied[r] = Len(printed[r])

-----------------------------------------------------------------------------
(* registerRunListeners, consumeLogGenerator, consumeMetricGenerator *)

\* Mutant of RegisterRunListeners: the consumer of metrics is forgotten.
RegisterLogListener(r) ==
  /\ flow[r] = "start"
  /\ flow' = [flow EXCEPT ![r] = "wait"]
  /\ stage' = [stage EXCEPT ![Log(r)] = "mkdir"]
  /\ UNCHANGED <<rows, container, printed, copied, taken, consumed, written, half, dirs,
                 linked, deleting>>

\* After the update of the row both consumers run to their first await, mkdir.
RegisterRunListeners(r) ==
  /\ flow[r] = "start"
  /\ flow' = [flow EXCEPT ![r] = "wait"]
  /\ stage' = [k \in Outputs |-> IF RunOf(k) = r THEN "mkdir" ELSE stage[k]]
  /\ UNCHANGED <<rows, container, printed, copied, taken, consumed, written, half, dirs,
                 linked, deleting>>

EnsureDirectory(k) ==
  /\ stage[k] = "mkdir"
  /\ dirs' = dirs \cup {Provider(k)}
  /\ stage' = [stage EXCEPT ![k] = "open"]
  /\ UNCHANGED <<rows, flow, container, printed, copied, taken, consumed, written, half,
                 linked, deleting>>

\* The process ends: flows and consumers with it; files, containers and rows stay.
Halt ==
  /\ flow' = [r \in Runs |-> IF flow[r] \in {"start", "wait"} THEN "lost" ELSE flow[r]]
  /\ stage' = [k \in Outputs |-> IF stage[k] \in {"mkdir", "open", "writing"}
                                   THEN "lost" ELSE stage[k]]
  /\ deleting' = IF deleting \in {"no", "done"} THEN deleting ELSE "failed"
  /\ UNCHANGED <<rows, container, printed, copied, taken, consumed, written, half, dirs,
                 linked>>

\* createWriteStream, and the start of docker logs or docker stats.  If the
\* directory is gone again, the stream's 'error' has no listener yet.
Open(k) ==
  /\ stage[k] = "open"
  /\ \/ /\ Provider(k) \in dirs
        /\ linked' = linked \cup {k}
        /\ stage' = [stage EXCEPT ![k] = "writing"]
        /\ consumed' = [consumed EXCEPT ![k] =
             IF Provider(k) = "log" /\ container[RunOf(k)] = "removed"
               THEN <<NoSuchContainer>> ELSE <<>>]
        /\ UNCHANGED <<rows, flow, container, printed, copied, taken, written, half,
                       dirs, deleting>>
     \/ Provider(k) \notin dirs /\ Halt

\* The first entry in a pipe.
Take(r, stream) ==
  /\ Follows(r)
  /\ \E i \in InPipe(r, stream) :
       /\ \A j \in InPipe(r, stream) : i <= j
       /\ taken' = [taken EXCEPT ![r] = @ \cup {i}]
       /\ consumed' = [consumed EXCEPT ![Log(r)] = Append(@, printed[r][i])]
  /\ UNCHANGED <<rows, flow, container, printed, copied, stage, written, half, dirs,
                 linked, deleting>>

\* logs(): stdout until its end, then stderr.
TakeStdout(r) == Take(r, "stdout")

\* Mutant of TakeStderr: both streams are read as they come.
TakeStderrAtOnce(r) == Take(r, "stderr")

TakeStderr(r) == Copied(r) /\ InPipe(r, "stdout") = {} /\ Take(r, "stderr")

\* metricsContinuous: docker stats samples while the container is up.
Sample(r, e) ==
  LET k == <<"metric", r>>
  IN  /\ stage[k] = "writing" /\ container[r] = "up"
      /\ Len(consumed[k]) < MaxSamples
      /\ consumed' = [consumed EXCEPT ![k] = Append(@, e)]
      /\ UNCHANGED <<rows, flow, container, printed, copied, taken, stage, written, half,
                     dirs, linked, deleting>>

\* The stream writes in order; a reader may see a part of a line.
WritePart(k) ==
  /\ stage[k] = "writing" /\ written[k] < Len(consumed[k]) /\ ~half[k]
  /\ half' = [half EXCEPT ![k] = TRUE]
  /\ UNCHANGED <<rows, flow, container, printed, copied, taken, stage, consumed, written,
                 dirs, linked, deleting>>

WriteLine(k) ==
  /\ stage[k] = "writing" /\ written[k] < Len(consumed[k])
  /\ written' = [written EXCEPT ![k] = @ + 1]
  /\ half' = [half EXCEPT ![k] = FALSE]
  /\ UNCHANGED <<rows, flow, container, printed, copied, taken, stage, consumed, dirs,
                 linked, deleting>>

\* Mutant of Ended: the log of a container that says nothing has no end.
EndedWithEntries(k) ==
  LET r == RunOf(k)
  IN  IF Provider(k) = "metric" THEN container[r] # "up"
      ELSE consumed[k] # <<>> /\ Copied(r) /\ taken[r] = 1 .. copied[r]

\* The generator is at its end.
Ended(k) ==
  LET r == RunOf(k)
  IN  IF Provider(k) = "metric" THEN container[r] # "up"
      ELSE consumed[k] = <<NoSuchContainer>> \/ (Copied(r) /\ taken[r] = 1 .. copied[r])

\* Mutant of Finish: nobody waits for the stream.
FinishUnwritten(k) ==
  /\ stage[k] = "writing" /\ Ended(k)
  /\ stage' = [stage EXCEPT ![k] = "closed"]
  /\ UNCHANGED <<rows, flow, container, printed, copied, taken, consumed, written, half,
                 dirs, linked, deleting>>

\* end and waitStreamFinished.
Finish(k) ==
  /\ stage[k] = "writing" /\ Ended(k) /\ written[k] = Len(consumed[k])
  /\ stage' = [stage EXCEPT ![k] = "closed"]
  /\ UNCHANGED <<rows, flow, container, printed, copied, taken, consumed, written, half,
                 dirs, linked, deleting>>

\* runTaskImpl: the container has exited and is deleted; nobody waits for the
\* consumers of its output.
RemoveContainer(r) ==
  /\ flow[r] = "wait" /\ container[r] # "up"
  /\ flow' = [flow EXCEPT ![r] = "done"]
  /\ container' = [container EXCEPT ![r] = "removed"]
  /\ UNCHANGED <<rows, printed, copied, taken, stage, consumed, written, half, dirs,
                 linked, deleting>>

-----------------------------------------------------------------------------
(* deleteTask: deleteExecutable, flushAll and the delete of the row *)

\* The containers that deleteExecutable lists are removed.
DeleteExecutable ==
  /\ deleting \in {"no", "failed"}
  /\ deleting' = "unlinkLog"
  /\ \E listed \in SUBSET {r \in Runs : container[r] # "none"} :
       container' = [r \in Runs |-> IF r \in listed THEN "removed" ELSE container[r]]
  /\ UNCHANGED <<rows, flow, printed, copied, taken, stage, consumed, written, half, dirs,
                 linked>>

\* rmRecursiveSafe: the files of the directory, then the directory, which a
\* consumer may have filled again.  What is missing is no error.
Unlink(p, here, next) ==
  /\ deleting = here
  /\ linked' = {k \in linked : Provider(k) # p}
  /\ deleting' = next
  /\ UNCHANGED <<rows, flow, container, printed, copied, taken, stage, consumed, written,
                 half, dirs>>

RemoveDirectory(p, here, next) ==
  /\ deleting = here
  /\ IF \E k \in linked : Provider(k) = p
       THEN deleting' = "failed" /\ UNCHANGED dirs
       ELSE deleting' = next /\ dirs' = dirs \ {p}
  /\ UNCHANGED <<rows, flow, container, printed, copied, taken, stage, consumed, written,
                 half, linked>>

FlushAll ==
  \/ Unlink("log", "unlinkLog", "rmdirLog")
  \/ RemoveDirectory("log", "rmdirLog", "unlinkMetric")
  \/ Unlink("metric", "unlinkMetric", "rmdirMetric")
  \/ RemoveDirectory("metric", "rmdirMetric", "deleteRow")

\* The rows of the runs go by cascade.
DeleteRow ==
  /\ deleting = "deleteRow"
  /\ deleting' = "done" /\ rows' = {}
  /\ UNCHANGED <<flow, container, printed, copied, taken, stage, consumed, written, half,
                 dirs, linked>>

-----------------------------------------------------------------------------
Consume(k) == EnsureDirectory(k) \/ Open(k) \/ WritePart(k) \/ WriteLine(k) \/ Finish(k)
Follow(r) == Copy(r) \/ TakeStdout(r) \/ TakeStderr(r)

Next ==
  \/ \E r \in Runs :
       \/ RunContainer(r) \/ RegisterRunListeners(r) \/ Exit(r) \/ RemoveContainer(r)
       \/ \E e \in LogEntries : Emit(r, e)
       \/ \E e \in MetricEntries : Sample(r, e)
       \/ Follow(r)
  \/ \E k \in Outputs : Consume(k)
  \/ DeleteExecutable \/ FlushAll \/ DeleteRow \/ Halt

Spec == Init /\ [][Next]_vars

\* docker logs and the consumers go on as long as they can; nothing else must.
FairSpec ==
  /\ Spec
  /\ \A r \in Runs : WF_vars(Follow(r))
  /\ \A k \in Outputs : WF_vars(EnsureDirectory(k)) /\ WF_vars(Open(k))
                        /\ WF_vars(WriteLine(k)) /\ WF_vars(Finish(k))

-----------------------------------------------------------------------------
\* Type invariant: what there is, where it is, and how far everybody is.  Both
\* consumers of a run begin as it is registered, not before, and what they have
\* closed is written to the end.
OutTypeOK ==
  /\ rows \subseteq Runs /\ dirs \subseteq Providers /\ linked \subseteq Outputs
  /\ flow \in [Runs -> {"pending", "start", "wait", "done", "lost"}]
  /\ container \in [Runs -> {"none", "up", "exited", "removed"}]
  /\ printed \in [Runs -> Seq(LogEntries)] /\ copied \in [Runs -> Nat]
  /\ taken \in [Runs -> SUBSET Nat]
  /\ \A r \in Runs : copied[r] <= Len(printed[r]) /\ taken[r] \subseteq 1 .. copied[r]
  /\ stage \in [Outputs -> {"none", "mkdir", "open", "writing", "closed", "lost"}]
  /\ consumed \in [Outputs -> Seq(Lines)] /\ written \in [Outputs -> Nat]
  /\ half \in [Outputs -> BOOLEAN]
  /\ \A k \in Outputs :
       /\ flow[RunOf(k)] \in {"pending", "start"} => stage[k] = "none"
       /\ flow[RunOf(k)] \in {"wait", "done"} => stage[k] # "none"
       /\ written[k] <= Len(consumed[k])
       /\ stage[k] = "closed" => written[k] = Len(consumed[k])
  /\ deleting \in {"no", "unlinkLog", "rmdirLog", "unlinkMetric", "rmdirMetric",
                  "deleteRow", "done", "failed"}

\* Where the entries of a stream are in what a container printed.
PlacesOf(r, stream) == {p \in 1 .. Len(printed[r]) : printed[r][p].stream = stream}

\* Where an entry that was printed belongs in the log: stdout first, then stderr,
\* each in its order.
PlaceInLog(r, p) ==
  IF printed[r][p].stream = "stdout"
    THEN Cardinality(PlacesOf(r, "stdout") \cap 1 .. p)
    ELSE Cardinality(PlacesOf(r, "stdout")) + Cardinality(PlacesOf(r, "stderr") \cap 1 .. p)

\* The log of a container that was there to be followed has what was printed to
\* stdout and then what was printed to stderr, each from its first entry on and in
\* its order, whoever prints, stops or deletes meanwhile; nothing of stderr before
\* all that the container will ever print is known.  Once its consumer has closed
\* it, every entry is there.
LogIsComplete ==
  \A r \in Runs :
    LET k == Log(r)
    IN  consumed[k] # <<NoSuchContainer>> =>
          /\ \A i \in 1 .. written[k] :
               \E p \in 1 .. Len(printed[r]) :
                 /\ consumed[k][i] = printed[r][p] /\ PlaceInLog(r, p) = i
                 /\ printed[r][p].stream = "stderr" => Copied(r)
          /\ stage[k] = "closed" => written[k] = Len(printed[r])

\* The lines of a file, whole ones.
Written(k) == SubSeq(consumed[k], 1, written[k])

\* To a search, the file of an output is one that grows by whole lines, is made
\* once and is never written after it was closed, whatever consumers, deletes and
\* ends of the process do to it.
File ==
  INSTANCE OutputFile WITH Entries <- Lines,
    lines <- [k \in Outputs |-> Written(k)],
    ended <- [k \in Outputs |-> IF stage[k] \in {"closed", "lost"} THEN stage[k] ELSE "no"],
    listed <- {k \in Outputs : RunOf(k) \in rows}
ImplementsOutputFile == File!FileSpec

\* "Every piece of output of every run will be available" (README.md): the consumer
\* of a container that has exited comes to its end, unless the server does.
EveryLogCloses ==
  \A r \in Runs :
    (stage[Log(r)] = "writing" /\ container[r] # "up")
      ~> stage[Log(r)] \in {"closed", "lost"}

\* As logs() reads stdout to its end first, that needs what the container prints to
\* stderr to fit in a pipe.
FittingLogCloses ==
  \A r \in Runs :
    (/\ stage[Log(r)] = "writing" /\ container[r] # "up"
     /\ Cardinality(PlacesOf(r, "stderr")) <= PipeSize)
      ~> stage[Log(r)] \in {"closed", "lost"}
=============================================================================
