------------------------------- MODULE RunSearch -------------------------------
(***************************************************************************)
(* searchLogs, searchMetrics and aggregateMetrics of TaskRunService         *)
(* (src/plugins/task/task-run.service.ts), the searches of the file         *)
(* providers, their paginator (src/lib/paging.utils.ts) and the             *)
(* accumulators of metrics (src/workdir/contract/metric).                   *)
(*                                                                         *)
(* A search looks up the row of the run, opens the file and reads it line   *)
(* by line, while the file grows, is given up or is removed (OutputFile).   *)
(***************************************************************************)
EXTENDS OutputFile, Integers, FiniteSets, Functions

CONSTANTS Searches,       \* requests that may be under way at once
          Values,         \* numbers in an entry, in the attribute asked for
          NoValue,        \* the entry lacks that attribute
          Infinity,       \* above all of them
          Queries,        \* what is asked for
          MaxPageSize,    \* 1_000 in the code
          MaxLines,       \* bound: lines of a file
          NoQuery, NoOutput

\* An entry is one that the search looks for, or not: its dates and its term.
Entry == [match : BOOLEAN, value : Values \cup {NoValue}]
\* A request names a task, of which the run is, or is not.
Query == [op : {"page", "aggregate"}, from : Int, pageSize : Int, ofTask : BOOLEAN]

ASSUME SearchAssumption ==
  /\ Outputs \subseteq {"log", "metric"} \X Nat
  /\ Entries \subseteq Entry
  /\ Values \subseteq Int /\ NoValue \notin Values
  /\ Infinity \in Nat /\ \A v \in Values : -Infinity < v /\ v < Infinity
  /\ Queries \subseteq Query /\ NoQuery \notin Query /\ NoOutput \notin Outputs
  /\ MaxPageSize \in Nat \ {0} /\ MaxLines \in Nat

VARIABLES phase,          \* per search: what it awaits
          query, output,
          began,          \* per search: lines the file had when it was opened
          pos,            \* per search: lines it has read
          matchedCounter,
          page,           \* per search: matchedEntries, as places in the file
          acc             \* per search: the accumulator of the attribute

searchVars == <<phase, query, output, began, pos, matchedCounter, page, acc>>
vars == <<fileVars, searchVars>>

\* The aggregators of an attribute.  That of `std` keeps the values themselves.
Acc == [max : Int, min : Int, sum : Int, cnt : Nat, values : Seq(Int)]
EmptyAcc == [max |-> -Infinity, min |-> Infinity, sum |-> 0, cnt |-> 0, values |-> <<>>]

NoSearch ==
  /\ phase = [s \in Searches |-> "idle"] /\ query = [s \in Searches |-> NoQuery]
  /\ output = [s \in Searches |-> NoOutput] /\ began = [s \in Searches |-> 0]
  /\ pos = [s \in Searches |-> 0] /\ matchedCounter = [s \in Searches |-> 0]
  /\ page = [s \in Searches |-> <<>>] /\ acc = [s \in Searches |-> EmptyAcc]

Init == FileInit /\ NoSearch

-----------------------------------------------------------------------------
GoTo(s, p) == phase' = [phase EXCEPT ![s] = p]

Ask(s, k, q) ==
  /\ phase[s] = "idle"
  /\ q.op = "aggregate" => k[1] = "metric"
  /\ GoTo(s, "row")
  /\ query' = [query EXCEPT ![s] = q]
  /\ output' = [output EXCEPT ![s] = k]
  /\ UNCHANGED <<fileVars, began, pos, matchedCounter, page, acc>>

\* getOneThrowableByTaskId: 404 if there is no such row, 400 if it is one of
\* another task.
FindRun(s) ==
  /\ phase[s] = "row"
  /\ GoTo(s, IF output[s] \in listed /\ query[s].ofTask THEN "open" ELSE "failed")
  /\ UNCHANGED <<fileVars, query, output, began, pos, matchedCounter, page, acc>>

\* createReadStream; a file once open is read to its end, unlinked or not.
OpenFile(s) ==
  /\ phase[s] = "open"
  /\ IF output[s] \in linked
       THEN GoTo(s, "reading") /\ began' = [began EXCEPT ![s] = Len(lines[output[s]])]
       ELSE GoTo(s, "failed") /\ UNCHANGED began
  /\ UNCHANGED <<fileVars, query, output, pos, matchedCounter, page, acc>>

\* fromIdx and pageSize of buildPaginator.
FromIdx(s) == query[s].from
PageSize(s) == IF query[s].pageSize < MaxPageSize THEN query[s].pageSize ELSE MaxPageSize

\* Mutant of InPage: the counter is compared before it is past `from`.
InPageLate(s) == matchedCounter[s] > FromIdx(s)

\* matchedCounter++ >= fromIdx
InPage(s) == matchedCounter[s] >= FromIdx(s)

\* Mutant of Full: what matched is counted, not what is on the page.
FullOfMatched(s, entries, counter) == counter = PageSize(s)

Full(s, entries, counter) == Len(entries) = PageSize(s)

\* process: one line through the paginator.
Process(s, i, e) ==
  LET entries == IF e.match /\ InPage(s) THEN Append(page[s], i) ELSE page[s]
      counter == IF e.match THEN matchedCounter[s] + 1 ELSE matchedCounter[s]
  IN  /\ page' = [page EXCEPT ![s] = entries]
      /\ matchedCounter' = [matchedCounter EXCEPT ![s] = counter]
      /\ GoTo(s, IF e.match /\ Full(s, entries, counter) THEN "done" ELSE "reading")
      /\ UNCHANGED acc

Higher(a, b) == IF a < b THEN b ELSE a
Lower(a, b) == IF a < b THEN a ELSE b

\* Mutant of Added: an entry without the attribute counts as zero.
AddedZero(a, e) ==
  LET v == IF e.value = NoValue THEN 0 ELSE e.value
  IN  [max |-> Higher(a.max, v), min |-> Lower(a.min, v), sum |-> a.sum + v,
       cnt |-> a.cnt + 1, values |-> Append(a.values, v)]

\* add of every aggregator; an entry without the attribute is left out.
Added(a, e) ==
  IF e.value = NoValue THEN a
  ELSE [max |-> Higher(a.max, e.value), min |-> Lower(a.min, e.value),
        sum |-> a.sum + e.value, cnt |-> a.cnt + 1, values |-> Append(a.values, e.value)]

\* build of every aggregator: the average as sum and count, and what std is the
\* root of as its numerator over the cube of the count.
Built(a) ==
  LET Square(x) == x * x
  IN  [max |-> IF a.max > -Infinity THEN a.max ELSE 0,
       min |-> IF a.min < Infinity THEN a.min ELSE 0,
       sum |-> a.sum, cnt |-> a.cnt,
       std |-> FoldFunction(LAMBDA v, t : Square(a.cnt * v - a.sum) + t, 0, a.values)]

Accumulate(s, e) ==
  /\ acc' = IF e.match THEN [acc EXCEPT ![s] = Added(acc[s], e)] ELSE acc
  /\ GoTo(s, "reading")
  /\ UNCHANGED <<page, matchedCounter>>

ReadLine(s) ==
  LET k == output[s]
      i == pos[s] + 1
  IN  /\ phase[s] = "reading" /\ pos[s] < Len(lines[k])
      /\ pos' = [pos EXCEPT ![s] = i]
      /\ IF query[s].op = "page" THEN Process(s, i, lines[k][i])
                                 ELSE Accumulate(s, lines[k][i])
      /\ UNCHANGED <<fileVars, query, output, began>>

\* The end of the file: a part of a line is a line that JSON.parse refuses.
ReadEnd(s) ==
  /\ phase[s] = "reading" /\ pos[s] = Len(lines[output[s]])
  /\ GoTo(s, IF half[output[s]] THEN "failed" ELSE "done")
  /\ UNCHANGED <<fileVars, query, output, began, pos, matchedCounter, page, acc>>

\* Mutant of Reply: the accumulators are made once, not for each request.
ReplyKeepsAcc(s) ==
  /\ phase[s] \in {"done", "failed"}
  /\ GoTo(s, "idle")
  /\ query' = [query EXCEPT ![s] = NoQuery] /\ output' = [output EXCEPT ![s] = NoOutput]
  /\ began' = [began EXCEPT ![s] = 0] /\ pos' = [pos EXCEPT ![s] = 0]
  /\ matchedCounter' = [matchedCounter EXCEPT ![s] = 0]
  /\ page' = [page EXCEPT ![s] = <<>>]
  /\ UNCHANGED <<fileVars, acc>>

\* The reply is sent; paginator and accumulators were those of this request.
Reply(s) ==
  /\ phase[s] \in {"done", "failed"}
  /\ GoTo(s, "idle")
  /\ query' = [query EXCEPT ![s] = NoQuery] /\ output' = [output EXCEPT ![s] = NoOutput]
  /\ began' = [began EXCEPT ![s] = 0] /\ pos' = [pos EXCEPT ![s] = 0]
  /\ matchedCounter' = [matchedCounter EXCEPT ![s] = 0]
  /\ page' = [page EXCEPT ![s] = <<>>] /\ acc' = [acc EXCEPT ![s] = EmptyAcc]
  /\ UNCHANGED fileVars

Search(s) == FindRun(s) \/ OpenFile(s) \/ ReadLine(s) \/ ReadEnd(s)

\* What goes on with the file, as far as the bound of its lines lets it.
FileStep ==
  /\ FileNext /\ \A k \in Outputs : Len(lines'[k]) <= MaxLines
  /\ UNCHANGED searchVars

\* The process ends, and the searches with it.
Halt ==
  /\ GiveUp
  /\ phase' = [s \in Searches |-> "idle"] /\ query' = [s \in Searches |-> NoQuery]
  /\ output' = [s \in Searches |-> NoOutput] /\ began' = [s \in Searches |-> 0]
  /\ pos' = [s \in Searches |-> 0] /\ matchedCounter' = [s \in Searches |-> 0]
  /\ page' = [s \in Searches |-> <<>>] /\ acc' = [s \in Searches |-> EmptyAcc]

Next ==
  \/ FileStep \/ Halt
  \/ \E s \in Searches :
       \/ \E k \in Outputs, q \in Queries : Ask(s, k, q)
       \/ Search(s) \/ Reply(s)

Spec == Init /\ [][Next]_vars

-----------------------------------------------------------------------------
InPlace(s) ==
  IF phase[s] = "idle"
    THEN pos[s] = 0 /\ matchedCounter[s] = 0 /\ page[s] = <<>> /\ acc[s] = EmptyAcc
    ELSE query[s] \in Queries /\ output[s] \in Outputs /\ pos[s] <= Len(lines[output[s]])

\* Type invariant: the file, how far each search is in it, and nothing left of a
\* search that was replied to.
SearchTypeOK ==
  /\ lines \in [Outputs -> Seq(Entries)] /\ half \in [Outputs -> BOOLEAN]
  /\ ended \in [Outputs -> {"no", "closed", "lost"}]
  /\ linked \subseteq Outputs /\ listed \subseteq Outputs
  /\ phase \in [Searches -> {"idle", "row", "open", "reading", "done", "failed"}]
  /\ query \in [Searches -> Queries \cup {NoQuery}]
  /\ output \in [Searches -> Outputs \cup {NoOutput}]
  /\ began \in [Searches -> Nat] /\ pos \in [Searches -> Nat]
  /\ matchedCounter \in [Searches -> Nat] /\ page \in [Searches -> Seq(Nat)]
  /\ acc \in [Searches -> Acc]
  /\ \A s \in Searches : InPlace(s)

\* Places of the first n lines of a file that the searches look for.
Matches(k, n) == {i \in 1 .. n : lines[k][i].match}
Skipped(s) == IF FromIdx(s) > 0 THEN FromIdx(s) ELSE 0

\* The j-th entry of a page is the one that is preceded by `from` and j - 1 more
\* among all entries that match, at whatever time the file is read, appended to
\* or removed; no page is larger than asked for, if that is at least 1.
PageIsExact ==
  \A s \in Searches :
    phase[s] # "idle" /\ query[s].op = "page" =>
      /\ \A j \in 1 .. Len(page[s]) :
           /\ page[s][j] \in Matches(output[s], pos[s])
           /\ Cardinality(Matches(output[s], page[s][j])) = Skipped(s) + j
      /\ query[s].pageSize > 0 => Len(page[s]) <= PageSize(s)

\* A page that is not full has everything from `from` on that the file had when
\* it was opened.
NothingMissed ==
  \A s \in Searches :
    phase[s] = "done" /\ query[s].op = "page" /\ Len(page[s]) # PageSize(s) =>
      LET found == Cardinality(Matches(output[s], pos[s]))
      IN  /\ pos[s] >= began[s]
          /\ Len(page[s]) = IF found > Skipped(s) THEN found - Skipped(s) ELSE 0

\* min, max, average, count and deviation are those of the entries of the file
\* that match and have the attribute, and zero if there is none.
AggregateIsExact ==
  \A s \in Searches :
    phase[s] = "done" /\ query[s].op = "aggregate" =>
      LET e == lines[output[s]]
          I == {i \in Matches(output[s], pos[s]) : e[i].value # NoValue}
          n == Cardinality(I)
          values == {e[i].value : i \in I}
          total == FoldFunctionOnSet(+, 0, [i \in DOMAIN e |-> e[i].value], I)
          squares == FoldFunctionOnSet(LAMBDA v, t : v * v + t, 0,
                                       [i \in DOMAIN e |-> e[i].value], I)
          a == Built(acc[s])
      IN  /\ pos[s] >= began[s]
          /\ a.cnt = n /\ a.sum = total
          /\ IF n = 0 THEN a.max = 0 /\ a.min = 0
                      ELSE /\ a.max \in values /\ a.min \in values
                           /\ \A v \in values : a.min <= v /\ v <= a.max
          /\ a.std = n * (n * squares - total * total)
=============================================================================
