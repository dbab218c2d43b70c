---------------------------- MODULE RunSearchProofs ----------------------------
(***************************************************************************)
(* What holds of the searches for every file, request and number of them.  *)
(*                                                                         *)
(* A page is exact because the counter of the paginator is the number of   *)
(* entries found so far, in a file that only grows: what was read stays as *)
(* it was read (PageInv).  Nothing is missed because a search that is not  *)
(* stopped by a full page reads on to an end of the file that is no        *)
(* earlier than the one it had when it was opened (EndInv).                *)
(*                                                                         *)
(* An aggregate is exact because the accumulator has seen the entries of   *)
(* what was read (AggregateInv): number, sum, least and greatest are       *)
(* theirs, and std knows its values by their number, sum and sum of        *)
(* squares, from which its deviation is multiplied out (TotalDeviations).  *)
(* That needs of the folds of the model that they add the same whatever    *)
(* the order and one more for one element more (TotalAgrees, TotalAdds);   *)
(* these lemmas go by the least number of elements for which they fail.    *)
(***************************************************************************)
EXTENDS RunSearch, FiniteSetTheorems, TLAPS

Phases == {"idle", "row", "open", "reading", "done", "failed"}

\* A file is what it was, and perhaps more.
FileGrows ==
  /\ lines' \in [Outputs -> Seq(Entries)] /\ half' \in [Outputs -> BOOLEAN]
  /\ ended' \in [Outputs -> {"no", "closed", "lost"}]
  /\ linked' \subseteq Outputs /\ listed' \subseteq Outputs
  /\ \A k \in Outputs : /\ Len(lines[k]) <= Len(lines'[k])
                        /\ \A i \in 1 .. Len(lines[k]) : lines'[k][i] = lines[k][i]

LEMMA FileNextGrows == ASSUME SearchTypeOK, FileNext PROVE FileGrows
<1> USE DEF SearchTypeOK, FileGrows
<1>1. CASE UNCHANGED lines
  <2>1. CASE \E k \in Outputs : Make(k)
    BY <1>1, <2>1 DEF Make
  <2>2. CASE \E k \in Outputs : WritePart(k)
    BY <1>1, <2>2 DEF WritePart
  <2>3. CASE \E k \in Outputs : Close(k)
    BY <1>1, <2>3 DEF Close
  <2>4. CASE \E k \in Outputs, e \in Entries : WriteLine(k, e)
    BY <1>1, <2>4 DEF WriteLine
  <2>5. CASE GiveUp
    BY <1>1, <2>5 DEF GiveUp
  <2>6. CASE Unlist
    BY <1>1, <2>6 DEF Unlist
  <2>7. CASE \E k \in Outputs : Unlink(k[1])
    BY <1>1, <2>7 DEF Unlink
  <2> QED BY <2>1, <2>2, <2>3, <2>4, <2>5, <2>6, <2>7 DEF FileNext
<1>2. CASE \E k \in Outputs, e \in Entries : WriteLine(k, e)
  <2>1. PICK k \in Outputs, e \in Entries : WriteLine(k, e)
    BY <1>2
  <2>2. lines' = [lines EXCEPT ![k] = Append(lines[k], e)]
    BY <2>1 DEF WriteLine
  <2>3. /\ Append(lines[k], e) \in Seq(Entries)
        /\ Len(Append(lines[k], e)) = Len(lines[k]) + 1
        /\ \A i \in 1 .. Len(lines[k]) : Append(lines[k], e)[i] = lines[k][i]
    OBVIOUS
  <2>4. half' \in [Outputs -> BOOLEAN] /\ UNCHANGED <<ended, linked, listed>>
    BY <2>1 DEF WriteLine
  <2>5. lines' \in [Outputs -> Seq(Entries)]
    BY <2>2, <2>3
  <2>6. ASSUME NEW m \in Outputs
        PROVE  /\ Len(lines[m]) <= Len(lines'[m])
               /\ \A i \in 1 .. Len(lines[m]) : lines'[m][i] = lines[m][i]
    <3>1. lines[m] \in Seq(Entries) /\ Len(lines[m]) \in Nat
      OBVIOUS
    <3>2. CASE m = k
      BY <3>2, <3>1, <2>2, <2>3
    <3>3. CASE m # k
      BY <3>3, <3>1, <2>2
    <3> QED BY <3>2, <3>3
  <2> QED BY <2>4, <2>5, <2>6
<1>3. UNCHANGED lines \/ \E k \in Outputs, e \in Entries : WriteLine(k, e)
  BY Zenon DEF FileNext, Make, WritePart, Close, GiveUp, Unlist, Unlink
<1> QED BY <1>1, <1>2, <1>3

-----------------------------------------------------------------------------
(* Types *)

LEMMA InitType == Init => SearchTypeOK
BY SearchAssumption
DEF Init, FileInit, NoSearch, SearchTypeOK, InPlace, Acc, EmptyAcc

LEMMA AddedType ==
  ASSUME NEW a \in Acc, NEW e \in Entries
  PROVE  Added(a, e) \in Acc
<1>1. e.value = NoValue \/ e.value \in Int
  BY SearchAssumption DEF Entry
<1>2. CASE e.value = NoValue
  BY <1>2 DEF Added
<1>3. CASE e.value # NoValue
  <2>1. Append(a.values, e.value) \in Seq(Int)
    BY <1>1, <1>3 DEF Acc
  <2> QED BY <1>1, <1>3, <2>1 DEF Added, Acc, Higher, Lower
<1> QED BY <1>2, <1>3

LEMMA FileStepType == ASSUME SearchTypeOK, FileNext, UNCHANGED searchVars PROVE SearchTypeOK'
BY FileNextGrows DEF SearchTypeOK, InPlace, FileGrows, searchVars

LEMMA HaltType == ASSUME SearchTypeOK, Halt PROVE SearchTypeOK'
<1>1. FileGrows
  BY FileNextGrows DEF Halt, FileNext
<1>2. EmptyAcc \in Acc
  BY SearchAssumption DEF EmptyAcc, Acc
<1> QED BY <1>1, <1>2 DEF SearchTypeOK, InPlace, FileGrows, Halt

LEMMA AskType ==
  ASSUME SearchTypeOK, NEW s \in Searches, NEW k \in Outputs, NEW q \in Queries, Ask(s, k, q)
  PROVE  SearchTypeOK'
<1>1. /\ phase' \in [Searches -> Phases] /\ query' \in [Searches -> Queries \cup {NoQuery}]
      /\ output' \in [Searches -> Outputs \cup {NoOutput}]
  BY DEF SearchTypeOK, InPlace, Ask, GoTo, Phases
<1>2. ASSUME NEW r \in Searches, r # s
      PROVE  phase'[r] = phase[r] /\ query'[r] = query[r] /\ output'[r] = output[r]
  BY <1>2 DEF SearchTypeOK, InPlace, Ask, GoTo
<1>3. phase[s] = "idle" /\ phase'[s] = "row" /\ query'[s] = q /\ output'[s] = k
  BY DEF SearchTypeOK, InPlace, Ask, GoTo
<1>4. ASSUME NEW r \in Searches
      PROVE  InPlace(r)'
  <2>1. UNCHANGED <<lines, pos, matchedCounter, page, acc>>
    BY DEF Ask, fileVars
  <2>2. CASE r = s
    BY <2>1, <2>2, <1>3 DEF SearchTypeOK, InPlace
  <2>3. CASE r # s
    BY <2>1, <2>3, <1>2 DEF SearchTypeOK, InPlace
  <2> QED BY <2>2, <2>3
<1> QED BY <1>1, <1>4 DEF SearchTypeOK, Ask, fileVars, Phases

LEMMA FindRunType == ASSUME SearchTypeOK, NEW s \in Searches, FindRun(s) PROVE SearchTypeOK'
BY DEF SearchTypeOK, InPlace, FindRun, GoTo, fileVars

LEMMA OpenFileType == ASSUME SearchTypeOK, NEW s \in Searches, OpenFile(s) PROVE SearchTypeOK'
<1>1. /\ phase[s] = "open"
      /\ phase' = [phase EXCEPT ![s] = "reading"] \/ phase' = [phase EXCEPT ![s] = "failed"]
      /\ UNCHANGED <<lines, half, ended, linked, listed, query, output, pos,
                     matchedCounter, page, acc>>
  BY DEF OpenFile, GoTo, fileVars
<1>2. began' \in [Searches -> Nat]
  <2>1. Len(lines[output[s]]) \in Nat
    BY <1>1 DEF SearchTypeOK, InPlace
  <2> QED BY <2>1 DEF OpenFile, SearchTypeOK
<1> QED BY <1>1, <1>2 DEF SearchTypeOK, InPlace

LEMMA ReadEndType == ASSUME SearchTypeOK, NEW s \in Searches, ReadEnd(s) PROVE SearchTypeOK'
BY DEF SearchTypeOK, InPlace, ReadEnd, GoTo, fileVars

LEMMA ReplyType == ASSUME SearchTypeOK, NEW s \in Searches, Reply(s) PROVE SearchTypeOK'
<1>1. EmptyAcc \in Acc
  BY SearchAssumption DEF EmptyAcc, Acc
<1> QED BY <1>1 DEF SearchTypeOK, InPlace, Reply, GoTo, fileVars

LEMMA ReadLineType == ASSUME SearchTypeOK, NEW s \in Searches, ReadLine(s) PROVE SearchTypeOK'
<1> DEFINE k == output[s]
           i == pos[s] + 1
           e == lines[k][i]
<1>1. /\ phase[s] = "reading" /\ k \in Outputs /\ pos[s] \in Nat /\ i <= Len(lines[k])
      /\ pos' = [pos EXCEPT ![s] = i]
      /\ UNCHANGED <<fileVars, query, output, began>>
      /\ IF query[s].op = "page" THEN Process(s, i, e) ELSE Accumulate(s, e)
  BY DEF SearchTypeOK, InPlace, ReadLine
<1>2. e \in Entries
  BY <1>1 DEF SearchTypeOK, InPlace
<1> HIDE DEF e
<1>3. CASE Process(s, i, e)
  BY <1>1, <1>3 DEF Process, SearchTypeOK, InPlace, GoTo, fileVars
<1>4. CASE Accumulate(s, e)
  <2>1. Added(acc[s], e) \in Acc
    BY <1>2, AddedType DEF SearchTypeOK, InPlace
  <2> QED BY <1>1, <1>4, <2>1 DEF Accumulate, SearchTypeOK, InPlace, GoTo, fileVars
<1> QED BY <1>1, <1>3, <1>4

LEMMA NextType == ASSUME SearchTypeOK, [Next]_vars PROVE SearchTypeOK'
<1>1. CASE FileStep
  BY <1>1, FileStepType DEF FileStep
<1>2. CASE Halt
  BY <1>2, HaltType
<1>3. CASE \E s \in Searches, k \in Outputs, q \in Queries : Ask(s, k, q)
  BY <1>3, AskType
<1>4. CASE \E s \in Searches : Search(s) \/ Reply(s)
  BY <1>4, FindRunType, OpenFileType, ReadLineType, ReadEndType, ReplyType DEF Search
<1>5. CASE UNCHANGED vars
  BY <1>5 DEF SearchTypeOK, InPlace, vars, fileVars, searchVars
<1> QED BY <1>1, <1>2, <1>3, <1>4, <1>5 DEF Next

\* The file keeps its type, a search is never past its lines, and nothing of a
\* search is left when it was replied to (file-metric-provider.ts, paging.utils.ts).
THEOREM SearchTypeCorrect == Spec => []SearchTypeOK
BY InitType, NextType, PTL DEF Spec

-----------------------------------------------------------------------------
(* Pages *)

\* Places of what is looked for in the first n lines of a file.
Found(f, n) == {i \in 1 .. n : f[i].match}

PageInv(s) ==
  phase[s] # "idle" /\ query[s].op = "page" =>
    /\ matchedCounter[s] = Cardinality(Found(lines[output[s]], pos[s]))
    /\ Len(page[s]) = IF matchedCounter[s] > Skipped(s)
                        THEN matchedCounter[s] - Skipped(s) ELSE 0
    /\ \A j \in 1 .. Len(page[s]) :
         /\ page[s][j] \in Found(lines[output[s]], pos[s])
         /\ Cardinality(Found(lines[output[s]], page[s][j])) = Skipped(s) + j
    /\ query[s].pageSize > 0 =>
         /\ Len(page[s]) <= PageSize(s)
         /\ phase[s] \in {"row", "open", "reading"} => Len(page[s]) < PageSize(s)

EndInv(s) ==
  IF phase[s] = "idle" THEN began[s] = 0
  ELSE /\ began[s] <= Len(lines[output[s]])
       /\ query[s].op = "page" /\ phase[s] = "done"
            => Len(page[s]) = PageSize(s) \/ pos[s] >= began[s]

LEMMA FoundFacts ==
  ASSUME NEW f, NEW n \in Nat
  PROVE  /\ Found(f, 0) = {} /\ Cardinality(Found(f, 0)) = 0
         /\ IsFiniteSet(Found(f, n)) /\ Cardinality(Found(f, n)) \in Nat
         /\ f[n + 1].match => Cardinality(Found(f, n + 1)) = Cardinality(Found(f, n)) + 1
         /\ ~f[n + 1].match => Found(f, n + 1) = Found(f, n)
<1>1. Found(f, 0) = {}
  BY DEF Found
<1>2. IsFiniteSet(Found(f, n)) /\ Cardinality(Found(f, n)) \in Nat
  <2>1. IsFiniteSet(1 .. n) /\ Found(f, n) \subseteq 1 .. n
    BY FS_Interval DEF Found
  <2> QED BY <2>1, FS_Subset, FS_CardinalityType
<1>3. ASSUME f[n + 1].match
      PROVE  Cardinality(Found(f, n + 1)) = Cardinality(Found(f, n)) + 1
  <2>1. Found(f, n + 1) = Found(f, n) \cup {n + 1} /\ n + 1 \notin Found(f, n)
    BY <1>3 DEF Found
  <2> QED BY <2>1, <1>2, FS_AddElement
<1>4. ASSUME ~f[n + 1].match PROVE Found(f, n + 1) = Found(f, n)
  BY <1>4 DEF Found
<1> QED BY <1>1, <1>2, <1>3, <1>4, FS_EmptySet

\* What was read stays as it was read.
LEMMA FoundStays ==
  ASSUME FileGrows, NEW k \in Outputs, NEW n \in Nat, n <= Len(lines[k])
  PROVE  Found(lines'[k], n) = Found(lines[k], n)
<1>1. \A i \in 1 .. n : lines'[k][i] = lines[k][i]
  BY DEF FileGrows
<1> QED BY <1>1 DEF Found

\* A search that does nothing while the file grows keeps what it has.
LEMMA Undisturbed ==
  ASSUME SearchTypeOK, FileGrows, NEW s \in Searches, PageInv(s), EndInv(s),
         phase'[s] = phase[s], query'[s] = query[s], output'[s] = output[s],
         began'[s] = began[s], pos'[s] = pos[s], page'[s] = page[s],
         matchedCounter'[s] = matchedCounter[s]
  PROVE  PageInv(s)' /\ EndInv(s)'
<1>1. SUFFICES ASSUME phase[s] # "idle" PROVE PageInv(s)' /\ EndInv(s)'
  BY DEF PageInv, EndInv
<1>2. PICK k \in Outputs : k = output[s]
  BY <1>1 DEF SearchTypeOK, InPlace
<1>3. pos[s] \in Nat /\ pos[s] <= Len(lines[k]) /\ Len(lines[k]) \in Nat
  BY <1>1, <1>2 DEF SearchTypeOK, InPlace
<1>4. Found(lines'[k], pos[s]) = Found(lines[k], pos[s])
  BY <1>3, FoundStays
<1>5. ASSUME query[s].op = "page", NEW j \in 1 .. Len(page[s])
      PROVE  Found(lines'[k], page[s][j]) = Found(lines[k], page[s][j])
  <2>1. page[s][j] \in Found(lines[k], pos[s])
    BY <1>1, <1>2, <1>5 DEF PageInv
  <2>2. page[s][j] \in Nat /\ page[s][j] <= Len(lines[k])
    BY <2>1, <1>3 DEF Found
  <2> QED BY <2>2, FoundStays
<1>6. Len(lines[k]) <= Len(lines'[k]) /\ Len(lines'[k]) \in Nat
  BY DEF FileGrows
<1>7. PageInv(s)'
  BY <1>1, <1>2, <1>4, <1>5 DEF PageInv, Skipped, FromIdx, PageSize
<1>8. EndInv(s)'
  BY <1>1, <1>2, <1>3, <1>6 DEF EndInv, PageSize, SearchTypeOK
<1> QED BY <1>7, <1>8

Inv == SearchTypeOK /\ \A s \in Searches : PageInv(s) /\ EndInv(s)

\* A file that is left alone grows, too.
LEMMA SameFileGrows == ASSUME SearchTypeOK, UNCHANGED fileVars PROVE FileGrows
BY DEF SearchTypeOK, FileGrows, fileVars

\* Whatever search s does, the other ones do nothing.
LEMMA OthersIdle ==
  ASSUME SearchTypeOK, NEW s \in Searches, NEW r \in Searches, r # s,
         Search(s) \/ Reply(s) \/ \E k \in Outputs, q \in Queries : Ask(s, k, q)
  PROVE  /\ UNCHANGED fileVars
         /\ phase'[r] = phase[r] /\ query'[r] = query[r] /\ output'[r] = output[r]
         /\ began'[r] = began[r] /\ pos'[r] = pos[r] /\ page'[r] = page[r]
         /\ matchedCounter'[r] = matchedCounter[r] /\ acc'[r] = acc[r]
<1> USE DEF SearchTypeOK, GoTo
<1>1. CASE FindRun(s)
  BY <1>1 DEF FindRun
<1>2. CASE OpenFile(s)
  BY <1>2 DEF OpenFile
<1>3. CASE ReadLine(s)
  BY <1>3 DEF ReadLine, Process, Accumulate
<1>4. CASE ReadEnd(s)
  BY <1>4 DEF ReadEnd
<1>5. CASE Reply(s)
  BY <1>5 DEF Reply
<1>6. CASE \E k \in Outputs, q \in Queries : Ask(s, k, q)
  BY <1>6 DEF Ask
<1> QED BY <1>1, <1>2, <1>3, <1>4, <1>5, <1>6 DEF Search

LEMMA OthersKeep ==
  ASSUME Inv, NEW s \in Searches, NEW r \in Searches, r # s,
         Search(s) \/ Reply(s) \/ \E k \in Outputs, q \in Queries : Ask(s, k, q)
  PROVE  PageInv(r)' /\ EndInv(r)'
BY OthersIdle, SameFileGrows, Undisturbed DEF Inv

LEMMA AskKeeps ==
  ASSUME Inv, NEW s \in Searches, NEW k \in Outputs, NEW q \in Queries, Ask(s, k, q)
  PROVE  PageInv(s)' /\ EndInv(s)'
<1>1. /\ phase[s] = "idle" /\ phase'[s] = "row" /\ query'[s] = q /\ output'[s] = k
      /\ UNCHANGED <<lines, began, pos, matchedCounter, page>>
  BY DEF Inv, SearchTypeOK, Ask, GoTo, fileVars
<1>2. pos[s] = 0 /\ matchedCounter[s] = 0 /\ page[s] = <<>>
  BY <1>1 DEF Inv, SearchTypeOK, InPlace
<1>3. Found(lines[k], 0) = {} /\ Cardinality(Found(lines[k], 0)) = 0
  BY FoundFacts
<1>4. began[s] <= Len(lines[k])
  BY <1>1 DEF Inv, EndInv, SearchTypeOK
<1>5. q.from \in Int /\ q.pageSize \in Int /\ MaxPageSize \in Nat \ {0}
  BY SearchAssumption DEF Query
<1>6. PageInv(s)'
  BY <1>1, <1>2, <1>3, <1>5 DEF PageInv, Skipped, FromIdx, PageSize
<1> QED BY <1>1, <1>4, <1>6 DEF EndInv

LEMMA FindRunKeeps ==
  ASSUME Inv, NEW s \in Searches, FindRun(s) PROVE PageInv(s)' /\ EndInv(s)'
<1>1. /\ phase[s] = "row" /\ phase'[s] \in {"open", "failed"}
      /\ UNCHANGED <<lines, query, output, began, pos, matchedCounter, page>>
  BY DEF Inv, SearchTypeOK, FindRun, GoTo, fileVars
<1>2. PageInv(s) /\ EndInv(s)
  BY DEF Inv
<1> QED BY <1>1, <1>2 DEF PageInv, EndInv, Skipped, FromIdx, PageSize

LEMMA OpenFileKeeps ==
  ASSUME Inv, NEW s \in Searches, OpenFile(s) PROVE PageInv(s)' /\ EndInv(s)'
<1>1. /\ phase[s] = "open" /\ phase'[s] \in {"reading", "failed"}
      /\ UNCHANGED <<lines, query, output, pos, matchedCounter, page>>
  BY DEF Inv, SearchTypeOK, OpenFile, GoTo, fileVars
<1>2. output[s] \in Outputs /\ Len(lines[output[s]]) \in Nat
  BY <1>1 DEF Inv, SearchTypeOK, InPlace
<1>3. began'[s] = Len(lines[output[s]]) \/ began' = began
  BY <1>2 DEF Inv, SearchTypeOK, OpenFile
<1>4. PageInv(s) /\ EndInv(s)
  BY DEF Inv
<1>5. PageInv(s)'
  BY <1>1, <1>4 DEF PageInv, Skipped, FromIdx, PageSize
<1>6. EndInv(s)'
  BY <1>1, <1>2, <1>3, <1>4 DEF EndInv
<1> QED BY <1>5, <1>6

LEMMA ReadEndKeeps ==
  ASSUME Inv, NEW s \in Searches, ReadEnd(s) PROVE PageInv(s)' /\ EndInv(s)'
<1>1. /\ phase[s] = "reading" /\ phase'[s] \in {"done", "failed"}
      /\ pos[s] = Len(lines[output[s]])
      /\ UNCHANGED <<lines, query, output, began, pos, matchedCounter, page>>
  BY DEF Inv, SearchTypeOK, ReadEnd, GoTo, fileVars
<1>2. PageInv(s) /\ EndInv(s)
  BY DEF Inv
<1>3. PageInv(s)'
  BY <1>1, <1>2 DEF PageInv, Skipped, FromIdx, PageSize
<1>4. EndInv(s)'
  BY <1>1, <1>2 DEF EndInv, Inv, SearchTypeOK
<1> QED BY <1>3, <1>4

LEMMA ReplyKeeps ==
  ASSUME Inv, NEW s \in Searches, Reply(s) PROVE PageInv(s)' /\ EndInv(s)'
<1>1. phase'[s] = "idle"
  BY DEF Inv, SearchTypeOK, Reply, GoTo
<1>2. began'[s] = 0
  BY DEF Inv, SearchTypeOK, Reply
<1> QED BY <1>1, <1>2 DEF PageInv, EndInv

\* One line: an entry that is not looked for changes nothing, one that is counts,
\* and from `from` on it is put on the page.
LEMMA ReadLineKeeps ==
  ASSUME Inv, NEW s \in Searches, ReadLine(s) PROVE PageInv(s)' /\ EndInv(s)'
<1>1. PICK k \in Outputs : k = output[s]
  BY DEF Inv, SearchTypeOK, InPlace, ReadLine
<1> DEFINE i == pos[s] + 1
           e == lines[k][i]
<1>2. /\ phase[s] = "reading" /\ pos[s] \in Nat /\ i <= Len(lines[k])
      /\ pos'[s] = i
      /\ UNCHANGED <<lines, query, output, began>>
      /\ IF query[s].op = "page" THEN Process(s, i, e) ELSE Accumulate(s, e)
  BY <1>1 DEF Inv, SearchTypeOK, InPlace, ReadLine, fileVars
<1>3. query[s].from \in Int /\ query[s].pageSize \in Int /\ MaxPageSize \in Nat \ {0}
  BY <1>2, SearchAssumption DEF Inv, SearchTypeOK, InPlace, Query
<1>4. PageInv(s) /\ EndInv(s)
  BY DEF Inv
<1>5. CASE query[s].op # "page"
  <2>1. phase'[s] = "reading"
    BY <1>2, <1>5 DEF Accumulate, GoTo, Inv, SearchTypeOK
  <2> QED BY <1>2, <1>4, <1>5, <2>1 DEF PageInv, EndInv
<1>6. CASE query[s].op = "page"
  <2> DEFINE c == Cardinality(Found(lines[k], pos[s]))
  <2>1. /\ c \in Nat
        /\ e.match => Cardinality(Found(lines[k], i)) = c + 1
        /\ ~e.match => Found(lines[k], i) = Found(lines[k], pos[s])
    BY <1>2, FoundFacts
  <2>2. Found(lines[k], pos[s]) \subseteq Found(lines[k], i)
    BY <1>2 DEF Found
  <2>3. /\ matchedCounter[s] = c
        /\ page[s] \in Seq(Nat)
        /\ Len(page[s]) = IF c > Skipped(s) THEN c - Skipped(s) ELSE 0
        /\ \A j \in 1 .. Len(page[s]) :
             /\ page[s][j] \in Found(lines[k], pos[s])
             /\ Cardinality(Found(lines[k], page[s][j])) = Skipped(s) + j
        /\ query[s].pageSize > 0 => Len(page[s]) < PageSize(s)
    BY <1>1, <1>2, <1>4, <1>6 DEF PageInv, Inv, SearchTypeOK
  <2>4. PageSize(s) \in Int /\ Skipped(s) \in Nat
        /\ (query[s].pageSize > 0 => PageSize(s) > 0)
    BY <1>3 DEF PageSize, Skipped, FromIdx
  <2>5. InPage(s) <=> c >= Skipped(s)
    BY <2>1, <2>3, <1>3 DEF InPage, FromIdx, Skipped
  <2>6. PageSize(s)' = PageSize(s) /\ Skipped(s)' = Skipped(s)
    BY <1>2 DEF PageSize, Skipped, FromIdx
  <2> HIDE DEF e
  <2>7. CASE ~e.match
    <3>1. page'[s] = page[s] /\ matchedCounter'[s] = matchedCounter[s] /\ phase'[s] = "reading"
      BY <1>2, <1>6, <2>7 DEF Process, GoTo, Inv, SearchTypeOK
    <3> QED BY <1>1, <1>2, <1>4, <1>6, <2>1, <2>3, <2>6, <2>7, <3>1 DEF PageInv, EndInv
  <2>8. CASE e.match /\ c < Skipped(s)
    <3>1. /\ page'[s] = page[s] /\ matchedCounter'[s] = c + 1
          /\ phase'[s] = IF Len(page[s]) = PageSize(s) THEN "done" ELSE "reading"
      BY <1>2, <1>6, <2>1, <2>3, <2>4, <2>5, <2>8 DEF Process, Full, GoTo, Inv, SearchTypeOK
    <3>2. Len(page[s]) = 0
      BY <2>1, <2>3, <2>4, <2>8
    <3>3. PageInv(s)'
      BY <1>1, <1>2, <1>6, <2>1, <2>2, <2>3, <2>4, <2>6, <2>8, <3>1, <3>2 DEF PageInv
    <3>4. EndInv(s)'
      BY <1>1, <1>2, <1>4, <1>6, <2>6, <3>1 DEF EndInv
    <3> QED BY <3>3, <3>4
  <2>9. CASE e.match /\ c >= Skipped(s)
    <3> DEFINE longer == Append(page[s], i)
    <3>1. /\ page'[s] = longer /\ matchedCounter'[s] = c + 1
          /\ phase'[s] = IF Len(longer) = PageSize(s) THEN "done" ELSE "reading"
      BY <1>2, <1>6, <2>1, <2>3, <2>4, <2>5, <2>9 DEF Process, Full, GoTo, Inv, SearchTypeOK
    <3>2. /\ Len(longer) = Len(page[s]) + 1 /\ longer[Len(page[s]) + 1] = i
          /\ \A j \in 1 .. Len(page[s]) : longer[j] = page[s][j]
          /\ Len(page[s]) \in Nat
      BY <1>2, <2>3
    <3>3. Len(page[s]) = c - Skipped(s)
      BY <2>1, <2>3, <2>4, <2>9
    <3>4. i \in Found(lines[k], i)
      BY <1>2, <2>9 DEF Found, e
    <3> HIDE DEF longer
    <3>5. ASSUME NEW j \in 1 .. Len(longer)
          PROVE  /\ longer[j] \in Found(lines[k], i)
                 /\ Cardinality(Found(lines[k], longer[j])) = Skipped(s) + j
      <4>1. CASE j \in 1 .. Len(page[s])
        BY <4>1, <2>2, <2>3, <3>2
      <4>2. CASE j = Len(page[s]) + 1
        BY <4>2, <2>1, <2>4, <2>9, <3>2, <3>3, <3>4
      <4> QED BY <3>2, <4>1, <4>2
    <3>6. query[s].pageSize > 0 =>
            /\ Len(longer) <= PageSize(s)
            /\ phase'[s] = "reading" => Len(longer) < PageSize(s)
      BY <2>3, <2>4, <3>1, <3>2
    <3>7. Len(longer) = IF c + 1 > Skipped(s) THEN c + 1 - Skipped(s) ELSE 0
      BY <2>1, <2>4, <2>9, <3>2, <3>3
    <3>8. PageInv(s)'
      <4>1. /\ lines'[output'[s]] = lines[k] /\ pos'[s] = i /\ page'[s] = longer
            /\ matchedCounter'[s] = Cardinality(Found(lines[k], i))
            /\ matchedCounter'[s] = c + 1
            /\ query'[s] = query[s] /\ phase'[s] \in {"done", "reading"}
        BY <1>1, <1>2, <2>1, <2>9, <3>1
      <4> HIDE DEF c, i
      <4>2. (Len(page[s]) = IF matchedCounter[s] > Skipped(s)
                              THEN matchedCounter[s] - Skipped(s) ELSE 0)'
        <5>1. c \in Nat /\ Skipped(s) \in Nat
          BY <2>1, <2>4
        <5> QED BY <2>6, <3>7, <4>1, <5>1
      <4>3. (\A j \in 1 .. Len(page[s]) :
               /\ page[s][j] \in Found(lines[output[s]], pos[s])
               /\ Cardinality(Found(lines[output[s]], page[s][j])) = Skipped(s) + j)'
        BY <2>6, <3>5, <4>1
      <4>4. (query[s].pageSize > 0 =>
               /\ Len(page[s]) <= PageSize(s)
               /\ phase[s] \in {"row", "open", "reading"} => Len(page[s]) < PageSize(s))'
        BY <2>6, <3>6, <4>1
      <4> QED BY <4>1, <4>2, <4>3, <4>4 DEF PageInv
    <3>9. EndInv(s)'
      BY <1>1, <1>2, <1>4, <1>6, <2>6, <3>1 DEF EndInv
    <3> QED BY <3>8, <3>9
  <2> QED BY <2>1, <2>4, <2>7, <2>8, <2>9
<1> QED BY <1>5, <1>6

LEMMA NextKeeps == ASSUME Inv, [Next]_vars PROVE Inv'
<1>1. SearchTypeOK'
  BY NextType DEF Inv
<1>2. ASSUME NEW r \in Searches PROVE PageInv(r)' /\ EndInv(r)'
  <2>1. CASE FileStep \/ UNCHANGED vars
    <3>1. FileGrows /\ UNCHANGED searchVars
      BY <2>1, FileNextGrows, SameFileGrows DEF FileStep, vars, Inv
    <3> QED BY <3>1, Undisturbed DEF searchVars, Inv
  <2>2. CASE Halt
    BY <2>2 DEF Halt, PageInv, EndInv
  <2>3. CASE \E s \in Searches :
               \/ \E k \in Outputs, q \in Queries : Ask(s, k, q)
               \/ Search(s) \/ Reply(s)
    BY <2>3, OthersKeep, AskKeeps, FindRunKeeps, OpenFileKeeps, ReadLineKeeps,
       ReadEndKeeps, ReplyKeeps DEF Search
  <2> QED BY <2>1, <2>2, <2>3 DEF Next
<1> QED BY <1>1, <1>2 DEF Inv

LEMMA InitInv == Init => Inv
BY InitType DEF Init, NoSearch, Inv, PageInv, EndInv

LEMMA InvImplies == Inv => PageIsExact /\ NothingMissed
<1> SUFFICES ASSUME Inv PROVE PageIsExact /\ NothingMissed
  OBVIOUS
<1>1. \A k, n : Matches(k, n) = Found(lines[k], n)
  BY DEF Matches, Found
<1>2. PageIsExact
  BY <1>1 DEF PageIsExact, Inv, PageInv
<1>3. NothingMissed
  <2> SUFFICES ASSUME NEW s \in Searches, phase[s] = "done", query[s].op = "page",
                      Len(page[s]) # PageSize(s)
               PROVE  LET found == Cardinality(Matches(output[s], pos[s]))
                      IN  /\ pos[s] >= began[s]
                          /\ Len(page[s]) = IF found > Skipped(s) THEN found - Skipped(s)
                                                                  ELSE 0
    BY DEF NothingMissed
  <2> QED BY <1>1 DEF Inv, PageInv, EndInv
<1> QED BY <1>2, <1>3

\* A page is made of the entries after `from` in their order, none left out and none
\* twice, whatever happens to the file (buildPaginator, paging.utils.ts 10-36).
THEOREM PagesExact == Spec => []PageIsExact
BY InitInv, NextKeeps, InvImplies, PTL DEF Spec

\* A page that is not full reaches the end of the file (searchLog, searchMetric).
THEOREM PagesComplete == Spec => []NothingMissed
BY InitInv, NextKeeps, InvImplies, PTL DEF Spec

-----------------------------------------------------------------------------
(* Sums over finite sets *)

\* g gives the sum of h over each subset of S, taken element by element in the
\* order in which a fold chooses them.
Folds(g, h, S) ==
  g = [s \in SUBSET S |->
         IF s = {} THEN 0
         ELSE h[CHOOSE x \in s : TRUE] + g[s \ {CHOOSE x \in s : TRUE}]]

\* The same of the subsets that have n elements at most.
FoldsUpTo(g, h, S, n) ==
  \A s \in SUBSET S :
    Cardinality(s) <= n =>
      /\ g[s] \in Int
      /\ g[s] = IF s = {} THEN 0
                ELSE h[CHOOSE x \in s : TRUE] + g[s \ {CHOOSE x \in s : TRUE}]

\* A set of naturals has a least one.
LEMMA Least ==
  ASSUME NEW T \in SUBSET Nat, T # {}
  PROVE  \E n \in T : \A m \in T : n <= m
<1>1. PICK n \in T : \A m \in T : ~ (<<m, n>> \in OpToRel(<, Nat))
  BY NatLessThanWellFounded, WFMin
<1>2. \A m \in T : ~ (m < n)
  BY <1>1 DEF OpToRel
<1> QED BY <1>2

LEMMA SubsetFacts ==
  ASSUME NEW S, IsFiniteSet(S), NEW s \in SUBSET S
  PROVE  /\ IsFiniteSet(s) /\ Cardinality(s) \in Nat /\ Cardinality(s) <= Cardinality(S)
         /\ Cardinality(s) = 0 <=> s = {}
         /\ \A x \in s : s \ {x} \in SUBSET S /\ Cardinality(s \ {x}) = Cardinality(s) - 1
         /\ s # {} => (CHOOSE x \in s : TRUE) \in s
<1>1. IsFiniteSet(s) /\ Cardinality(s) \in Nat /\ Cardinality(s) <= Cardinality(S)
  BY FS_Subset, FS_CardinalityType
<1>2. Cardinality(s) = 0 <=> s = {}
  BY <1>1, FS_EmptySet
<1>3. ASSUME NEW x \in s
      PROVE  s \ {x} \in SUBSET S /\ Cardinality(s \ {x}) = Cardinality(s) - 1
  BY <1>1, FS_RemoveElement
<1>4. s # {} => (CHOOSE x \in s : TRUE) \in s
  OBVIOUS
<1> QED BY <1>1, <1>2, <1>3, <1>4

LEMMA FoldsExist ==
  ASSUME NEW S, IsFiniteSet(S), NEW h, \A x \in S : h[x] \in Int
  PROVE  \E g : Folds(g, h, S) /\ \A s \in SUBSET S : g[s] \in Int
<1> DEFINE T == {n \in Nat : ~\E g : FoldsUpTo(g, h, S, n)}
<1>1. T = {}
  <2> SUFFICES ASSUME T # {} PROVE FALSE
    OBVIOUS
  <2>1. PICK n \in T : \A m \in T : n <= m
    BY Least
  <2>2. n \in Nat /\ ~\E g : FoldsUpTo(g, h, S, n)
    OBVIOUS
  <2>3. CASE n = 0
    <3> DEFINE g == [s \in SUBSET S |-> 0]
    <3>1. ASSUME NEW s \in SUBSET S, Cardinality(s) <= 0 PROVE s = {}
      BY <3>1, SubsetFacts
    <3>2. FoldsUpTo(g, h, S, 0)
      BY <3>1 DEF FoldsUpTo
    <3> QED BY <2>2, <2>3, <3>2
  <2>4. CASE n # 0
    <3>1. n - 1 \in Nat /\ n - 1 \notin T
      BY <2>1, <2>2, <2>4
    <3>2. PICK g : FoldsUpTo(g, h, S, n - 1)
      BY <3>1
    <3> DEFINE k == [s \in SUBSET S |->
                       IF s = {} THEN 0
                       ELSE h[CHOOSE x \in s : TRUE] + g[s \ {CHOOSE x \in s : TRUE}]]
    <3>3. ASSUME NEW s \in SUBSET S, Cardinality(s) <= n - 1 PROVE k[s] = g[s]
      BY <3>2, <3>3 DEF FoldsUpTo
    <3>4. ASSUME NEW s \in SUBSET S, Cardinality(s) <= n
          PROVE  /\ k[s] \in Int
                 /\ k[s] = IF s = {} THEN 0
                           ELSE h[CHOOSE x \in s : TRUE] + k[s \ {CHOOSE x \in s : TRUE}]
      <4>1. CASE s = {}
        BY <4>1
      <4>2. CASE s # {}
        <5>1. PICK x \in s : x = CHOOSE y \in s : TRUE
          BY <4>2
        <5>2. /\ s \ {x} \in SUBSET S /\ Cardinality(s \ {x}) <= n - 1
          <6>1. /\ s \ {x} \in SUBSET S /\ Cardinality(s \ {x}) = Cardinality(s) - 1
                /\ Cardinality(s) \in Nat
            BY SubsetFacts
          <6> QED BY <2>2, <3>4, <6>1
        <5>3. k[s \ {x}] = g[s \ {x}] /\ g[s \ {x}] \in Int
          BY <3>2, <3>3, <5>2 DEF FoldsUpTo
        <5>4. k[s] = h[x] + g[s \ {x}]
          BY <4>2, <5>1
        <5> QED BY <4>2, <5>1, <5>3, <5>4
      <4> QED BY <4>1, <4>2
    <3> HIDE DEF k
    <3>5. FoldsUpTo(k, h, S, n)
      BY <3>4 DEF FoldsUpTo
    <3> QED BY <2>2, <3>5
  <2> QED BY <2>3, <2>4
<1>2. Cardinality(S) \in Nat
  BY FS_CardinalityType
<1>3. PICK g : FoldsUpTo(g, h, S, Cardinality(S))
  BY <1>1, <1>2
<1> DEFINE k == [s \in SUBSET S |-> g[s]]
<1>4. \A s \in SUBSET S : Cardinality(s) <= Cardinality(S)
  BY SubsetFacts
<1>5. ASSUME NEW s \in SUBSET S
      PROVE  /\ k[s] \in Int
             /\ k[s] = IF s = {} THEN 0
                       ELSE h[CHOOSE x \in s : TRUE] + k[s \ {CHOOSE x \in s : TRUE}]
  BY <1>3, <1>4 DEF FoldsUpTo
<1>6. k = [s \in SUBSET S |->
             IF s = {} THEN 0
             ELSE h[CHOOSE x \in s : TRUE] + k[s \ {CHOOSE x \in s : TRUE}]]
  <2>1. \A s \in SUBSET S :
          g[s] = IF s = {} THEN 0
                 ELSE h[CHOOSE x \in s : TRUE] + k[s \ {CHOOSE x \in s : TRUE}]
    BY <1>5
  <2> QED BY <2>1
<1> HIDE DEF k
<1>7. Folds(k, h, S)
  BY <1>6 DEF Folds
<1> QED BY <1>5, <1>7

\* A sum depends on the summands only.
LEMMA FoldsAgree ==
  ASSUME NEW S, IsFiniteSet(S), NEW h, NEW g, Folds(g, h, S),
         NEW U, IsFiniteSet(U), NEW j, NEW k, Folds(k, j, U)
  PROVE  \A s \in SUBSET (S \cap U) : (\A x \in s : h[x] = j[x]) => g[s] = k[s]
<1> DEFINE T == {n \in Nat : \E s \in SUBSET (S \cap U) :
                   Cardinality(s) = n /\ (\A x \in s : h[x] = j[x]) /\ g[s] # k[s]}
<1>1. T = {}
  <2> SUFFICES ASSUME T # {} PROVE FALSE
    OBVIOUS
  <2>1. PICK n \in T : \A m \in T : n <= m
    BY Least
  <2>2. PICK s \in SUBSET (S \cap U) :
          Cardinality(s) = n /\ (\A x \in s : h[x] = j[x]) /\ g[s] # k[s]
    OBVIOUS
  <2>3. s \in SUBSET S /\ s \in SUBSET U
    OBVIOUS
  <2>4. s # {}
    BY <2>2, <2>3 DEF Folds
  <2>5. PICK x \in s : x = CHOOSE z \in s : TRUE
    BY <2>4
  <2>6. g[s] = h[x] + g[s \ {x}] /\ k[s] = j[x] + k[s \ {x}]
    BY <2>3, <2>4, <2>5 DEF Folds
  <2>7. Cardinality(s \ {x}) = n - 1 /\ n \in Nat /\ n # 0 /\ Cardinality(s \ {x}) \in Nat
    <3>1. /\ Cardinality(s \ {x}) = Cardinality(s) - 1 /\ Cardinality(s) \in Nat
          /\ Cardinality(s) # 0 /\ s \ {x} \in SUBSET S
      BY <2>3, <2>4, SubsetFacts
    <3>2. Cardinality(s \ {x}) \in Nat
      BY <3>1, SubsetFacts
    <3> QED BY <2>2, <3>1, <3>2
  <2>8. n - 1 \notin T
    BY <2>1, <2>7
  <2>9. g[s \ {x}] = k[s \ {x}]
    <3>1. s \ {x} \in SUBSET (S \cap U) /\ \A z \in s \ {x} : h[z] = j[z]
      BY <2>2
    <3> QED BY <2>7, <2>8, <3>1
  <2> QED BY <2>2, <2>6, <2>9
<1> SUFFICES ASSUME NEW s \in SUBSET (S \cap U), \A x \in s : h[x] = j[x], g[s] # k[s]
             PROVE  FALSE
  OBVIOUS
<1>2. Cardinality(s) \in Nat
  BY SubsetFacts
<1>3. Cardinality(s) \in T
  BY <1>2
<1> QED BY <1>1, <1>3

LEMMA FoldsType ==
  ASSUME NEW S, IsFiniteSet(S), NEW h, \A x \in S : h[x] \in Int, NEW g, Folds(g, h, S)
  PROVE  \A s \in SUBSET S : g[s] \in Int
<1>1. PICK k : Folds(k, h, S) /\ \A s \in SUBSET S : k[s] \in Int
  BY FoldsExist
<1> SUFFICES ASSUME NEW s \in SUBSET S PROVE g[s] \in Int
  OBVIOUS
<1>2. s \in SUBSET (S \cap S) /\ \A x \in s : h[x] = h[x]
  OBVIOUS
<1>3. g[s] = k[s]
  BY <1>1, <1>2, FoldsAgree
<1> QED BY <1>1, <1>3

\* The order does not matter: any element may be the last to be added.
LEMMA FoldsAny ==
  ASSUME NEW S, IsFiniteSet(S), NEW h, \A x \in S : h[x] \in Int, NEW g, Folds(g, h, S),
         NEW t \in SUBSET S, NEW z \in t
  PROVE  g[t] = h[z] + g[t \ {z}]
<1> DEFINE T == {n \in Nat : \E s \in SUBSET S : Cardinality(s) = n /\
                               \E x \in s : g[s] # h[x] + g[s \ {x}]}
<1>1. T = {}
  <2> SUFFICES ASSUME T # {} PROVE FALSE
    OBVIOUS
  <2>1. PICK n \in T : \A m \in T : n <= m
    BY Least
  <2>2. PICK s \in SUBSET S : Cardinality(s) = n /\ \E x \in s : g[s] # h[x] + g[s \ {x}]
    OBVIOUS
  <2>3. PICK x \in s : g[s] # h[x] + g[s \ {x}]
    BY <2>2
  <2>4. PICK y \in s : y = CHOOSE v \in s : TRUE
    BY <2>3
  <2>5. g[s] = h[y] + g[s \ {y}]
    BY <2>3, <2>4 DEF Folds
  <2>6. x # y
    BY <2>3, <2>5
  <2>7. \A u \in SUBSET S : \A v \in u : Cardinality(u) < n => g[u] = h[v] + g[u \ {v}]
    <3> SUFFICES ASSUME NEW u \in SUBSET S, NEW v \in u, Cardinality(u) < n,
                        g[u] # h[v] + g[u \ {v}]
                 PROVE  FALSE
      OBVIOUS
    <3>1. Cardinality(u) \in Nat
      BY SubsetFacts
    <3>2. Cardinality(u) \in T
      BY <3>1
    <3>3. n <= Cardinality(u) /\ n \in Nat
      BY <2>1, <3>2
    <3> QED BY <3>1, <3>3
  <2>8. /\ s \ {x} \in SUBSET S /\ s \ {y} \in SUBSET S /\ n \in Nat
        /\ Cardinality(s \ {x}) < n /\ Cardinality(s \ {y}) < n
    <3>1. /\ Cardinality(s) \in Nat /\ Cardinality(s) = n
          /\ \A v \in s : s \ {v} \in SUBSET S /\ Cardinality(s \ {v}) = Cardinality(s) - 1
      BY <2>2, SubsetFacts
    <3> QED BY <3>1
  <2>9. g[s \ {y}] = h[x] + g[(s \ {y}) \ {x}] /\ g[s \ {x}] = h[y] + g[(s \ {x}) \ {y}]
    BY <2>6, <2>7, <2>8
  <2>10. (s \ {y}) \ {x} = (s \ {x}) \ {y}
    OBVIOUS
  <2>11. h[x] \in Int /\ h[y] \in Int /\ g[(s \ {x}) \ {y}] \in Int
    BY <2>8, FoldsType
  <2> DEFINE rest == g[(s \ {x}) \ {y}]
  <2>12. g[s] = h[y] + (h[x] + rest) /\ g[s \ {x}] = h[y] + rest
    BY <2>5, <2>9, <2>10
  <2> HIDE DEF rest
  <2> QED BY <2>3, <2>11, <2>12 DEF rest
<1> SUFFICES ASSUME g[t] # h[z] + g[t \ {z}] PROVE FALSE
  OBVIOUS
<1>2. Cardinality(t) \in Nat
  BY SubsetFacts
<1>3. Cardinality(t) \in T
  BY <1>2
<1> QED BY <1>1, <1>3

-----------------------------------------------------------------------------
\* The sum of h over S.
Total(h, S) == FoldFunctionOnSet(+, 0, h, S)

LEMMA TotalFolds ==
  ASSUME NEW S, IsFiniteSet(S), NEW h, \A x \in S : h[x] \in Int
  PROVE  \E g : Folds(g, h, S) /\ Total(h, S) = g[S]
<1>1. PICK k : Folds(k, h, S)
  BY FoldsExist
<1> QED BY <1>1 DEF Total, FoldFunctionOnSet, MapThenFoldSet, Folds

\* The other folds are sums, too: of squares, and of what std adds up.
LEMMA SquaresFold ==
  ASSUME NEW S, IsFiniteSet(S), NEW f, \A x \in S : f[x] \in Int,
         NEW h, \A x \in S : h[x] = f[x] * f[x]
  PROVE  FoldFunctionOnSet(LAMBDA v, t : v * v + t, 0, f, S) = Total(h, S)
<1>1. \A x \in S : h[x] \in Int
  OBVIOUS
<1>2. PICK g : Folds(g, h, S) /\ Total(h, S) = g[S]
  BY <1>1, TotalFolds
<1> DEFINE Squares(k) ==
      k = [s \in SUBSET S |->
             IF s = {} THEN 0
             ELSE f[CHOOSE x \in s : TRUE] * f[CHOOSE x \in s : TRUE]
                    + k[s \ {CHOOSE x \in s : TRUE}]]
<1>3. \A s \in SUBSET S : s # {} => (CHOOSE x \in s : TRUE) \in S
  OBVIOUS
<1>4. \A k : Squares(k) <=> Folds(k, h, S)
  BY <1>3 DEF Folds
<1>5. Squares(g)
  BY <1>2, <1>4
<1> HIDE DEF Squares
<1>6. PICK k : Squares(k) /\ FoldFunctionOnSet(LAMBDA v, t : v * v + t, 0, f, S) = k[S]
  BY <1>5 DEF FoldFunctionOnSet, MapThenFoldSet, Squares
<1>7. Folds(k, h, S)
  BY <1>4, <1>6
<1>8. S \in SUBSET (S \cap S) /\ \A x \in S : h[x] = h[x]
  OBVIOUS
<1>9. k[S] = g[S]
  BY <1>2, <1>7, <1>8, FoldsAgree
<1> QED BY <1>2, <1>6, <1>9

LEMMA TotalType ==
  ASSUME NEW S, IsFiniteSet(S), NEW h, \A x \in S : h[x] \in Int
  PROVE  Total(h, S) \in Int
<1>1. PICK g : Folds(g, h, S) /\ Total(h, S) = g[S]
  BY TotalFolds
<1>2. S \in SUBSET S
  OBVIOUS
<1> QED BY <1>1, <1>2, FoldsType

LEMMA TotalAgrees ==
  ASSUME NEW S, IsFiniteSet(S), NEW h, NEW j, \A x \in S : h[x] \in Int /\ j[x] = h[x]
  PROVE  Total(j, S) = Total(h, S)
<1>1. \A x \in S : h[x] \in Int /\ j[x] \in Int
  OBVIOUS
<1>2. PICK g : Folds(g, h, S) /\ Total(h, S) = g[S]
  BY <1>1, TotalFolds
<1>3. PICK k : Folds(k, j, S) /\ Total(j, S) = k[S]
  BY <1>1, TotalFolds
<1>4. S \in SUBSET (S \cap S)
  OBVIOUS
<1> QED BY <1>2, <1>3, <1>4, FoldsAgree

LEMMA TotalEmpty == ASSUME NEW h PROVE Total(h, {}) = 0
<1>1. IsFiniteSet({}) /\ \A x \in {} : h[x] \in Int
  BY FS_EmptySet
<1>2. PICK g : Folds(g, h, {}) /\ Total(h, {}) = g[{}]
  BY <1>1, TotalFolds
<1> QED BY <1>2 DEF Folds

\* One more summand.
LEMMA TotalAdds ==
  ASSUME NEW S, IsFiniteSet(S), NEW x, x \notin S, NEW h, h[x] \in Int,
         NEW j, \A y \in S : j[y] \in Int /\ h[y] = j[y]
  PROVE  Total(h, S \cup {x}) = h[x] + Total(j, S)
<1> DEFINE U == S \cup {x}
<1>1. IsFiniteSet(U) /\ x \in U /\ S \in SUBSET U /\ U \ {x} = S
  BY FS_AddElement
<1>2. \A y \in U : h[y] \in Int
  OBVIOUS
<1> HIDE DEF U
<1>3. PICK g : Folds(g, h, U) /\ Total(h, U) = g[U]
  BY <1>1, <1>2, TotalFolds
<1>4. PICK k : Folds(k, j, S) /\ Total(j, S) = k[S]
  BY TotalFolds
<1>5. g[U] = h[x] + g[S]
  <2>1. U \in SUBSET U /\ Folds(g, h, U)
    BY <1>3
  <2>2. g[U] = h[x] + g[U \ {x}]
    BY <1>1, <1>2, <2>1, FoldsAny
  <2> QED BY <1>1, <2>2
<1>6. g[S] = k[S]
  <2>1. S \in SUBSET (U \cap S) /\ \A y \in S : h[y] = j[y]
    BY <1>1
  <2> QED BY <1>1, <1>3, <1>4, <2>1, FoldsAgree
<1> QED BY <1>3, <1>4, <1>5, <1>6 DEF U

\* What std adds up (buildStdAggregator): its values are kept, their number and sum
\* are those of the other aggregators.
LEMMA DeviationFold ==
  ASSUME NEW a \in Acc,
         NEW h, \A i \in DOMAIN a.values :
                  h[i] = (a.cnt * a.values[i] - a.sum) * (a.cnt * a.values[i] - a.sum)
  PROVE  Built(a).std = Total(h, DOMAIN a.values)
<1> DEFINE S == DOMAIN a.values
           c == a.cnt
           w == a.sum
           f == a.values
           Deviations(k) ==
             k = [s \in SUBSET S |->
                    IF s = {} THEN 0
                    ELSE (c * f[CHOOSE x \in s : TRUE] - w)
                           * (c * f[CHOOSE x \in s : TRUE] - w)
                           + k[s \ {CHOOSE x \in s : TRUE}]]
<1>1. /\ IsFiniteSet(S) /\ c \in Int /\ w \in Int
      /\ \A x \in S : f[x] \in Int
  <2>1. a.values \in Seq(Int) /\ a.cnt \in Int /\ a.sum \in Int
    BY DEF Acc
  <2>2. S = 1 .. Len(a.values) /\ Len(a.values) \in Nat
    BY <2>1
  <2>3. IsFiniteSet(1 .. Len(a.values))
    BY <2>2, FS_Interval
  <2>4. \A x \in 1 .. Len(a.values) : a.values[x] \in Int
    BY <2>1, <2>2
  <2> QED BY <2>1, <2>2, <2>3, <2>4
<1>2. \A x \in S : h[x] \in Int
  BY <1>1
<1>3. PICK g : Folds(g, h, S) /\ Total(h, S) = g[S]
  BY <1>1, <1>2, TotalFolds
<1>4. \A s \in SUBSET S : s # {} => (CHOOSE x \in s : TRUE) \in S
  OBVIOUS
<1>5. \A k : Deviations(k) <=> Folds(k, h, S)
  BY <1>4 DEF Folds
<1>6. Deviations(g)
  BY <1>3, <1>5
<1> HIDE DEF Deviations
<1>7. PICK k : Deviations(k) /\ Built(a).std = k[S]
  BY <1>6 DEF Built, FoldFunction, FoldFunctionOnSet, MapThenFoldSet, Deviations
<1>8. Folds(k, h, S)
  BY <1>5, <1>7
<1>9. S \in SUBSET (S \cap S) /\ \A x \in S : h[x] = h[x]
  OBVIOUS
<1>10. k[S] = g[S]
  BY <1>1, <1>3, <1>8, <1>9, FoldsAgree
<1> QED BY <1>3, <1>7, <1>10



LEMMA OneSquareMore ==
  ASSUME NEW c \in Int, NEW w \in Int, NEW v \in Int, NEW D \in Int, NEW Q \in Int,
         NEW V \in Int, NEW n \in Int, NEW d, d = (c * v - w) * (c * v - w),
         D = c * c * Q - 2 * c * w * V + n * (w * w)
  PROVE  d + D = c * c * (v * v + Q) - 2 * c * w * (v + V) + (n + 1) * (w * w)
OBVIOUS

\* Of each element of S, d is the square of how far c times v is from w.
Deviates(S, c, w, v, q, d) ==
  /\ IsFiniteSet(S) /\ c \in Int /\ w \in Int
  /\ \A x \in S : /\ v[x] \in Int /\ q[x] = v[x] * v[x]
                   /\ d[x] = (c * v[x] - w) * (c * v[x] - w)

\* The sum of the squared deviations, multiplied out.
LEMMA TotalDeviations ==
  ASSUME NEW S, NEW c, NEW w, NEW v, NEW q, NEW d, Deviates(S, c, w, v, q, d)
  PROVE  Total(d, S) = c * c * Total(q, S) - 2 * c * w * Total(v, S)
                         + Cardinality(S) * (w * w)
<1> USE DEF Deviates
<1> DEFINE Expands(s) == Total(d, s) = c * c * Total(q, s) - 2 * c * w * Total(v, s)
                                         + Cardinality(s) * (w * w)
           T == {n \in Nat : \E s \in SUBSET S : Cardinality(s) = n /\ ~Expands(s)}
<1>1. T = {}
  <2> SUFFICES ASSUME T # {} PROVE FALSE
    OBVIOUS
  <2>1. PICK n \in T : \A m \in T : n <= m
    BY Least
  <2>2. PICK s \in SUBSET S : Cardinality(s) = n /\ ~Expands(s)
    OBVIOUS
  <2>3. s # {}
    <3>1. Expands({})
      BY TotalEmpty, FS_EmptySet
    <3> QED BY <2>2, <3>1
  <2>4. PICK x : x \in s
    BY <2>3
  <2> DEFINE r == s \ {x}
  <2>5. /\ IsFiniteSet(r) /\ r \in SUBSET S /\ x \notin r /\ r \cup {x} = s
        /\ Cardinality(r) = n - 1 /\ n - 1 \in Nat /\ n \in Nat
    <3>1. r \in SUBSET S /\ Cardinality(r) = Cardinality(s) - 1
      BY <2>4, SubsetFacts
    <3>2. IsFiniteSet(r) /\ Cardinality(r) \in Nat
      BY <3>1, SubsetFacts
    <3> QED BY <2>2, <2>4, <3>1, <3>2
  <2>6. Expands(r)
    <3>1. n - 1 \notin T
      BY <2>1, <2>5
    <3> HIDE DEF r, Expands
    <3> QED BY <2>5, <3>1
  <2>7. v[x] \in Int /\ q[x] = v[x] * v[x] /\ d[x] = (c * v[x] - w) * (c * v[x] - w)
    BY <2>4
  <2>8. /\ \A y \in r : v[y] \in Int /\ q[y] \in Int /\ d[y] \in Int
        /\ q[x] \in Int /\ d[x] \in Int
    BY <2>7
  <2> HIDE DEF r
  <2>9. Total(v, r) \in Int /\ Total(q, r) \in Int /\ Total(d, r) \in Int
    BY <2>5, <2>8, TotalType
  <2>10. Total(v, s) = v[x] + Total(v, r)
    BY <2>5, <2>7, <2>8, TotalAdds
  <2>11. Total(q, s) = q[x] + Total(q, r)
    BY <2>5, <2>8, TotalAdds
  <2>12. Total(d, s) = d[x] + Total(d, r)
    BY <2>5, <2>8, TotalAdds
  <2>13. d[x] + Total(d, r) = c * c * (v[x] * v[x] + Total(q, r))
                                - 2 * c * w * (v[x] + Total(v, r)) + (n - 1 + 1) * (w * w)
    <3>1. Total(d, r) = c * c * Total(q, r) - 2 * c * w * Total(v, r) + (n - 1) * (w * w)
      BY <2>5, <2>6
    <3> QED BY <2>5, <2>7, <2>9, <3>1, OneSquareMore
  <2>14. n - 1 + 1 = n
    BY <2>5
  <2> QED BY <2>2, <2>7, <2>10, <2>11, <2>12, <2>13, <2>14
<1> SUFFICES ASSUME ~Expands(S) PROVE FALSE
  OBVIOUS
<1>2. Cardinality(S) \in Nat /\ S \in SUBSET S
  BY FS_CardinalityType
<1> HIDE DEF Expands
<1>3. Cardinality(S) \in T
  BY <1>2
<1> QED BY <1>1, <1>3

-----------------------------------------------------------------------------
(* Aggregates *)

\* The first n entries of a file that are looked for and have the attribute.
Shown(f, n) == {i \in 1 .. n : f[i].match /\ f[i].value # NoValue}

ValuesOf(f) == [i \in DOMAIN f |-> f[i].value]
SquaresOf(f) == [i \in DOMAIN f |-> f[i].value * f[i].value]
SquaresIn(values) == [j \in DOMAIN values |-> values[j] * values[j]]

\* Places of a file that have the attribute.
HaveValues(f, I) ==
  /\ f \in Seq(Entries) /\ I \in SUBSET (1 .. Len(f)) /\ IsFiniteSet(I)
  /\ \A i \in I : f[i].value \in Values

\* The accumulator has seen the entries of the file f at the places I, in some
\* order; the values that std keeps are known by their number, sum and squares.
Sums(a, f, I) ==
  /\ a \in Acc
  /\ a.cnt = Cardinality(I) /\ Len(a.values) = a.cnt
  /\ a.sum = Total(ValuesOf(f), I)
  /\ Total(a.values, DOMAIN a.values) = a.sum
  /\ Total(SquaresIn(a.values), DOMAIN a.values) = Total(SquaresOf(f), I)
  /\ IF I = {} THEN a.max = -Infinity /\ a.min = Infinity
     ELSE /\ \E i \in I : f[i].value = a.max
          /\ \E i \in I : f[i].value = a.min
          /\ \A i \in I : a.min <= f[i].value /\ f[i].value <= a.max

LEMMA SumsEmpty == ASSUME NEW f PROVE Sums(EmptyAcc, f, {})
<1>1. EmptyAcc \in Acc
  BY SearchAssumption DEF EmptyAcc, Acc
<1>2. EmptyAcc.values = <<>> /\ DOMAIN <<>> = {} /\ Len(<<>>) = 0
  BY DEF EmptyAcc
<1>3. Total(ValuesOf(f), {}) = 0 /\ Total(SquaresOf(f), {}) = 0
      /\ Total(EmptyAcc.values, {}) = 0 /\ Total(SquaresIn(EmptyAcc.values), {}) = 0
  BY TotalEmpty
<1>4. /\ EmptyAcc.sum = 0 /\ EmptyAcc.cnt = 0
      /\ EmptyAcc.max = -Infinity /\ EmptyAcc.min = Infinity
  BY DEF EmptyAcc
<1>5. Cardinality({}) = 0
  BY FS_EmptySet
<1> QED BY <1>1, <1>2, <1>3, <1>4, <1>5 DEF Sums

LEMMA ValueFacts ==
  ASSUME NEW f, NEW I, HaveValues(f, I), NEW i \in I
  PROVE  /\ f[i].value \in Int /\ -Infinity < f[i].value /\ f[i].value < Infinity
         /\ ValuesOf(f)[i] = f[i].value /\ ValuesOf(f)[i] \in Int
         /\ SquaresOf(f)[i] = f[i].value * f[i].value /\ SquaresOf(f)[i] \in Int
<1>1. f[i].value \in Values /\ f \in Seq(Entries) /\ i \in 1 .. Len(f)
  BY DEF HaveValues
<1>2. DOMAIN f = 1 .. Len(f)
  BY <1>1
<1>3. f[i].value \in Int /\ -Infinity < f[i].value /\ f[i].value < Infinity
  BY <1>1, SearchAssumption
<1>4. f[i].value * f[i].value \in Int
  BY <1>3
<1>5. /\ ValuesOf(f)[i] = f[i].value
      /\ SquaresOf(f)[i] = f[i].value * f[i].value
  BY <1>1, <1>2 DEF ValuesOf, SquaresOf
<1> QED BY <1>3, <1>4, <1>5

\* What an accumulator has seen is still there when the file has grown.
LEMMA SumsStay ==
  ASSUME NEW a, NEW f, NEW g, NEW I, HaveValues(f, I), HaveValues(g, I),
         \A i \in I : g[i] = f[i], Sums(a, f, I)
  PROVE  Sums(a, g, I)
<1>1. \A i \in I : /\ ValuesOf(f)[i] \in Int /\ SquaresOf(f)[i] \in Int
                   /\ ValuesOf(g)[i] = ValuesOf(f)[i] /\ SquaresOf(g)[i] = SquaresOf(f)[i]
  BY ValueFacts
<1>2. IsFiniteSet(I)
  BY DEF HaveValues
<1>3. Total(ValuesOf(g), I) = Total(ValuesOf(f), I)
  BY <1>1, <1>2, TotalAgrees
<1>4. Total(SquaresOf(g), I) = Total(SquaresOf(f), I)
  BY <1>1, <1>2, TotalAgrees
<1> QED BY <1>3, <1>4 DEF Sums

\* A value at the end of a sequence is one more summand.
LEMMA TotalAppends ==
  ASSUME NEW q \in Seq(Int), NEW v \in Int
  PROVE  /\ Total(Append(q, v), DOMAIN Append(q, v)) = v + Total(q, DOMAIN q)
         /\ Total(SquaresIn(Append(q, v)), DOMAIN Append(q, v))
              = v * v + Total(SquaresIn(q), DOMAIN q)
<1> DEFINE p == Append(q, v)
           n == Len(q)
<1>1. /\ n \in Nat /\ DOMAIN q = 1 .. n /\ DOMAIN p = 1 .. n + 1
      /\ p[n + 1] = v /\ \A j \in 1 .. n : p[j] = q[j] /\ q[j] \in Int
  OBVIOUS
<1>2. DOMAIN p = DOMAIN q \cup {n + 1} /\ n + 1 \notin DOMAIN q /\ IsFiniteSet(DOMAIN q)
  <2>1. 1 .. n + 1 = (1 .. n) \cup {n + 1} /\ n + 1 \notin 1 .. n
    BY <1>1
  <2>2. IsFiniteSet(1 .. n)
    BY <1>1, FS_Interval
  <2> QED BY <1>1, <2>1, <2>2
<1> HIDE DEF p, n
<1>3. Total(p, DOMAIN p) = v + Total(q, DOMAIN q)
  <2>1. \A y \in DOMAIN q : q[y] \in Int /\ p[y] = q[y]
    BY <1>1
  <2> QED BY <1>1, <1>2, <2>1, TotalAdds
<1>4. Total(SquaresIn(p), DOMAIN p) = v * v + Total(SquaresIn(q), DOMAIN q)
  <2> DEFINE h == SquaresIn(p)
             k == SquaresIn(q)
             x == n + 1
             D == DOMAIN q
  <2>1. h[x] = v * v /\ v * v \in Int
    BY <1>1, <1>2 DEF SquaresIn
  <2>5. h[x] \in Int
    BY <2>1
  <2>2. \A y \in D : k[y] \in Int /\ h[y] = k[y]
    BY <1>1, <1>2 DEF SquaresIn
  <2>3. DOMAIN p = D \cup {x} /\ x \notin D /\ IsFiniteSet(D)
    BY <1>2
  <2> HIDE DEF h, k, x, D
  <2>4. Total(h, D \cup {x}) = h[x] + Total(k, D)
    BY <2>2, <2>3, <2>5, TotalAdds
  <2> QED BY <2>1, <2>3, <2>4 DEF h, k, D
<1> QED BY <1>3, <1>4 DEF p

LEMMA SumsAdd ==
  ASSUME NEW a, NEW f, NEW I, Sums(a, f, I),
         NEW i, i \notin I, HaveValues(f, I \cup {i})
  PROVE  Sums(Added(a, f[i]), f, I \cup {i})
<1> DEFINE J == I \cup {i}
           v == f[i].value
           b == Added(a, f[i])
<1>1. HaveValues(f, I) /\ IsFiniteSet(I) /\ i \in J
  <2>1. I \in SUBSET J /\ IsFiniteSet(J)
    BY DEF HaveValues
  <2>2. IsFiniteSet(I)
    BY <2>1, FS_Subset
  <2> QED BY <2>1, <2>2 DEF HaveValues
<1>2. v \in Int /\ -Infinity < v /\ v < Infinity /\ v # NoValue /\ Infinity \in Int
  <2>1. v \in Values
    BY DEF HaveValues
  <2>2. v \in Int /\ -Infinity < v /\ v < Infinity /\ v # NoValue
    BY <2>1, SearchAssumption
  <2>3. Infinity \in Int
    BY SearchAssumption
  <2> QED BY <2>2, <2>3
<1>3. /\ a \in Acc /\ a.max \in Int /\ a.min \in Int /\ a.sum \in Int /\ a.cnt \in Nat
      /\ a.values \in Seq(Int) /\ a.cnt = Cardinality(I) /\ Len(a.values) = a.cnt
      /\ Total(a.values, DOMAIN a.values) = a.sum
      /\ a.sum = Total(ValuesOf(f), I)
      /\ Total(SquaresIn(a.values), DOMAIN a.values) = Total(SquaresOf(f), I)
  BY DEF Sums, Acc
<1>4. /\ b.max = Higher(a.max, v) /\ b.min = Lower(a.min, v)
      /\ b.sum = a.sum + v /\ b.cnt = a.cnt + 1 /\ b.values = Append(a.values, v)
  BY <1>2 DEF Added
<1>5. b \in Acc
  BY <1>2, <1>3 DEF Acc, Added, Higher, Lower
<1>6. \A y \in J : /\ ValuesOf(f)[y] \in Int /\ ValuesOf(f)[y] = f[y].value
                   /\ SquaresOf(f)[y] \in Int /\ SquaresOf(f)[y] = f[y].value * f[y].value
  BY ValueFacts
<1>7. b.cnt = Cardinality(J)
  <2>1. Cardinality(J) = Cardinality(I) + 1
    BY <1>1, FS_AddElement
  <2> QED BY <1>3, <1>4, <2>1
<1>8. Len(b.values) = b.cnt
  BY <1>2, <1>3, <1>4
<1>9. Total(ValuesOf(f), J) = v + Total(ValuesOf(f), I)
  <2>1. /\ ValuesOf(f)[i] = v /\ ValuesOf(f)[i] \in Int
        /\ \A y \in I : ValuesOf(f)[y] \in Int /\ ValuesOf(f)[y] = ValuesOf(f)[y]
    BY <1>1, <1>6
  <2>2. Total(ValuesOf(f), I \cup {i}) = ValuesOf(f)[i] + Total(ValuesOf(f), I)
    BY <1>1, <2>1, TotalAdds
  <2> QED BY <2>1, <2>2
<1>10. Total(SquaresOf(f), J) = v * v + Total(SquaresOf(f), I)
  <2>1. /\ SquaresOf(f)[i] = v * v /\ SquaresOf(f)[i] \in Int
        /\ \A y \in I : SquaresOf(f)[y] \in Int /\ SquaresOf(f)[y] = SquaresOf(f)[y]
    BY <1>1, <1>6
  <2>2. Total(SquaresOf(f), I \cup {i}) = SquaresOf(f)[i] + Total(SquaresOf(f), I)
    BY <1>1, <2>1, TotalAdds
  <2> QED BY <2>1, <2>2
<1>11. b.sum = Total(ValuesOf(f), J)
  BY <1>2, <1>3, <1>4, <1>9
<1>12. Total(b.values, DOMAIN b.values) = b.sum
  <2>1. Total(b.values, DOMAIN b.values) = v + Total(a.values, DOMAIN a.values)
    BY <1>2, <1>3, <1>4, TotalAppends
  <2> QED BY <1>2, <1>3, <1>4, <2>1
<1>13. Total(SquaresIn(b.values), DOMAIN b.values) = Total(SquaresOf(f), J)
  <2>1. Total(SquaresIn(b.values), DOMAIN b.values)
          = v * v + Total(SquaresIn(a.values), DOMAIN a.values)
    BY <1>2, <1>3, <1>4, TotalAppends
  <2> QED BY <1>3, <1>10, <2>1
<1>14. /\ \E x \in J : f[x].value = b.max
       /\ \E x \in J : f[x].value = b.min
       /\ \A x \in J : b.min <= f[x].value /\ f[x].value <= b.max
  <2>1. \A x \in J : f[x].value \in Int
    BY <1>6
  <2>2. CASE I = {}
    <3>1. a.max = -Infinity /\ a.min = Infinity /\ J = {i}
      BY <2>2 DEF Sums
    <3>2. b.max = v /\ b.min = v
      BY <1>2, <1>4, <3>1 DEF Higher, Lower
    <3> QED BY <1>2, <3>1, <3>2
  <2>3. CASE I # {}
    <3>1. /\ \E x \in I : f[x].value = a.max
          /\ \E x \in I : f[x].value = a.min
          /\ \A x \in I : a.min <= f[x].value /\ f[x].value <= a.max
      BY <2>3 DEF Sums
    <3>2. /\ b.max \in {a.max, v} /\ b.max >= a.max /\ b.max >= v
          /\ b.min \in {a.min, v} /\ b.min <= a.min /\ b.min <= v
      BY <1>2, <1>3, <1>4 DEF Higher, Lower
    <3>3. \E x \in J : f[x].value = b.max
      BY <3>1, <3>2
    <3>4. \E x \in J : f[x].value = b.min
      BY <3>1, <3>2
    <3>5. ASSUME NEW x \in J PROVE b.min <= f[x].value /\ f[x].value <= b.max
      <4>1. b.min \in Int /\ b.max \in Int /\ f[x].value \in Int
        BY <1>2, <1>3, <2>1, <3>2
      <4>2. CASE x = i
        BY <3>2, <4>2
      <4>3. CASE x \in I
        BY <1>3, <3>1, <3>2, <4>1, <4>3
      <4> QED BY <4>2, <4>3
    <3> QED BY <3>3, <3>4, <3>5
  <2> QED BY <2>2, <2>3
<1> HIDE DEF J, b
<1>15. J # {}
  BY <1>1
<1>16. Sums(b, f, J)
  BY <1>5, <1>7, <1>8, <1>11, <1>12, <1>13, <1>14, <1>15 DEF Sums
<1> QED BY <1>16 DEF b, J

\* What is built from the accumulator is what the entries give.
LEMMA SumsExact ==
  ASSUME NEW a, NEW f, NEW I, HaveValues(f, I), Sums(a, f, I)
  PROVE  LET n == Cardinality(I)
             values == {f[i].value : i \in I}
             total == Total(ValuesOf(f), I)
             squares == Total(SquaresOf(f), I)
             b == Built(a)
         IN  /\ b.cnt = n /\ b.sum = total
             /\ IF n = 0 THEN b.max = 0 /\ b.min = 0
                         ELSE /\ b.max \in values /\ b.min \in values
                              /\ \A v \in values : b.min <= v /\ v <= b.max
             /\ b.std = n * (n * squares - total * total)
<1> DEFINE n == Cardinality(I)
           values == {f[i].value : i \in I}
           total == Total(ValuesOf(f), I)
           squares == Total(SquaresOf(f), I)
           b == Built(a)
           D == DOMAIN a.values
           d == [j \in D |-> (a.cnt * a.values[j] - a.sum) * (a.cnt * a.values[j] - a.sum)]
<1>1. /\ a \in Acc /\ a.cnt \in Nat /\ a.sum \in Int /\ a.max \in Int /\ a.min \in Int
      /\ a.values \in Seq(Int) /\ Len(a.values) = n /\ a.cnt = n /\ a.sum = total
  BY DEF Sums, Acc
<1>2. b.cnt = n /\ b.sum = total
  BY <1>1 DEF Built
<1>3. IF n = 0 THEN b.max = 0 /\ b.min = 0
               ELSE /\ b.max \in values /\ b.min \in values
                    /\ \A v \in values : b.min <= v /\ v <= b.max
  <2>1. /\ b.max = IF a.max > -Infinity THEN a.max ELSE 0
        /\ b.min = IF a.min < Infinity THEN a.min ELSE 0
    BY DEF Built
  <2>2. n = 0 <=> I = {}
    BY FS_EmptySet DEF HaveValues
  <2>3. CASE I = {}
    <3>1. a.max = -Infinity /\ a.min = Infinity
      BY <2>3 DEF Sums
    <3> QED BY <2>1, <2>2, <2>3, <3>1, SearchAssumption
  <2>4. CASE I # {}
    <3>1. /\ a.max \in values /\ a.min \in values
          /\ \A v \in values : a.min <= v /\ v <= a.max
      BY <2>4 DEF Sums
    <3>2. a.max > -Infinity /\ a.min < Infinity
      BY <3>1, ValueFacts
    <3> QED BY <2>1, <2>2, <2>4, <3>1, <3>2
  <2> QED BY <2>3, <2>4
<1>4. b.std = n * (n * squares - total * total)
  <2>1. /\ D = 1 .. n /\ n \in Nat /\ IsFiniteSet(D) /\ Cardinality(D) = n
        /\ \A j \in D : a.values[j] \in Int
    <3>1. D = 1 .. n /\ n \in Nat
      BY <1>1
    <3>2. IsFiniteSet(1 .. n) /\ Cardinality(1 .. n) = n
      BY <3>1, FS_Interval
    <3> QED BY <1>1, <3>1, <3>2
  <2>2. \A j \in D : d[j] = (a.cnt * a.values[j] - a.sum) * (a.cnt * a.values[j] - a.sum)
    OBVIOUS
  <2>3. \A j \in D : SquaresIn(a.values)[j] = a.values[j] * a.values[j]
    BY DEF SquaresIn
  <2> HIDE DEF d
  <2>4. b.std = Total(d, D)
    BY <1>1, <2>2, DeviationFold
  <2>5. a.cnt \in Int /\ a.sum \in Int
    BY <1>1
  <2> HIDE DEF D
  <2>6. Total(d, D) = a.cnt * a.cnt * Total(SquaresIn(a.values), D)
                        - 2 * a.cnt * a.sum * Total(a.values, D)
                        + Cardinality(D) * (a.sum * a.sum)
    <3>1. Deviates(D, a.cnt, a.sum, a.values, SquaresIn(a.values), d)
      BY <2>1, <2>2, <2>3, <2>5 DEF Deviates
    <3> QED BY <3>1, TotalDeviations
  <2>7. Total(SquaresIn(a.values), D) = squares /\ Total(a.values, D) = total
    BY <1>1 DEF Sums, D
  <2>8. b.std = n * n * squares - 2 * n * total * total + n * (total * total)
    BY <1>1, <2>1, <2>4, <2>6, <2>7
  <2>9. squares \in Int /\ total \in Int
    <3>1. \A i \in I : SquaresOf(f)[i] \in Int
      BY ValueFacts
    <3>2. squares \in Int
      BY <3>1, TotalType DEF HaveValues
    <3> QED BY <1>1, <3>2
  <2> HIDE DEF squares, total, n, b
  <2> QED BY <2>1, <2>8, <2>9
<1> QED BY <1>2, <1>3, <1>4

-----------------------------------------------------------------------------
\* The accumulator of an aggregation has seen what it has read of the file; the
\* aggregation is done at an end of the file no earlier than its first.
AggregateInv(s) ==
  phase[s] # "idle" /\ query[s].op = "aggregate" =>
    /\ Sums(acc[s], lines[output[s]], Shown(lines[output[s]], pos[s]))
    /\ phase[s] = "done" => pos[s] >= began[s]

LEMMA ShownFacts ==
  ASSUME NEW f \in Seq(Entries), NEW n \in Nat, n <= Len(f)
  PROVE  /\ HaveValues(f, Shown(f, n))
         /\ Shown(f, 0) = {}
         /\ n > 0 => /\ n \notin Shown(f, n - 1)
                     /\ Shown(f, n) = IF f[n].match /\ f[n].value # NoValue
                                        THEN Shown(f, n - 1) \cup {n} ELSE Shown(f, n - 1)
<1>1. HaveValues(f, Shown(f, n))
  <2>1. Shown(f, n) \in SUBSET (1 .. n) /\ IsFiniteSet(1 .. n) /\ Len(f) \in Nat
    BY FS_Interval DEF Shown
  <2>2. IsFiniteSet(Shown(f, n))
    BY <2>1, FS_Subset
  <2>3. Shown(f, n) \in SUBSET (1 .. Len(f))
    BY <2>1
  <2>4. ASSUME NEW i \in Shown(f, n) PROVE f[i].value \in Values
    <3>1. f[i] \in Entry
      BY <2>3, SearchAssumption
    <3> QED BY <3>1 DEF Entry, Shown
  <2> QED BY <2>2, <2>3, <2>4 DEF HaveValues
<1>2. Shown(f, 0) = {}
  BY DEF Shown
<1>3. ASSUME n > 0
      PROVE  /\ n \notin Shown(f, n - 1)
             /\ Shown(f, n) = IF f[n].match /\ f[n].value # NoValue
                                THEN Shown(f, n - 1) \cup {n} ELSE Shown(f, n - 1)
  <2>1. 1 .. n = (1 .. n - 1) \cup {n} /\ n \notin 1 .. n - 1
    BY <1>3
  <2> QED BY <2>1 DEF Shown
<1> QED BY <1>1, <1>2, <1>3

\* An aggregation that does nothing while the file grows keeps what it has.
LEMMA AggregateUndisturbed ==
  ASSUME SearchTypeOK, FileGrows, NEW s \in Searches, AggregateInv(s),
         phase'[s] = phase[s], query'[s] = query[s], output'[s] = output[s],
         began'[s] = began[s], pos'[s] = pos[s], acc'[s] = acc[s]
  PROVE  AggregateInv(s)'
<1>1. SUFFICES ASSUME phase[s] # "idle", query[s].op = "aggregate"
               PROVE  AggregateInv(s)'
  BY DEF AggregateInv
<1>2. PICK k \in Outputs : k = output[s]
  BY <1>1 DEF SearchTypeOK, InPlace
<1>3. /\ pos[s] \in Nat /\ pos[s] <= Len(lines[k]) /\ Len(lines[k]) <= Len(lines'[k])
      /\ lines[k] \in Seq(Entries) /\ lines'[k] \in Seq(Entries)
      /\ Len(lines[k]) \in Nat /\ Len(lines'[k]) \in Nat
  BY <1>1, <1>2 DEF SearchTypeOK, InPlace, FileGrows
<1>4. \A i \in 1 .. pos[s] : lines'[k][i] = lines[k][i]
  BY <1>3 DEF FileGrows
<1>5. Shown(lines'[k], pos[s]) = Shown(lines[k], pos[s])
  BY <1>4 DEF Shown
<1>6. \A i \in Shown(lines[k], pos[s]) : lines'[k][i] = lines[k][i]
  BY <1>4 DEF Shown
<1>7. Sums(acc[s], lines[k], Shown(lines[k], pos[s]))
  BY <1>1, <1>2 DEF AggregateInv
<1>8. HaveValues(lines[k], Shown(lines[k], pos[s]))
  BY <1>3, ShownFacts
<1>9. HaveValues(lines'[k], Shown(lines[k], pos[s]))
  <2>1. pos[s] <= Len(lines'[k])
    BY <1>3
  <2> QED BY <1>3, <1>5, <2>1, ShownFacts
<1>10. Sums(acc[s], lines'[k], Shown(lines'[k], pos[s]))
  BY <1>5, <1>6, <1>7, <1>8, <1>9, SumsStay
<1> QED BY <1>1, <1>2, <1>10 DEF AggregateInv

LEMMA AskAggregate ==
  ASSUME Inv, NEW s \in Searches, NEW k \in Outputs, NEW q \in Queries, Ask(s, k, q)
  PROVE  AggregateInv(s)'
<1>1. /\ phase[s] = "idle" /\ phase'[s] = "row" /\ output'[s] = k
      /\ UNCHANGED <<lines, pos, acc>>
  BY DEF Inv, SearchTypeOK, Ask, GoTo, fileVars
<1>2. pos[s] = 0 /\ acc[s] = EmptyAcc
  BY <1>1 DEF Inv, SearchTypeOK, InPlace
<1>3. Shown(lines[k], 0) = {}
  BY DEF Shown
<1>4. Sums(EmptyAcc, lines[k], Shown(lines[k], 0))
  BY <1>3, SumsEmpty
<1> QED BY <1>1, <1>2, <1>4 DEF AggregateInv

\* The steps that read no line.
LEMMA ReadNothing ==
  ASSUME Inv, NEW s \in Searches, AggregateInv(s), FindRun(s) \/ OpenFile(s) \/ ReadEnd(s)
  PROVE  AggregateInv(s)'
<1>1. /\ phase[s] # "idle" /\ UNCHANGED <<lines, query, output, pos, acc>>
      /\ \/ phase'[s] # "done"
         \/ pos[s] = Len(lines[output[s]]) /\ began' = began
  BY DEF Inv, SearchTypeOK, FindRun, OpenFile, ReadEnd, GoTo, fileVars
<1>2. began[s] <= Len(lines[output[s]]) /\ pos[s] \in Nat /\ began[s] \in Nat
  BY <1>1 DEF Inv, SearchTypeOK, EndInv
<1> QED BY <1>1, <1>2 DEF AggregateInv

LEMMA ReadAggregates ==
  ASSUME Inv, NEW s \in Searches, AggregateInv(s), ReadLine(s)
  PROVE  AggregateInv(s)'
<1>1. PICK k \in Outputs : k = output[s]
  BY DEF Inv, SearchTypeOK, InPlace, ReadLine
<1> DEFINE f == lines[k]
           i == pos[s] + 1
<1>2. /\ phase[s] = "reading" /\ pos[s] \in Nat /\ i <= Len(f) /\ i \in Nat /\ i > 0
      /\ f \in Seq(Entries) /\ pos'[s] = i
      /\ UNCHANGED <<lines, query, output, began>>
      /\ IF query[s].op = "page" THEN Process(s, i, f[i]) ELSE Accumulate(s, f[i])
  BY <1>1 DEF Inv, SearchTypeOK, InPlace, ReadLine, fileVars
<1>3. SUFFICES ASSUME query[s].op = "aggregate" PROVE AggregateInv(s)'
  BY <1>2 DEF AggregateInv
<1>4. /\ phase'[s] = "reading"
      /\ acc'[s] = IF f[i].match THEN Added(acc[s], f[i]) ELSE acc[s]
  BY <1>2, <1>3 DEF Accumulate, GoTo, Inv, SearchTypeOK
<1>5. /\ i - 1 = pos[s] /\ HaveValues(f, Shown(f, i)) /\ i \notin Shown(f, pos[s])
      /\ Shown(f, i) = IF f[i].match /\ f[i].value # NoValue
                         THEN Shown(f, pos[s]) \cup {i} ELSE Shown(f, pos[s])
  <2>1. i - 1 = pos[s]
    BY <1>2
  <2> HIDE DEF f, i
  <2> QED BY <1>2, <2>1, ShownFacts
<1>6. Sums(acc[s], f, Shown(f, pos[s]))
  BY <1>1, <1>2, <1>3 DEF AggregateInv
<1> HIDE DEF f, i
<1>7. Sums(acc'[s], f, Shown(f, i))
  <2>1. CASE f[i].match /\ f[i].value # NoValue
    <3>1. HaveValues(f, Shown(f, pos[s]) \cup {i})
      BY <1>5, <2>1
    <3>2. Sums(Added(acc[s], f[i]), f, Shown(f, pos[s]) \cup {i})
      BY <1>5, <1>6, <3>1, SumsAdd
    <3> QED BY <1>4, <1>5, <2>1, <3>2
  <2>2. CASE ~(f[i].match /\ f[i].value # NoValue)
    <3>1. acc'[s] = acc[s]
      BY <1>4, <2>2 DEF Added
    <3> QED BY <1>5, <1>6, <2>2, <3>1
  <2> QED BY <2>1, <2>2
<1> QED BY <1>1, <1>2, <1>4, <1>7 DEF AggregateInv, f

AggregatesInv == Inv /\ \A s \in Searches : AggregateInv(s)

LEMMA NextAggregates == ASSUME AggregatesInv, [Next]_vars PROVE AggregatesInv'
<1>1. Inv /\ Inv'
  BY NextKeeps DEF AggregatesInv
<1>2. ASSUME NEW r \in Searches PROVE AggregateInv(r)'
  <2>1. CASE FileStep \/ UNCHANGED vars
    <3>1. FileGrows /\ UNCHANGED searchVars
      BY <1>1, <2>1, FileNextGrows, SameFileGrows DEF FileStep, vars, Inv
    <3> QED BY <1>1, <3>1, AggregateUndisturbed DEF searchVars, Inv, AggregatesInv
  <2>2. CASE Halt
    BY <2>2 DEF Halt, AggregateInv
  <2>3. ASSUME NEW s \in Searches,
               Search(s) \/ Reply(s) \/ \E k \in Outputs, q \in Queries : Ask(s, k, q)
        PROVE  AggregateInv(r)'
    <3>1. CASE r # s
      BY <1>1, <2>3, <3>1, OthersIdle, SameFileGrows, AggregateUndisturbed
      DEF Inv, AggregatesInv
    <3>2. CASE r = s /\ \E k \in Outputs, q \in Queries : Ask(s, k, q)
      BY <1>1, <3>2, AskAggregate
    <3>3. CASE r = s /\ Search(s)
      BY <1>1, <3>3, ReadNothing, ReadAggregates DEF Search, AggregatesInv
    <3>4. CASE r = s /\ Reply(s)
      BY <1>1, <3>4 DEF Inv, SearchTypeOK, Reply, GoTo, AggregateInv
    <3> QED BY <2>3, <3>1, <3>2, <3>3, <3>4
  <2> QED BY <2>1, <2>2, <2>3 DEF Next
<1> QED BY <1>1, <1>2 DEF AggregatesInv

LEMMA AggregatesInit == Init => AggregatesInv
BY InitInv DEF Init, NoSearch, AggregatesInv, AggregateInv

LEMMA AggregatesImply == AggregatesInv => AggregateIsExact
<1> SUFFICES ASSUME AggregatesInv, NEW s \in Searches,
                    phase[s] = "done", query[s].op = "aggregate"
             PROVE  LET e == lines[output[s]]
                        I == {i \in Matches(output[s], pos[s]) : e[i].value # NoValue}
                        n == Cardinality(I)
                        values == {e[i].value : i \in I}
                        total == FoldFunctionOnSet(+, 0, [i \in DOMAIN e |-> e[i].value], I)
                        squares == FoldFunctionOnSet(LAMBDA v, t : v * v + t, 0,
                                                     [i \in DOMAIN e |-> e[i].value], I)
                        a == Built(acc[s])
                    IN  /\ pos[s] >= began[s]
                        /\ a.cnt = n /\ a.sum = total
                        /\ IF n = 0 THEN a.max = 0 /\ a.min = 0
                                    ELSE /\ a.max \in values /\ a.min \in values
                                         /\ \A v \in values : a.min <= v /\ v <= a.max
                        /\ a.std = n * (n * squares - total * total)
  BY DEF AggregateIsExact
<1> DEFINE e == lines[output[s]]
           I == {i \in Matches(output[s], pos[s]) : e[i].value # NoValue}
<1>1. I = Shown(e, pos[s])
  BY DEF Matches, Shown
<1>2. pos[s] >= began[s] /\ Sums(acc[s], e, I)
  BY <1>1 DEF AggregatesInv, AggregateInv
<1>3. e \in Seq(Entries) /\ pos[s] \in Nat /\ pos[s] <= Len(e)
  BY DEF AggregatesInv, Inv, SearchTypeOK, InPlace
<1>4. HaveValues(e, I)
  <2> HIDE DEF e, I
  <2> QED BY <1>1, <1>3, ShownFacts
<1>5. FoldFunctionOnSet(+, 0, [i \in DOMAIN e |-> e[i].value], I) = Total(ValuesOf(e), I)
  BY DEF Total, ValuesOf
<1>6. FoldFunctionOnSet(LAMBDA v, t : v * v + t, 0, [i \in DOMAIN e |-> e[i].value], I)
        = Total(SquaresOf(e), I)
  <2> HIDE DEF e, I
  <2>1. \A i \in I : /\ ValuesOf(e)[i] \in Int
                     /\ SquaresOf(e)[i] = ValuesOf(e)[i] * ValuesOf(e)[i]
    BY <1>4, ValueFacts
  <2>2. IsFiniteSet(I)
    BY <1>4 DEF HaveValues
  <2>3. FoldFunctionOnSet(LAMBDA v, t : v * v + t, 0, ValuesOf(e), I)
          = Total(SquaresOf(e), I)
    BY <2>1, <2>2, SquaresFold
  <2> QED BY <2>3 DEF ValuesOf
<1> HIDE DEF e, I
<1>7. LET n == Cardinality(I)
          values == {e[i].value : i \in I}
          total == Total(ValuesOf(e), I)
          squares == Total(SquaresOf(e), I)
          a == Built(acc[s])
      IN  /\ a.cnt = n /\ a.sum = total
          /\ IF n = 0 THEN a.max = 0 /\ a.min = 0
                      ELSE /\ a.max \in values /\ a.min \in values
                           /\ \A v \in values : a.min <= v /\ v <= a.max
          /\ a.std = n * (n * squares - total * total)
  BY <1>2, <1>4, SumsExact
<1> QED BY <1>2, <1>5, <1>6, <1>7 DEF e, I

\* What is aggregated is what the file has: the number, sum, least and greatest of the
\* attribute over the entries that match, and the deviation that std takes the root
\* of, for any numbers in any order (aggregateMetrics, buildMetricAggregatorPipeline).
THEOREM AggregatesExact == Spec => []AggregateIsExact
BY AggregatesInit, NextAggregates, AggregatesImply, PTL DEF Spec
=============================================================================
