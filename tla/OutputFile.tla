------------------------------ MODULE OutputFile ------------------------------
(***************************************************************************)
(* What the file providers promise of the file of an output of a run       *)
(* (createWriteStream and rmRecursiveSafe in src/workdir/contract): it is  *)
(* made once, grows line by line, and is never written again once it is    *)
(* closed.  Its directory may lose it at any time; who has it open keeps it.*)
(***************************************************************************)
EXTENDS Naturals, Sequences

CONSTANTS Outputs,   \* <<provider, run>>
          Entries    \* lines, each one an entry

VARIABLES lines,     \* per output: the lines that are whole
          half,      \* per output: whether a part of one more is there
          ended,     \* per output: "no", "closed" or "lost", that is, given up
          linked,    \* outputs whose file is in its directory
          listed     \* outputs whose run has a row

fileVars == <<lines, half, ended, linked, listed>>

FileInit ==
  /\ lines = [k \in Outputs |-> <<>>] /\ half = [k \in Outputs |-> FALSE]
  /\ ended = [k \in Outputs |-> "no"] /\ linked = {} /\ listed = Outputs

Make(k) ==
  /\ k \notin linked /\ ended[k] = "no" /\ lines[k] = <<>> /\ ~half[k]
  /\ linked' = linked \cup {k}
  /\ UNCHANGED <<lines, half, ended, listed>>

\* The stream writes in order; a reader may see a part of a line.
WritePart(k) ==
  /\ ended[k] = "no" /\ ~half[k]
  /\ half' = [half EXCEPT ![k] = TRUE]
  /\ UNCHANGED <<lines, ended, linked, listed>>

WriteLine(k, e) ==
  /\ ended[k] = "no"
  /\ lines' = [lines EXCEPT ![k] = Append(@, e)]
  /\ half' = [half EXCEPT ![k] = FALSE]
  /\ UNCHANGED <<ended, linked, listed>>

Close(k) ==
  /\ ended[k] = "no" /\ ~half[k]
  /\ ended' = [ended EXCEPT ![k] = "closed"]
  /\ UNCHANGED <<lines, half, linked, listed>>

\* The process ends: what was not written never will be.
GiveUp ==
  /\ \E lost \in SUBSET {k \in Outputs : ended[k] = "no"} :
       ended' = [k \in Outputs |-> IF k \in lost THEN "lost" ELSE ended[k]]
  /\ UNCHANGED <<lines, half, linked, listed>>

\* rmRecursiveSafe of the directory of one provider.
Unlink(p) ==
  /\ linked' = {k \in linked : k[1] # p}
  /\ UNCHANGED <<lines, half, ended, listed>>

\* The rows of the runs go with their task.
Unlist ==
  /\ listed' = {}
  /\ UNCHANGED <<lines, half, ended, linked>>

FileNext ==
  \/ \E k \in Outputs : \/ Make(k) \/ WritePart(k) \/ Close(k)
                        \/ \E e \in Entries : WriteLine(k, e)
  \/ GiveUp \/ Unlist
  \/ \E k \in Outputs : Unlink(k[1])

FileSpec == FileInit /\ [][FileNext]_fileVars
=============================================================================
