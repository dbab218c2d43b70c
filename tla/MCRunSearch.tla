----------------------------- MODULE MCRunSearch -----------------------------
(* A file, its entries and what is asked for, for the run of RunSearch.     *)
EXTENDS RunSearch

MCOutputs == {<<"metric", 1>>}
MCValues == {-1, 2}
MCEntries ==
  {[match |-> TRUE, value |-> v] : v \in MCValues \cup {NoValue}}
    \cup {[match |-> FALSE, value |-> 2]}
MCQueries ==
  {[op |-> "page", from |-> i, pageSize |-> n, ofTask |-> TRUE] : i \in -1 .. 2, n \in {0, 1, 3}}
    \cup {[op |-> "aggregate", from |-> 0, pageSize |-> 0, ofTask |-> own] : own \in BOOLEAN}
=============================================================================
