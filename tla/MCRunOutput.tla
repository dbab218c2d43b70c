----------------------------- MODULE MCRunOutput -----------------------------
(* An entry of each kind for the runs of RunOutput.                        *)
EXTENDS RunOutput

MCLogEntries == {[stream |-> st, text |-> 1] : st \in {"stdout", "stderr"}}
MCMetricEntries == {[stream |-> "stats", text |-> 1]}
=============================================================================
