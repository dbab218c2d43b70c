--------------------------- MODULE MCTaskLifecycle ---------------------------
(* Model values, symmetry and limits for the runs of TaskLifecycle. *)
EXTENDS TaskLifecycle

CONSTANTS c1, c2, p1, p2

Sym == Permutations(Clients) \cup Permutations(Callers) \cup Permutations(Configs)

OneLimited == [t \in Labels |-> 2]
Unlimited  == [t \in Labels |-> NoLimit]
=============================================================================
