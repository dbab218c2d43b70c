----------------------------- MODULE MCSessions -----------------------------
(* Model values and symmetry for the run of Sessions. *)
EXTENDS Sessions, TLC

Sym == Permutations(Clients) \cup Permutations(Ips) \cup Permutations(Names)
=============================================================================
