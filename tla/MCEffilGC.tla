----------------------------- MODULE MCEffilGC -----------------------------
(* EffilGC for TLC: tables, keys and threads are each alike, and the       *)
(* invariants are the only properties checked.                             *)
EXTENDS EffilGC, TLC

Symmetry ==
  Permutations(Tables) \cup Permutations(Keys) \cup Permutations(Threads)
============================================================================
