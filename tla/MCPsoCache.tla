----------------------------- MODULE MCPsoCache -----------------------------
(* Small instances of PsoCache for TLC. *)
EXTENDS PsoCache, TLC

Sym ==
  Permutations(Destroyers) \cup Permutations(Threads \ Destroyers)
    \cup Permutations(Keys) \cup Permutations(Scopes) \cup Permutations(Entries)
=============================================================================
