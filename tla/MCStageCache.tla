---------------------------- MODULE MCStageCache ----------------------------
(* Threads, keys, stage results and Flights are interchangeable. *)
EXTENDS StageCache, TLC

Sym ==
  Permutations(Threads) \cup Permutations(Keys)
    \cup Permutations(Results) \cup Permutations(Flights)
=============================================================================
