--------------------------- MODULE MCFunctionCache ---------------------------
(* Instances of FunctionCache for TLC. *)
EXTENDS FunctionCache, TLC

(* Threads that do not destroy devices, and addresses, are interchangeable. *)
Sym ==
  Permutations(Threads \ Destroyers) \cup Permutations(Devices)
    \cup Permutations(Libraries) \cup Permutations(Scopes)
    \cup Permutations(Entries)
=============================================================================
