----------------------------- MODULE MCInstaller -----------------------------
(* The launcher's runtimes and the frontend versions are interchangeable. *)
EXTENDS Installer, TLC

Sym == Permutations(Stock) \cup Permutations(Versions)
=============================================================================
