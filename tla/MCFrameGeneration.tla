------------------------- MODULE MCFrameGeneration -------------------------
(* Small instances of FrameGeneration for TLC. *)
EXTENDS FrameGeneration, TLC

Sym == Permutations(Configs)
=============================================================================
