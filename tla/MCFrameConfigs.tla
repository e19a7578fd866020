--------------------------- MODULE MCFrameConfigs ---------------------------
(* Symmetry for model checking FrameConfigs. *)
EXTENDS FrameConfigs, TLC

Sym == Permutations(Resources)
=============================================================================
