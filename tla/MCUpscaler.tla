----------------------------- MODULE MCUpscaler -----------------------------
(* Small instances of Upscaler for TLC. *)
EXTENDS Upscaler, TLC

Sym == Permutations(Generations)
=============================================================================
