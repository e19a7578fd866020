------------------------------ MODULE FrameIds ------------------------------
(* The frame IDs of a frame-generation context, which its two modules,     *)
(* FrameGeneration and FrameConfigs, share.                                *)
EXTENDS Integers

CONSTANTS
  Frames,  \* frame IDs
  None     \* nothing: no history, no last frame, no jitter, no configuration

ASSUME FramesAssumption == Frames \subseteq Nat /\ None \notin Nat
=============================================================================
