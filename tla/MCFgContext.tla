---------------------------- MODULE MCFgContext ----------------------------
(* Model values and configurations for model checking FgContext. *)
EXTENDS FgContext, TLC
CONSTANTS s1, s2, k1, k2

Desc(s, k, on, native) == [swapchain |-> s, callbacks |-> k, on |-> on, native |-> native]

(* On and off on two swapchains and without notification, native only, and *)
(* other callbacks.                                                        *)
TwoSwapchains ==
  {Desc(s, k1, on, FALSE) : s \in {s1, s2}, on \in BOOLEAN} \cup
  {Desc(None, k1, on, FALSE) : on \in BOOLEAN} \cup
  {Desc(s1, k1, TRUE, TRUE), Desc(s1, k2, TRUE, FALSE)}

(* On with either set of callbacks. *)
TwoCallbacks == {Desc(s1, k, TRUE, FALSE) : k \in {k1, k2}}

OnOnly == {Desc(s1, k1, TRUE, FALSE)}

Sym ==
  Permutations(Apps) \cup Permutations(Contexts) \cup Permutations(Bindings)
    \cup Permutations({k1, k2})

(***************************************************************************)
(* What the safety properties of FgLifecycle can tell apart: failed is not *)
(* read by them; a native context stays native, so that it matters whether *)
(* native code ran only once MetalFX has; and a call that is over has only *)
(* its reference left.                                                     *)
(***************************************************************************)
Recorded ==
  [c \in Contexts |->
     IF context[c].mode = "native" /\ "metalfx" \notin work[c] THEN {} ELSE work[c]]
InProgress ==
  [t \in Threads |-> [i \in 1..Depth(t) |->
     IF stack[t][i].pc = "release" THEN NewFrame("query", "release", stack[t][i].context)
     ELSE stack[t][i]]]
View == <<context, holder, binding, chain, Recorded, InProgress>>
=============================================================================
