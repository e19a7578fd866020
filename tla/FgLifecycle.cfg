CONSTANTS
  s1 = s1
  s2 = s2
  k1 = k1
  k2 = k2
  None = None
  Apps = {a1, a2}
  Presenters = {p1}
  Contexts = {c1, c2}
  Swapchains = {s1}
  Bindings = {b1, b2}
  Descs <- TwoCallbacks
SYMMETRY Sym
SPECIFICATION Spec
INVARIANTS
  ReferencesExact
  BindingLive
  SwapchainExclusive
PROPERTY NoSecondPass
CHECK_DEADLOCK FALSE
VIEW View
