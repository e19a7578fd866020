CONSTANTS
  s1 = s1
  s2 = s2
  k1 = k1
  k2 = k2
  None = None
  Apps = {a1}
  Presenters = {p1}
  Contexts = {c1}
  Swapchains = {s1, s2}
  Bindings = {b1, b2}
  Descs <- TwoSwapchains
SPECIFICATION FairSpec
INVARIANT TranslationMatches
PROPERTY
  EveryCallReturns
CHECK_DEADLOCK FALSE
