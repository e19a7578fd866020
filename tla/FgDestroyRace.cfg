CONSTANTS
  s1 = s1
  s2 = s2
  k1 = k1
  k2 = k2
  None = None
  Apps = {a1, a2}
  Presenters = {p1}
  Contexts = {c1}
  Swapchains = {s1}
  Bindings = {b1}
  Descs <- OnOnly
SPECIFICATION Spec
INVARIANT FreedNotCalledBack
CHECK_DEADLOCK FALSE
