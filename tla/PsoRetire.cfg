SPECIFICATION Spec
CONSTANTS
  Threads = {t1, t2}
  Destroyers = {t1}
  Devices = {d1}
  Keys = {k1}
  Scopes = {s1, s2, s3}
  Entries = {e1, e2}
  None = None
  MaxDepth = 2
  MaxLife = 1
SYMMETRY Sym
INVARIANT LifeIsolation
PROPERTY ImplementsMemo
