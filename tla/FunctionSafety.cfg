CONSTANTS
  Threads = {t1, t2}
  Destroyers = {t1}
  Devices = {d1}
  Libraries = {l1}
  Scopes = {s1, s2}
  Entries = {e1, e2}
  None = None
  MaxDepth = 2
  MaxUses = 1
SYMMETRY Sym
SPECIFICATION Spec
INVARIANTS
  WaitersSafe
  MappedIsCachedOrFlying
  LibraryIdentity
PROPERTY ImplementsMemo
