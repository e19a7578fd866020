CONSTANTS
  Threads = {t1, t2, t3}
  Keys = {k1, k2}
  Results = {r1, r2}
  Flights = {f1, f2}
  None = None
  MaxDepth = 2
SYMMETRY Sym
SPECIFICATION Spec
INVARIANTS
  FlightOutlivesWaiters
  OneOwnerPerKey
  OneOwnerPerResult
  RegisteredHasFuture
  NoStuckThread
