SPECIFICATION FairSpec
CONSTANTS
  Threads = {t1, t2}
  Destroyers = {}
  Devices = {d1}
  Keys = {k1, k2}
  Scopes = {s1}
  Entries = {e1, e2}
  None = None
  MaxDepth = 2
  MaxLife = 0
INVARIANTS
  TypeOK
  WaitInv
  NoWaitCycle
  PointersHeld
  SingleFlight
PROPERTY EveryCallReturns
