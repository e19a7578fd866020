CONSTANTS
  Workers = {w1}
  Owners = {o1, o2}
  Buffers = {b1, b2}
  Slots = {s1, s2}
  None = None
SPECIFICATION FairSpec
INVARIANTS
  LeaseHeldWhileOnGPU
  PendingIsStored
  CommittedNotPending
PROPERTY CapturedIsFreed
