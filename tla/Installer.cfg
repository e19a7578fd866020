CONSTANTS
  Stock = {w1, w2}
  Ours = ours
  Versions = {v1, v2}
  None = None
  Absent = Absent
  MaxFaults = 2
  MaxAttempts = 4
SYMMETRY Sym
SPECIFICATION Spec
INVARIANTS
  OriginalSurvives
  RollsBack
  Restorable
  RestoreExact
