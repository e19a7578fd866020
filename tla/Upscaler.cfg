SPECIFICATION Spec
CONSTANTS
  Outputs = {3, 4, 5}
  Inputs = {1, 3}
  Formats = {f1}
  Generations = {g1, g2, g3}
  None = None
  MaxScale = 2
  InactiveSlots = 1
  MaxRecorded = 2
  MaxRuns = 4
SYMMETRY Sym
CHECK_DEADLOCK FALSE
INVARIANTS
  CacheCoherent
  ScalerFits
  SwitchResets
