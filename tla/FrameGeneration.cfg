SPECIFICATION Spec
CONSTANTS
  Frames = {0, 1, 2, 3}
  Configs = {c1, c2}
  None = None
  FrameLimit = 2
  Increasing = TRUE
  MaxPrepares = 3
SYMMETRY Sym
CHECK_DEADLOCK FALSE
INVARIANTS
  ContinuousHistory
  JitterOfHistory
  OffForgets
