SPECIFICATION ListSpec
CONSTANTS
  Frames = {0, 1, 2, 3, 4}
  Resources = {r1, r2}
  MaxConfigs = 3
  None = None
SYMMETRY Sym
INVARIANTS
  RetirementInvisible
  RetireInv
PROPERTY PendingSurvives
