SPECIFICATION Spec
CONSTANTS
  Sessions = {s1, s2, s3}
  Connections = {c1, c2}
  MaxAge = 1
  Limit = 2
  Burst = 1
  MaxTime = 5
  MaxLosses = 1
  LocksNest = FALSE
  None = None
SYMMETRY Alike
INVARIANTS NothingSkipped WindowAdvances
PROPERTIES OnlyOldAndUnused WindowMovesOn
