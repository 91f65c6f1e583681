SPECIFICATION FairSpec
CONSTANTS
  Sessions = {s1, s2}
  Connections = {c1, c2}
  MaxAge = 1
  Limit = 2
  Burst = 1
  MaxTime = 4
  MaxLosses = 1
  LocksNest = FALSE
  None = None
PROPERTY OldSessionsGo
