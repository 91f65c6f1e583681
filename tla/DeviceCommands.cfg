SPECIFICATION FairSpec
CONSTANTS
  Calls = {c1, c2}
  Devices = {d1, d2}
  Names = {n1, n2}
  Data = {v1}
  None = None
CHECK_DEADLOCK FALSE
INVARIANTS TypeOK OkMeansExactly  WaitsEnd ReadsAgree
PROPERTY EveryCallAnswered
