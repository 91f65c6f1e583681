SPECIFICATION Spec
CONSTANTS
  u1 = u1
  u2 = u2
  c1 = c1
  c2 = c2
  c3 = c3
  c4 = c4
  r1 = r1
  r2 = r2
  Uids = {u1, u2}
  Codes = {c1, c2, c3, c4}
  Counts = {1, 2}
  Requests = {r1}
  None = None
CHECK_DEADLOCK FALSE
PROPERTY SingleUseSpec
