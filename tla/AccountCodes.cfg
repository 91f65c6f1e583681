SPECIFICATION Spec
CONSTANTS
  None = None
  Uids = {u1, u2}
  Codes = {c1, c2, c3}
  Counts = {1, 2}
  SigninIds = {s1}
  UnblockIds = {b1}
  Requests = {r1, r2, r3}
SYMMETRY Alike
INVARIANT AcceptedCodesGone
PROPERTY SingleUseSpec
