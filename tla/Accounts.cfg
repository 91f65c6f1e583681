SPECIFICATION Spec
CONSTANTS
  Uids = {u1, u2}
  Addresses = {a1, a2}
  TokenIds = {t1, t2}
  Connections = {c1}
  None = None
SYMMETRY Alike
INVARIANTS OnePrimary OutdatedTokensGone
PROPERTY BookSpec
