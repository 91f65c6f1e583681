SPECIFICATION Spec
CONSTANTS
  u1 = u1
  u2 = u2
  s1 = s1
  s2 = s2
  k1 = k1
  d1 = d1
  d2 = d2
  c1 = c1
  c2 = c2
  Uids = {u1}
  SessionIds = {s1, s2}
  KeyFetchIds = {k1}
  OwnerOf <- OneAccount
  VerificationIds = {x1}
  CodeHashes = {h1}
  Methods = {totp}
  DeviceIds = {d1, d2}
  Connections = {c1, c2}
  MaxEvents = 2
  NULL = NULL
  None = None
SYMMETRY Alike
INVARIANTS MustVerifyAgrees MethodOnlyWhenVerified
PROPERTIES MustVerifyNeverDropped SessionTakesItsDevices EventsVerifiedWithTokens
