SPECIFICATION Spec
CONSTANTS
  u1 = u1
  u2 = u2
  s1 = s1
  s2 = s2
  k1 = k1
  d1 = d1
  d2 = d2
  r1 = r1
  r2 = r2
  Uids = {u1}
  SessionIds = {s1, s2}
  KeyFetchIds = {k1}
  OwnerOf <- OneAccount
  VerificationIds = {x1}
  CodeHashes = {h1}
  Methods = {totp}
  DeviceIds = {d1}
  Requests = {r1, r2}
  MaxEvents = 1
  NULL = NULL
  None = None
SYMMETRY Alike
INVARIANTS EventsFollowTokens DeviceKeysPointBack MethodOnlyWhenVerified
PROPERTIES MustVerifyKept LifecycleSpec
