SPECIFICATION Spec
CONSTANTS
  Uids = {u1, u2}
  Addresses = {a1, a2}
  TokenIds = {t1, t2}
  MaxQueue = 2
  MaxFactors = 1
  None = None
SYMMETRY Alike
INVARIANTS RecordsAgree OnePrimaryUnlessForeign TokensCurrent
PROPERTIES NothingLeft BookUnlessForeign
