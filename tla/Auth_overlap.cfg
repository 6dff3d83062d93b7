SPECIFICATION MCSpec
CHECK_DEADLOCK FALSE
CONSTANTS
  Request = {q1, q2}
  MaxCodes = 2
  MaxAttempts = 2
  MaxTries = 3
  s = s
  Member = {s}
  Family = {}
  Address <- OwnAddress
  Token = {t1, t2, t3}
  Link = {l1}
  None = None
SYMMETRY Alike
INVARIANTS
  TypeOK
  CappedUnlessShared
  OnceUnlessShared
  NewestUnlessRaced
  ExchangedOnce
PROPERTIES
  ConsumedForGood
