SPECIFICATION Spec
CHECK_DEADLOCK FALSE
CONSTANTS
  Staff = {s}
  Portal = {}
  Email <- OwnAddress
  Token = {t1, t2}
  Link = {l1}
  Request = {q1, q2}
  SharedTokens = FALSE
  Failures = FALSE
  None = None
SYMMETRY Interchangeable
INVARIANTS
  ResetEndsSessions
