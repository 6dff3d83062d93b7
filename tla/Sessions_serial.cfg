SPECIFICATION Spec
CHECK_DEADLOCK FALSE
CONSTANTS
  Staff = {s}
  Portal = {p}
  Email <- OneAddress
  Token = {t1, t2, t3}
  Link = {l1, l2}
  Request = {q1}
  SharedTokens = TRUE
  Failures = TRUE
  None = None
SYMMETRY Interchangeable
VIEW Ahead
INVARIANTS
  TypeOK
  EndedStayEnded
  OnlyNewestLink
  SpentIsConsumed
PROPERTIES
  LinkSpentOnce
