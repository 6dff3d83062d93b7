SPECIFICATION Spec
CONSTANTS
  Request = {q}
  a1 = a1
  a2 = a2
  Code = {a1, a2}
  Folded <- BothFolded
  Card = {k1, k2}
  Batch = {x, y}
  MaxRows = 2
  None = None
CHECK_DEADLOCK FALSE
INVARIANT EnrolledAsReported
