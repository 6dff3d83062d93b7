SPECIFICATION Spec
CHECK_DEADLOCK FALSE
CONSTANTS
  Request = {q1, q2}
  MaxCodes = 1
  MaxAttempts = 2
  MaxTries = 4
SYMMETRY Interchangeable
INVARIANTS
  AttemptsCapped
