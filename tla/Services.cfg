SPECIFICATION MCSpec
CONSTANTS
  Request = {q1, q2}
  MaxTokens = 2
  Account = {p1, u1}
  Parent = {p1}
  MaxAttempts = 2
  MaxIssued = 3
  Tenant = {c1, c2}
  Script = {op}
  MaxVersion = 3
  MaxRuns = 2
  Code = {a1, b1}
  Folded <- SameCase
  Card = {k1, k2}
  Batch = {}
  MaxRows = 2
  manager = manager
  teacher = teacher
  Null = Null
CHECK_DEADLOCK FALSE
INVARIANTS
  AllTypesOK
  RefusedTokenGone
  CredentialsSingleUse
PROPERTIES
  RequestsAndRedirectsSettle
  RevokedSessionsEnd
  RegistryAccurate
  AdmitsWhatItReports
