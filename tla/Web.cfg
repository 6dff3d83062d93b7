SPECIFICATION MCSpec
CONSTANTS
  m = m
  t = t
  s1 = s1
  s2 = s2
  s3 = s3
  s4 = s4
  b1 = b1
  x1 = x1
  x2 = x2
  Absent = Absent
  Blank = Blank
  admin = admin
  faculty = faculty
  clerk = clerk
  Staff = {s1, s2, s3}
  Role = {admin, faculty, clerk}
  Permission = {m, t}
  Batch = {}
  Owner = {}
  AdminRole = admin
  FacultyRole = faculty
  Manage = m
  Teach = t
  Configure = t
  LockedPermissions = {m}
  FacultyPermissions = {t}
  Requires = {}
  MaxToasts = 1
  None = None
  Student = {x1, x2}
  Class = {b1}
  Date = {1, 2}
  Today = 1
  MaxUndos = 1
  Nil = Nil
  Result = {a1}
  Latest = 2
  Maximum = {1}
  Score = {1, 2}
  Topic = {u1, u2, u3}
  Chapter = {k1, k2}
  MaxOrder = 4
SYMMETRY Interchangeable
CHECK_DEADLOCK FALSE
INVARIANTS
  AllTypesOK
  RolesInUseExist
  SyllabusInOrder
  ListsAgree
PROPERTIES
  RolesGainOwnPowers
  RulesKept
  RecordsKept
