SPECIFICATION MCSpec
CONSTANTS
  Founder = f
  Staff = {f, a}
  Owner = {}
  HasHistory = {}
  AdminRole = admin
  FacultyRole = faculty
  Clerk = clerk
  Role = {admin, faculty, clerk}
  FacultyManage = fm
  SettingsManage = sm
  Permission = {fm, sm}
  FacultyPermissions = {}
  Client = {c1}
  Clients = {c1, c2}
  Together <- OverlapCommands
  AtOnce = 2
  OtherCodes <- OneOther
  Jobs = {"seed"}
  MaxJobs = 1
  MaxCalls = 1
  MaxInFlight = 1
  None = None
  Commands <- AllCommands
INVARIANTS
  TypeOK
  HasActiveAdmin
  AtMostOneDefault
  TablesSound
PROPERTIES
  GrantsWithinAccess
  OverlapsKeepRoles
  InstitutesKept
