SPECIFICATION Spec
CONSTANTS
  Founder = f
  Staff = {f, a, b}
  Owner = {}
  HasHistory = {}
  AdminRole = admin
  FacultyRole = faculty
  Clerk = clerk
  Role = {admin, faculty, clerk}
  FacultyManage = fm
  SettingsManage = sm
  Permission = {fm, sm}
  FacultyPermissions = {}
  Client = {c1}
  MaxInFlight = 1
  None = None
  Commands <- ClerkCommands
PROPERTIES
  MovesWithinAccess
