\* Two administrators who delete each other.
CONSTANTS
  production = production
  sandbox = sandbox
  adminBietmi = adminBietmi
  devTest = devTest
  Workspaces = {production}
  UserIds = {adminBietmi, u1}
  SeedAdmin <- MCSeedAdmin
  Passwords = {}
  Tokens = {}
  Requests = {r1, r2}
SPECIFICATION Spec
PROPERTIES
  LastAdminStays
\* Idle when no active user is left; a user can leave nobody behind.
CHECK_DEADLOCK FALSE
