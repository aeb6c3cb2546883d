\* Two requests, an administrator in each workspace and one more user, two
\* passwords to choose and one token; about the sandbox or about passwords.
CONSTANTS
  production = production
  sandbox = sandbox
  adminBietmi = adminBietmi
  devTest = devTest
  Workspaces = {production, sandbox}
  UserIds = {adminBietmi, devTest, u1}
  SeedAdmin <- MCSeedAdmin
  Passwords = {p1, p2}
  Tokens = {t1}
  Requests = {r1, r2}
SPECIFICATION Spec
CONSTRAINT Apart
SYMMETRY Symmetry
INVARIANTS
  AuthorsStay
PROPERTIES
  ManagedByAdminsUnlessMet
  VerifiedIsReplacedUnlessMet
  OneUseUnlessCut
\* Idle when no active user is left; a user can leave nobody behind.
CHECK_DEADLOCK FALSE
