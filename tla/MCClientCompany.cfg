\* One tab, a user of each workspace who log in one after the other.
CONSTANTS
  NoUser = NoUser
  Users = {u1, u2}
  Tabs = {t1}
  Sandboxed = {u2}
  MaxCalls = 2
  MaxVersion = 0
  MaxRequests = 3
  Windows = {p1}
  MaxRelease = 1
SPECIFICATION Spec
CONSTRAINT Apart
INVARIANTS
  CompanyOfSession
CHECK_DEADLOCK FALSE
