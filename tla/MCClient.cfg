CONSTANTS
  NoUser = NoUser
  Users = {u1, u2}
  Tabs = {t1, t2}
  Sandboxed = {u2}
  MaxCalls = 2
  MaxVersion = 1
  MaxRequests = 6
  Windows = {p1}
  MaxRelease = 2
SPECIFICATION Spec
CONSTRAINT Apart
SYMMETRY AnyTab
INVARIANTS
  ShownIsLive
  SavedIsShown
  OpensOffline
PROPERTIES
  RunsWhole
CHECK_DEADLOCK FALSE
