SPECIFICATION Spec
CONSTANTS
  None = None
  MaxKills = 1
  Options <- MCOptions
  Process = {p1, p2, p3}
\* When all helpers have exited nothing more happens.
CHECK_DEADLOCK FALSE
INVARIANTS
  TypeOK
  RefcountExact
  NoStaleFile
  Reachable
PROPERTIES
  LastReleaseOnly
  MasterExits
