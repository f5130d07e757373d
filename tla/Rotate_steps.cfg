\* Two hosts in every mix of old and new layout, two rotations.
SPECIFICATION FairSpec
CONSTANTS
  Hosts = {h1, h2}
  Passwords = {p0, p1}
  Initial = p0
  MaxOps = 2
  None = None
INVARIANTS
  TypeOK
  ReportsAreTrue
  KeepsPassword
PROPERTIES
  StoredNeverAhead
  OperationEnds
CHECK_DEADLOCK FALSE
