\* Two hosts; three operations: one that fails or is lost, a retry, a rollback.
SPECIFICATION FairSpec
CONSTANTS
  Hosts = {h1, h2}
  MaxOps = 3
INVARIANTS
  TypeOK
  AllOrNothing
  ReportsAreReal
  StopsBeforeStarts
PROPERTIES
  RowFollowsHosts
  NoEarlyDowntime
  OperationEnds
CHECK_DEADLOCK FALSE
