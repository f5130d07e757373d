\* A cutover that stopped the servers, then the operator's rollback.
SPECIFICATION Spec
CONSTANTS
  Hosts = {h1, h2}
  MaxOps = 2
INVARIANTS
  RollbackRestores
CHECK_DEADLOCK FALSE
