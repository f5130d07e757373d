\* Two hosts, one of them replaced by a clean machine; one operation.
SPECIFICATION Spec
CONSTANTS
  Hosts = {h1, h2}
  MaxVersion = 1
  MaxOps = 1
INVARIANT RetryIsClean
CHECK_DEADLOCK FALSE
