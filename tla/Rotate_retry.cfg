\* A rotation that is interrupted, and its retry.
SPECIFICATION Spec
CONSTANTS
  Hosts = {h1}
  Passwords = {p0, p1}
  Initial = p0
  MaxOps = 2
  None = None
INVARIANTS
  RestartTakesEffect
CHECK_DEADLOCK FALSE
