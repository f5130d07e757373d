SPECIFICATION Spec
CONSTANTS
  Imported = {0}
  Slots = {r1, r2}
  MaxSuffix = 1
  NodeCount = 1
  Parity = 0
  Creds = {c1, c2}
  Answers <- MCAnswers
  Ports = {p1, p2}
  MaxEvents = 3
  None = None
SYMMETRY RegistrySymmetry
INVARIANTS
  
  EditsStick
  AliasAgrees
CHECK_DEADLOCK FALSE
