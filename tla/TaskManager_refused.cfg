\* One dispatch whose insert times out is enough.
SPECIFICATION Spec
CONSTANTS
  None = None
  Clusters = {c1}
  MaxTask = 2
  HistoryCap = 2
  MaxStops = 0
INVARIANTS
  RefusedLeavesNoRow
CHECK_DEADLOCK FALSE
