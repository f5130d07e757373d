\* Two tasks on one cluster, a history of one row so that sweeps bite, two ends
\* of the process.
SPECIFICATION FairSpec
CONSTANTS
  Clusters = {c1}
  MaxTask = 2
  HistoryCap = 1
  MaxStops = 2
  None = None
INVARIANTS
  ClusterExclusion
  NoStaleRunningRow
  StreamAgreesWithHistory
  IInv
PROPERTIES
  LifecycleSpec
  OutcomeIsFinal
  NoResurrection
  OperationsSettle
CHECK_DEADLOCK FALSE
