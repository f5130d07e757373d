--------------------------- MODULE MCTaskManager ---------------------------
(* TaskManager for TLC, which also evaluates ConstantsAssumption.  The runs  *)
(* check liveness, so that clusters and tasks are not taken as symmetric.    *)
EXTENDS TaskManager
=============================================================================
