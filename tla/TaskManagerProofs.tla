-------------------------- MODULE TaskManagerProofs --------------------------
(* Theorems about TaskManager, for all clusters and any number of tasks.   *)
EXTENDS TaskManager, TLAPS

(* Types. *)

LEMMA InitTypeOK == Init => TypeOK
  BY ConstantsAssumption DEF Init, TypeOK, PCs, Holding

LEMMA TypeStep == TypeOK /\ LateWrites /\ OneVerdict /\ [Next]_vars => TypeOK'
<1> SUFFICES ASSUME TypeOK, LateWrites, OneVerdict, [Next]_vars PROVE TypeOK'
  OBVIOUS
<1> USE DEF TypeOK, PCs, Holding, runVars, procVars, Outcomes
<1>1. ASSUME NEW t \in Tasks, NEW c \in Clusters, Dispatch(t, c) PROVE TypeOK'
  BY <1>1 DEF Dispatch
<1>2. ASSUME NEW t \in Tasks, InsertCommit(t) PROVE TypeOK'
  BY <1>2 DEF InsertCommit, Inserted
<1>3. ASSUME NEW t \in Tasks, InsertError(t) PROVE TypeOK'
  <2>1. Insertion(t, "running") \in Writes
    BY DEF Writes, Insertion
  <2> QED BY <1>3, <2>1 DEF InsertError
<1>4. ASSUME NEW t \in Tasks, Register(t) PROVE TypeOK'
  BY <1>4 DEF Register
<1>5. ASSUME NEW t \in Tasks, Decide(t) PROVE TypeOK'
  BY <1>5 DEF Decide
<1>6. ASSUME NEW t \in Tasks, RecordCommit(t) PROVE TypeOK'
  BY <1>6 DEF RecordCommit, Updated, OneVerdict
<1>7. ASSUME NEW t \in Tasks, RecordError(t) PROVE TypeOK'
  <2>1. Recording(t) \in Writes
    BY DEF Writes, Recording
  <2> QED BY <1>7, <2>1 DEF RecordError
<1>8. ASSUME NEW t \in Tasks, Publish(t) PROVE TypeOK'
  BY <1>8 DEF Publish
<1>9. ASSUME NEW t \in Tasks, RemoveRun(t) PROVE TypeOK'
  BY <1>9 DEF RemoveRun
<1>10. ASSUME NEW t \in Tasks, SweepCommit(t) PROVE TypeOK'
  BY <1>10 DEF SweepCommit, Without
<1>11. ASSUME NEW t \in Tasks, SweepError(t) PROVE TypeOK'
  <2>1. Sweeping(t) \in Writes
    BY DEF Writes, Sweeping
  <2> QED BY <1>11, <2>1 DEF SweepError
<1>12. ASSUME NEW t \in Tasks, Unlock(t) PROVE TypeOK'
  BY <1>12 DEF Unlock
<1>13. ASSUME NEW t \in Tasks, Cancel(t) PROVE TypeOK'
  BY <1>13 DEF Cancel
<1>14. ASSUME ClearHistory PROVE TypeOK'
  BY <1>14 DEF ClearHistory, Without
<1>15. ASSUME NEW t \in Tasks, NEW s \in {"succeeded", "failed"}, RecordImmediate(t, s)
       PROVE TypeOK'
  <2>1. Insertion(t, s) \in Writes
    BY DEF Writes, Insertion
  <2> QED BY <1>15, <2>1 DEF RecordImmediate, Inserted
<1>16. ASSUME NEW w \in late, CommitLate(w) PROVE TypeOK'
  <2>1. /\ w.task \in Tasks
        /\ w.op \in {"insert", "record", "sweep"}
        /\ w.op # "sweep" => w.status \in Outcomes \cup {"running"}
    BY DEF Writes, LateWrites, OneVerdict
  <2>2. late' \subseteq Writes
    BY <1>16 DEF CommitLate
  <2>3. row' \in [Tasks -> Outcomes \cup {"absent", "running"}]
    BY <1>16, <2>1 DEF CommitLate, Inserted, Updated, Without
  <2> QED BY <1>16, <2>2, <2>3 DEF CommitLate
<1>17. ASSUME Shutdown PROVE TypeOK'
  BY <1>17 DEF Shutdown
<1>18. ASSUME Stop PROVE TypeOK'
  BY <1>18 DEF Stop
<1>19. ASSUME Restart PROVE TypeOK'
  BY <1>19 DEF Restart
<1>20. ASSUME NEW t \in Tasks, RecoverRow(t) PROVE TypeOK'
  BY <1>20 DEF RecoverRow, Updated
<1>21. ASSUME Serve PROVE TypeOK'
  BY <1>21 DEF Serve
<1>22. ASSUME UNCHANGED vars PROVE TypeOK'
  BY <1>22 DEF vars
<1> QED
  BY <1>1, <1>2, <1>3, <1>4, <1>5, <1>6, <1>7, <1>8, <1>9, <1>10, <1>11, <1>12,
     <1>13, <1>14, <1>15, <1>16, <1>17, <1>18, <1>19, <1>20, <1>21, <1>22
  DEF Next, TaskStep, Process

(* The lock. *)

LEMMA ExclusionStep ==
  TypeOK /\ ClusterExclusion /\ IdleMemory /\ [Next]_vars => ClusterExclusion'
<1> SUFFICES ASSUME TypeOK, ClusterExclusion, IdleMemory, [Next]_vars PROVE ClusterExclusion'
  OBVIOUS
<1> USE DEF TypeOK, ClusterExclusion, OwnerIffHolding, OneHolder, LockIffHeld, Holders, PCs, Holding, procVars
<1>1. ASSUME NEW t \in Tasks, NEW c \in Clusters, Dispatch(t, c) PROVE ClusterExclusion'
  <2>1. OwnerIffHolding'
    BY <1>1, ConstantsAssumption DEF Dispatch, IsNextId
  <2>2. OneHolder'
    BY <1>1, ConstantsAssumption DEF Dispatch, IsNextId
  <2>3. LockIffHeld'
    BY <1>1, <2>1, <2>2, ConstantsAssumption DEF Dispatch, IsNextId
  <2> QED BY <2>1, <2>2, <2>3
<1>2. ASSUME NEW t \in Tasks, InsertCommit(t) PROVE ClusterExclusion'
  BY <1>2 DEF InsertCommit, Inserted
<1>3. ASSUME NEW t \in Tasks, InsertError(t) PROVE ClusterExclusion'
  <2>1. OwnerIffHolding'
    BY <1>3, ConstantsAssumption DEF InsertError
  <2>2. OneHolder'
    BY <1>3, ConstantsAssumption DEF InsertError
  <2>3. LockIffHeld'
    BY <1>3, <2>1, <2>2, ConstantsAssumption DEF InsertError
  <2> QED BY <2>1, <2>2, <2>3
<1>4. ASSUME NEW t \in Tasks, Register(t) PROVE ClusterExclusion'
  BY <1>4 DEF Register
<1>5. ASSUME NEW t \in Tasks, Decide(t) PROVE ClusterExclusion'
  BY <1>5 DEF Decide
<1>6. ASSUME NEW t \in Tasks, RecordCommit(t) PROVE ClusterExclusion'
  BY <1>6 DEF RecordCommit, Updated
<1>7. ASSUME NEW t \in Tasks, RecordError(t) PROVE ClusterExclusion'
  BY <1>7 DEF RecordError, Recording
<1>8. ASSUME NEW t \in Tasks, Publish(t) PROVE ClusterExclusion'
  BY <1>8 DEF Publish
<1>9. ASSUME NEW t \in Tasks, RemoveRun(t) PROVE ClusterExclusion'
  BY <1>9 DEF RemoveRun
<1>10. ASSUME NEW t \in Tasks, SweepCommit(t) PROVE ClusterExclusion'
  BY <1>10 DEF SweepCommit, Without
<1>11. ASSUME NEW t \in Tasks, SweepError(t) PROVE ClusterExclusion'
  BY <1>11 DEF SweepError, Sweeping
<1>12. ASSUME NEW t \in Tasks, Unlock(t) PROVE ClusterExclusion'
  <2>1. OwnerIffHolding'
    BY <1>12, ConstantsAssumption DEF Unlock
  <2>2. OneHolder'
    BY <1>12, ConstantsAssumption DEF Unlock
  <2>3. LockIffHeld'
    BY <1>12, <2>1, <2>2, ConstantsAssumption DEF Unlock
  <2> QED BY <2>1, <2>2, <2>3
<1>13. ASSUME NEW t \in Tasks, Cancel(t) PROVE ClusterExclusion'
  BY <1>13 DEF Cancel
<1>14. ASSUME ClearHistory PROVE ClusterExclusion'
  BY <1>14 DEF ClearHistory, Without
<1>15. ASSUME NEW t \in Tasks, NEW s \in {"succeeded", "failed"}, RecordImmediate(t, s) PROVE ClusterExclusion'
  BY <1>15 DEF RecordImmediate, Inserted, Insertion, IsNextId
<1>16. ASSUME NEW w \in late, CommitLate(w) PROVE ClusterExclusion'
  BY <1>16 DEF CommitLate, Inserted, Updated, Without
<1>17. ASSUME Shutdown PROVE ClusterExclusion'
  BY <1>17 DEF Shutdown
<1>18. ASSUME Stop PROVE ClusterExclusion'
  <2>1. OwnerIffHolding'
    BY <1>18, ConstantsAssumption DEF Stop
  <2>2. OneHolder'
    BY <1>18, ConstantsAssumption DEF Stop
  <2>3. LockIffHeld'
    BY <1>18, <2>1, <2>2, ConstantsAssumption DEF Stop
  <2> QED BY <2>1, <2>2, <2>3
<1>19. ASSUME Restart PROVE ClusterExclusion'
  BY <1>19 DEF Restart
<1>20. ASSUME NEW t \in Tasks, RecoverRow(t) PROVE ClusterExclusion'
  BY <1>20 DEF RecoverRow, Updated
<1>21. ASSUME Serve PROVE ClusterExclusion'
  BY <1>21 DEF Serve, StaleRows
<1>22. ASSUME UNCHANGED vars PROVE ClusterExclusion'
  BY <1>22 DEF vars
<1> QED
  BY <1>1, <1>2, <1>3, <1>4, <1>5, <1>6, <1>7, <1>8, <1>9, <1>10, <1>11,
     <1>12, <1>13, <1>14, <1>15, <1>16, <1>17, <1>18, <1>19, <1>20, <1>21,
     <1>22
  DEF Next, TaskStep, Process

(* The abandoned transactions. *)

LEMMA LateStep ==
  TypeOK /\ LateWrites /\ IdleMemory /\ OneVerdict /\ [Next]_vars => LateWrites'
<1> SUFFICES ASSUME TypeOK, LateWrites, IdleMemory, OneVerdict, [Next]_vars PROVE LateWrites'
  OBVIOUS
<1> USE DEF TypeOK, LateWrites, IdleMemory, OneVerdict, Alive, runVars, procVars, Outcomes
<1>1. ASSUME NEW t \in Tasks, NEW c \in Clusters, Dispatch(t, c) PROVE LateWrites'
  BY <1>1 DEF Dispatch, IsNextId
<1>2. ASSUME NEW t \in Tasks, InsertCommit(t) PROVE LateWrites'
  BY <1>2 DEF InsertCommit, Inserted
<1>3. ASSUME NEW t \in Tasks, InsertError(t) PROVE LateWrites'
  BY <1>3 DEF InsertError, Insertion
<1>4. ASSUME NEW t \in Tasks, Register(t) PROVE LateWrites'
  BY <1>4 DEF Register
<1>5. ASSUME NEW t \in Tasks, Decide(t) PROVE LateWrites'
  BY <1>5 DEF Decide
<1>6. ASSUME NEW t \in Tasks, RecordCommit(t) PROVE LateWrites'
  BY <1>6 DEF RecordCommit, Updated
<1>7. ASSUME NEW t \in Tasks, RecordError(t) PROVE LateWrites'
  BY <1>7 DEF RecordError, Recording
<1>8. ASSUME NEW t \in Tasks, Publish(t) PROVE LateWrites'
  BY <1>8 DEF Publish
<1>9. ASSUME NEW t \in Tasks, RemoveRun(t) PROVE LateWrites'
  BY <1>9 DEF RemoveRun
<1>10. ASSUME NEW t \in Tasks, SweepCommit(t) PROVE LateWrites'
  <2>1. \A u \in Tasks : row'[u] \in {row[u], "absent"}
    BY <1>10 DEF SweepCommit, Without
  <2>2. late' = late /\ \A w \in late : w.task \in Tasks
    BY <1>10 DEF SweepCommit, Writes
  <2> QED BY <1>10, <2>1, <2>2 DEF SweepCommit
<1>11. ASSUME NEW t \in Tasks, SweepError(t) PROVE LateWrites'
  BY <1>11 DEF SweepError, Sweeping
<1>12. ASSUME NEW t \in Tasks, Unlock(t) PROVE LateWrites'
  BY <1>12 DEF Unlock
<1>13. ASSUME NEW t \in Tasks, Cancel(t) PROVE LateWrites'
  BY <1>13 DEF Cancel
<1>14. ASSUME ClearHistory PROVE LateWrites'
  <2>1. \A u \in Tasks : row'[u] \in {row[u], "absent"}
    BY <1>14 DEF ClearHistory, Without
  <2>2. late' = late /\ \A w \in late : w.task \in Tasks
    BY <1>14 DEF ClearHistory, Writes
  <2> QED BY <1>14, <2>1, <2>2 DEF ClearHistory
<1>15. ASSUME NEW t \in Tasks, NEW s \in {"succeeded", "failed"}, RecordImmediate(t, s) PROVE LateWrites'
  <2>1. pc[t] = "new" /\ row[t] = "absent" /\ \A w \in late : w.task \in Tasks /\ w.task # t
    BY <1>15 DEF RecordImmediate, IsNextId, Writes
  <2>2. /\ pc' = [pc EXCEPT ![t] = "audited"]
        /\ \A u \in Tasks : u # t => row'[u] = row[u]
        /\ late' # late => row' = row
    BY <1>15 DEF RecordImmediate, Inserted
  <2>3. \A w \in late' : w \in late \/ w = Insertion(t, s)
    BY <1>15 DEF RecordImmediate
  <2>4. ASSUME NEW w \in late' PROVE
          /\ w.op = "insert" => /\ pc'[w.task] \in {"refused", "audited"}
                                /\ row'[w.task] = "absent"
                                /\ pc'[w.task] = "audited" => w.status \in Outcomes
                                /\ pc'[w.task] = "refused" => w.status = "running"
          /\ w.op = "record" => pc'[w.task] \in {"publishing", "sweeping", "unlocking", "done"}
          /\ w.op = "sweep" => pc'[w.task] \in {"unlocking", "done"}
    <3>1. CASE w \in late
      BY <2>1, <2>2, <3>1
    <3>2. CASE w = Insertion(t, s) /\ w \notin late
      BY <2>1, <2>2, <3>2 DEF Insertion
    <3> QED BY <2>3, <3>1, <3>2
  <2>5. \A v, w \in late' : v.op = w.op /\ v.task = w.task => v = w
    BY <2>1, <2>3 DEF Insertion
  <2> QED BY <2>4, <2>5
<1>16. ASSUME NEW w \in late, CommitLate(w) PROVE LateWrites'
  <2>1. w.task \in Tasks /\ late' = late \ {w} /\ pc' = pc
    BY <1>16 DEF CommitLate, Writes
  <2>2. ASSUME NEW v \in late', v.op = "insert"
        PROVE  v.task \in Tasks /\ row'[v.task] = "absent"
    <3>1. v \in late /\ v # w /\ v.task \in Tasks /\ row[v.task] = "absent"
      BY <2>1, <2>2 DEF Writes
    <3>2. CASE w.op = "insert"
      BY <1>16, <2>1, <2>2, <3>1, <3>2 DEF CommitLate, Inserted
    <3>3. CASE w.op = "record"
      BY <1>16, <2>1, <3>1, <3>3 DEF CommitLate, Updated
    <3>4. CASE w.op = "sweep"
      BY <1>16, <2>1, <3>1, <3>4 DEF CommitLate, Without
    <3> QED BY <3>1, <3>2, <3>3, <3>4 DEF Writes
  <2> QED BY <2>1, <2>2
<1>17. ASSUME Shutdown PROVE LateWrites'
  BY <1>17 DEF Shutdown
<1>18. ASSUME Stop PROVE LateWrites'
  BY <1>18 DEF Stop
<1>19. ASSUME Restart PROVE LateWrites'
  BY <1>19 DEF Restart
<1>20. ASSUME NEW t \in Tasks, RecoverRow(t) PROVE LateWrites'
  BY <1>20 DEF RecoverRow, Updated
<1>21. ASSUME Serve PROVE LateWrites'
  BY <1>21 DEF Serve, StaleRows
<1>22. ASSUME UNCHANGED vars PROVE LateWrites'
  BY <1>22 DEF vars
<1> QED
  BY <1>1, <1>2, <1>3, <1>4, <1>5, <1>6, <1>7, <1>8, <1>9, <1>10, <1>11,
     <1>12, <1>13, <1>14, <1>15, <1>16, <1>17, <1>18, <1>19, <1>20, <1>21,
     <1>22
  DEF Next, TaskStep, Process

(* Memory outside a running process. *)

LEMMA IdleStep ==
  TypeOK /\ IdleMemory /\ [Next]_vars => IdleMemory'
<1> SUFFICES ASSUME TypeOK, IdleMemory, [Next]_vars PROVE IdleMemory'
  OBVIOUS
<1> USE DEF TypeOK, IdleMemory, Alive, runVars, procVars
<1>1. ASSUME NEW t \in Tasks, NEW c \in Clusters, Dispatch(t, c) PROVE IdleMemory'
  BY <1>1 DEF Dispatch, IsNextId
<1>2. ASSUME NEW t \in Tasks, InsertCommit(t) PROVE IdleMemory'
  BY <1>2 DEF InsertCommit, Inserted
<1>3. ASSUME NEW t \in Tasks, InsertError(t) PROVE IdleMemory'
  BY <1>3 DEF InsertError, Insertion
<1>4. ASSUME NEW t \in Tasks, Register(t) PROVE IdleMemory'
  BY <1>4 DEF Register
<1>5. ASSUME NEW t \in Tasks, Decide(t) PROVE IdleMemory'
  BY <1>5 DEF Decide
<1>6. ASSUME NEW t \in Tasks, RecordCommit(t) PROVE IdleMemory'
  BY <1>6 DEF RecordCommit, Updated
<1>7. ASSUME NEW t \in Tasks, RecordError(t) PROVE IdleMemory'
  BY <1>7 DEF RecordError, Recording
<1>8. ASSUME NEW t \in Tasks, Publish(t) PROVE IdleMemory'
  BY <1>8 DEF Publish
<1>9. ASSUME NEW t \in Tasks, RemoveRun(t) PROVE IdleMemory'
  BY <1>9 DEF RemoveRun
<1>10. ASSUME NEW t \in Tasks, SweepCommit(t) PROVE IdleMemory'
  BY <1>10 DEF SweepCommit, Without
<1>11. ASSUME NEW t \in Tasks, SweepError(t) PROVE IdleMemory'
  BY <1>11 DEF SweepError, Sweeping
<1>12. ASSUME NEW t \in Tasks, Unlock(t) PROVE IdleMemory'
  BY <1>12 DEF Unlock
<1>13. ASSUME NEW t \in Tasks, Cancel(t) PROVE IdleMemory'
  BY <1>13 DEF Cancel
<1>14. ASSUME ClearHistory PROVE IdleMemory'
  BY <1>14 DEF ClearHistory, Without
<1>15. ASSUME NEW t \in Tasks, NEW s \in {"succeeded", "failed"}, RecordImmediate(t, s) PROVE IdleMemory'
  BY <1>15 DEF RecordImmediate, Inserted, Insertion, IsNextId
<1>16. ASSUME NEW w \in late, CommitLate(w) PROVE IdleMemory'
  BY <1>16 DEF CommitLate, Inserted, Updated, Without
<1>17. ASSUME Shutdown PROVE IdleMemory'
  BY <1>17 DEF Shutdown
<1>18. ASSUME Stop PROVE IdleMemory'
  BY <1>18 DEF Stop
<1>19. ASSUME Restart PROVE IdleMemory'
  BY <1>19 DEF Restart
<1>20. ASSUME NEW t \in Tasks, RecoverRow(t) PROVE IdleMemory'
  BY <1>20 DEF RecoverRow, Updated
<1>21. ASSUME Serve PROVE IdleMemory'
  BY <1>21 DEF Serve, StaleRows
<1>22. ASSUME UNCHANGED vars PROVE IdleMemory'
  BY <1>22 DEF vars
<1> QED
  BY <1>1, <1>2, <1>3, <1>4, <1>5, <1>6, <1>7, <1>8, <1>9, <1>10, <1>11,
     <1>12, <1>13, <1>14, <1>15, <1>16, <1>17, <1>18, <1>19, <1>20, <1>21,
     <1>22
  DEF Next, TaskStep, Process

(* What a late commit can do to the row of one task. *)

LEMMA LateEffect ==
  ASSUME TypeOK, LateWrites, NEW w \in late, CommitLate(w), NEW u \in Tasks
  PROVE  \/ row'[u] \in {row[u], "absent"}
         \/ /\ u = w.task /\ w.op = "insert" /\ row'[u] = w.status
            /\ row[u] = "absent" /\ pc[u] \in {"refused", "audited"}
         \/ /\ u = w.task /\ w.op = "record" /\ row'[u] = w.status
            /\ row[u] # "absent"
<1> USE DEF TypeOK
<1>1. w.task \in Tasks /\ w.op \in {"insert", "record", "sweep"}
  BY DEF Writes
<1>2. CASE w.op = "insert"
  BY <1>1, <1>2 DEF CommitLate, Inserted, LateWrites
<1>3. CASE w.op = "record"
  BY <1>1, <1>3 DEF CommitLate, Updated
<1>4. CASE w.op = "sweep"
  BY <1>1, <1>4 DEF CommitLate, Without
<1> QED BY <1>1, <1>2, <1>3, <1>4

(* One verdict per run. *)

LEMMA VerdictStep ==
  TypeOK /\ LateWrites /\ IdleMemory /\ StreamAgreesWithHistory /\ OneVerdict /\ [Next]_vars => OneVerdict'
<1> SUFFICES ASSUME TypeOK, LateWrites, IdleMemory, StreamAgreesWithHistory, OneVerdict, [Next]_vars PROVE OneVerdict'
  OBVIOUS
<1> USE DEF TypeOK, LateWrites, IdleMemory, OneVerdict, StreamAgreesWithHistory, Alive, runVars, procVars, Outcomes
<1>1. ASSUME NEW t \in Tasks, NEW c \in Clusters, Dispatch(t, c) PROVE OneVerdict'
  BY <1>1 DEF Dispatch, IsNextId
<1>2. ASSUME NEW t \in Tasks, InsertCommit(t) PROVE OneVerdict'
  BY <1>2 DEF InsertCommit, Inserted
<1>3. ASSUME NEW t \in Tasks, InsertError(t) PROVE OneVerdict'
  BY <1>3 DEF InsertError, Insertion
<1>4. ASSUME NEW t \in Tasks, Register(t) PROVE OneVerdict'
  BY <1>4 DEF Register
<1>5. ASSUME NEW t \in Tasks, Decide(t) PROVE OneVerdict'
  BY <1>5 DEF Decide
<1>6. ASSUME NEW t \in Tasks, RecordCommit(t) PROVE OneVerdict'
  BY <1>6 DEF RecordCommit, Updated
<1>7. ASSUME NEW t \in Tasks, RecordError(t) PROVE OneVerdict'
  BY <1>7 DEF RecordError, Recording
<1>8. ASSUME NEW t \in Tasks, Publish(t) PROVE OneVerdict'
  BY <1>8 DEF Publish
<1>9. ASSUME NEW t \in Tasks, RemoveRun(t) PROVE OneVerdict'
  BY <1>9 DEF RemoveRun
<1>10. ASSUME NEW t \in Tasks, SweepCommit(t) PROVE OneVerdict'
  <2>1. \A u \in Tasks : row'[u] \in {row[u], "absent"}
    BY <1>10 DEF SweepCommit, Without
  <2>2. \A w \in late : w.task \in Tasks
    BY DEF Writes
  <2> QED BY <1>10, <2>1, <2>2 DEF SweepCommit
<1>11. ASSUME NEW t \in Tasks, SweepError(t) PROVE OneVerdict'
  BY <1>11 DEF SweepError, Sweeping
<1>12. ASSUME NEW t \in Tasks, Unlock(t) PROVE OneVerdict'
  BY <1>12 DEF Unlock
<1>13. ASSUME NEW t \in Tasks, Cancel(t) PROVE OneVerdict'
  BY <1>13 DEF Cancel
<1>14. ASSUME ClearHistory PROVE OneVerdict'
  <2>1. \A u \in Tasks : row'[u] \in {row[u], "absent"}
    BY <1>14 DEF ClearHistory, Without
  <2>2. \A w \in late : w.task \in Tasks
    BY DEF Writes
  <2> QED BY <1>14, <2>1, <2>2 DEF ClearHistory
<1>15. ASSUME NEW t \in Tasks, NEW s \in {"succeeded", "failed"}, RecordImmediate(t, s) PROVE OneVerdict'
  <2>1. /\ pc[t] = "new" /\ row[t] = "absent" /\ hub[t] \notin Outcomes
        /\ \A w \in late : w.task \in Tasks /\ w.task # t
    BY <1>15 DEF RecordImmediate, IsNextId, Writes
  <2>2. /\ pc' = [pc EXCEPT ![t] = "audited"] /\ hub' = hub /\ verdict' = verdict
        /\ \A u \in Tasks : u # t => row'[u] = row[u]
    BY <1>15 DEF RecordImmediate, Inserted
  <2>3. \A w \in late' : w \in late \/ w.op = "insert"
    BY <1>15 DEF RecordImmediate, Insertion
  <2> QED BY <2>1, <2>2, <2>3
<1>16. ASSUME NEW w \in late, CommitLate(w) PROVE OneVerdict'
  <2>1. UNCHANGED <<pc, hub, verdict>> /\ late' = late \ {w}
    BY <1>16 DEF CommitLate
  <2>2. \A v \in late : v.task \in Tasks
    BY DEF Writes
  <2>3. ASSUME NEW u \in Tasks PROVE
          /\ pc[u] \in {"new", "inserting"} => row'[u] = "absent"
          /\ row'[u] \in Outcomes =>
               pc[u] \in {"publishing", "sweeping", "unlocking", "done", "audited", "lost"}
          /\ pc[u] = "publishing" /\ row'[u] \in Outcomes => row'[u] = verdict[u]
    BY <1>16, LateEffect
  <2>4. ASSUME NEW v \in late', v.op = "record", row'[v.task] \in Outcomes
        PROVE  v.status = row'[v.task]
    BY <1>16, <2>1, <2>2, <2>4, LateEffect
  <2> QED BY <2>1, <2>2, <2>3, <2>4
<1>17. ASSUME Shutdown PROVE OneVerdict'
  BY <1>17 DEF Shutdown
<1>18. ASSUME Stop PROVE OneVerdict'
  BY <1>18 DEF Stop
<1>19. ASSUME Restart PROVE OneVerdict'
  BY <1>19 DEF Restart
<1>20. ASSUME NEW t \in Tasks, RecoverRow(t) PROVE OneVerdict'
  BY <1>20 DEF RecoverRow, Updated
<1>21. ASSUME Serve PROVE OneVerdict'
  BY <1>21 DEF Serve, StaleRows
<1>22. ASSUME UNCHANGED vars PROVE OneVerdict'
  BY <1>22 DEF vars
<1> HIDE DEF TypeOK, LateWrites, IdleMemory, OneVerdict, StreamAgreesWithHistory, Outcomes
<1> QED
  BY <1>1, <1>2, <1>3, <1>4, <1>5, <1>6, <1>7, <1>8, <1>9, <1>10, <1>11,
     <1>12, <1>13, <1>14, <1>15, <1>16, <1>17, <1>18, <1>19, <1>20, <1>21,
     <1>22
  DEF Next, TaskStep, Process

(* No stale running row. *)

LEMMA StaleStep ==
  TypeOK /\ LateWrites /\ IdleMemory /\ NoStaleRunningRow /\ OneVerdict /\ [Next]_vars => NoStaleRunningRow'
<1> SUFFICES ASSUME TypeOK, LateWrites, IdleMemory, NoStaleRunningRow, OneVerdict, [Next]_vars PROVE NoStaleRunningRow'
  OBVIOUS
<1> USE DEF TypeOK, LateWrites, IdleMemory, OneVerdict, NoStaleRunningRow, Alive, procVars, Outcomes
<1>1. ASSUME NEW t \in Tasks, NEW c \in Clusters, Dispatch(t, c) PROVE NoStaleRunningRow'
  BY <1>1 DEF Dispatch, IsNextId
<1>2. ASSUME NEW t \in Tasks, InsertCommit(t) PROVE NoStaleRunningRow'
  BY <1>2 DEF InsertCommit, Inserted
<1>3. ASSUME NEW t \in Tasks, InsertError(t) PROVE NoStaleRunningRow'
  BY <1>3 DEF InsertError, Insertion
<1>4. ASSUME NEW t \in Tasks, Register(t) PROVE NoStaleRunningRow'
  BY <1>4 DEF Register
<1>5. ASSUME NEW t \in Tasks, Decide(t) PROVE NoStaleRunningRow'
  BY <1>5 DEF Decide
<1>6. ASSUME NEW t \in Tasks, RecordCommit(t) PROVE NoStaleRunningRow'
  BY <1>6 DEF RecordCommit, Updated
<1>7. ASSUME NEW t \in Tasks, RecordError(t) PROVE NoStaleRunningRow'
  BY <1>7 DEF RecordError, Recording
<1>8. ASSUME NEW t \in Tasks, Publish(t) PROVE NoStaleRunningRow'
  BY <1>8 DEF Publish
<1>9. ASSUME NEW t \in Tasks, RemoveRun(t) PROVE NoStaleRunningRow'
  BY <1>9 DEF RemoveRun
<1>10. ASSUME NEW t \in Tasks, SweepCommit(t) PROVE NoStaleRunningRow'
  BY <1>10 DEF SweepCommit, Without
<1>11. ASSUME NEW t \in Tasks, SweepError(t) PROVE NoStaleRunningRow'
  BY <1>11 DEF SweepError, Sweeping
<1>12. ASSUME NEW t \in Tasks, Unlock(t) PROVE NoStaleRunningRow'
  BY <1>12 DEF Unlock
<1>13. ASSUME NEW t \in Tasks, Cancel(t) PROVE NoStaleRunningRow'
  BY <1>13 DEF Cancel
<1>14. ASSUME ClearHistory PROVE NoStaleRunningRow'
  BY <1>14 DEF ClearHistory, Without
<1>15. ASSUME NEW t \in Tasks, NEW s \in {"succeeded", "failed"}, RecordImmediate(t, s) PROVE NoStaleRunningRow'
  BY <1>15 DEF RecordImmediate, Inserted, Insertion, IsNextId
<1>16. ASSUME NEW w \in late, CommitLate(w) PROVE NoStaleRunningRow'
  <2>1. UNCHANGED <<pc, phase>>
    BY <1>16 DEF CommitLate
  <2> QED BY <1>16, <2>1, LateEffect
<1>17. ASSUME Shutdown PROVE NoStaleRunningRow'
  BY <1>17 DEF Shutdown
<1>18. ASSUME Stop PROVE NoStaleRunningRow'
  BY <1>18 DEF Stop
<1>19. ASSUME Restart PROVE NoStaleRunningRow'
  BY <1>19 DEF Restart
<1>20. ASSUME NEW t \in Tasks, RecoverRow(t) PROVE NoStaleRunningRow'
  BY <1>20 DEF RecoverRow, Updated
<1>21. ASSUME Serve PROVE NoStaleRunningRow'
  BY <1>21 DEF Serve, StaleRows
<1>22. ASSUME UNCHANGED vars PROVE NoStaleRunningRow'
  BY <1>22 DEF vars
<1> QED
  BY <1>1, <1>2, <1>3, <1>4, <1>5, <1>6, <1>7, <1>8, <1>9, <1>10, <1>11,
     <1>12, <1>13, <1>14, <1>15, <1>16, <1>17, <1>18, <1>19, <1>20, <1>21,
     <1>22
  DEF Next, TaskStep, Process

(* The stream and the history. *)

LEMMA StreamStep ==
  TypeOK /\ LateWrites /\ IdleMemory /\ StreamAgreesWithHistory /\ OneVerdict /\ [Next]_vars => StreamAgreesWithHistory'
<1> SUFFICES ASSUME TypeOK, LateWrites, IdleMemory, StreamAgreesWithHistory, OneVerdict, [Next]_vars PROVE StreamAgreesWithHistory'
  OBVIOUS
<1> USE DEF TypeOK, LateWrites, IdleMemory, OneVerdict, StreamAgreesWithHistory, Alive, runVars, procVars, Outcomes
<1>1. ASSUME NEW t \in Tasks, NEW c \in Clusters, Dispatch(t, c) PROVE StreamAgreesWithHistory'
  BY <1>1 DEF Dispatch, IsNextId
<1>2. ASSUME NEW t \in Tasks, InsertCommit(t) PROVE StreamAgreesWithHistory'
  BY <1>2 DEF InsertCommit, Inserted
<1>3. ASSUME NEW t \in Tasks, InsertError(t) PROVE StreamAgreesWithHistory'
  BY <1>3 DEF InsertError, Insertion
<1>4. ASSUME NEW t \in Tasks, Register(t) PROVE StreamAgreesWithHistory'
  BY <1>4 DEF Register
<1>5. ASSUME NEW t \in Tasks, Decide(t) PROVE StreamAgreesWithHistory'
  BY <1>5 DEF Decide
<1>6. ASSUME NEW t \in Tasks, RecordCommit(t) PROVE StreamAgreesWithHistory'
  BY <1>6 DEF RecordCommit, Updated
<1>7. ASSUME NEW t \in Tasks, RecordError(t) PROVE StreamAgreesWithHistory'
  BY <1>7 DEF RecordError, Recording
<1>8. ASSUME NEW t \in Tasks, Publish(t) PROVE StreamAgreesWithHistory'
  BY <1>8 DEF Publish
<1>9. ASSUME NEW t \in Tasks, RemoveRun(t) PROVE StreamAgreesWithHistory'
  BY <1>9 DEF RemoveRun
<1>10. ASSUME NEW t \in Tasks, SweepCommit(t) PROVE StreamAgreesWithHistory'
  BY <1>10 DEF SweepCommit, Without
<1>11. ASSUME NEW t \in Tasks, SweepError(t) PROVE StreamAgreesWithHistory'
  BY <1>11 DEF SweepError, Sweeping
<1>12. ASSUME NEW t \in Tasks, Unlock(t) PROVE StreamAgreesWithHistory'
  BY <1>12 DEF Unlock
<1>13. ASSUME NEW t \in Tasks, Cancel(t) PROVE StreamAgreesWithHistory'
  BY <1>13 DEF Cancel
<1>14. ASSUME ClearHistory PROVE StreamAgreesWithHistory'
  BY <1>14 DEF ClearHistory, Without
<1>15. ASSUME NEW t \in Tasks, NEW s \in {"succeeded", "failed"}, RecordImmediate(t, s) PROVE StreamAgreesWithHistory'
  BY <1>15 DEF RecordImmediate, Inserted, Insertion, IsNextId
<1>16. ASSUME NEW w \in late, CommitLate(w) PROVE StreamAgreesWithHistory'
  <2>1. UNCHANGED hub
    BY <1>16 DEF CommitLate
  <2> QED BY <1>16, <2>1, LateEffect
<1>17. ASSUME Shutdown PROVE StreamAgreesWithHistory'
  BY <1>17 DEF Shutdown
<1>18. ASSUME Stop PROVE StreamAgreesWithHistory'
  BY <1>18 DEF Stop
<1>19. ASSUME Restart PROVE StreamAgreesWithHistory'
  BY <1>19 DEF Restart
<1>20. ASSUME NEW t \in Tasks, RecoverRow(t) PROVE StreamAgreesWithHistory'
  BY <1>20 DEF RecoverRow, Updated
<1>21. ASSUME Serve PROVE StreamAgreesWithHistory'
  BY <1>21 DEF Serve, StaleRows
<1>22. ASSUME UNCHANGED vars PROVE StreamAgreesWithHistory'
  BY <1>22 DEF vars
<1> QED
  BY <1>1, <1>2, <1>3, <1>4, <1>5, <1>6, <1>7, <1>8, <1>9, <1>10, <1>11,
     <1>12, <1>13, <1>14, <1>15, <1>16, <1>17, <1>18, <1>19, <1>20, <1>21,
     <1>22
  DEF Next, TaskStep, Process

(* The inductive invariant. *)

LEMMA InitIInv == Init => IInv
<1> SUFFICES ASSUME Init PROVE IInv
  OBVIOUS
<1> USE DEF Init
<1>1. TypeOK
  BY InitTypeOK
<1>2. ClusterExclusion
  BY ConstantsAssumption
  DEF ClusterExclusion, OwnerIffHolding, OneHolder, LockIffHeld, Holders, Holding
<1>3. NoStaleRunningRow /\ StreamAgreesWithHistory
  BY DEF NoStaleRunningRow, StreamAgreesWithHistory, Outcomes
<1>4. LateWrites /\ IdleMemory /\ OneVerdict
  BY DEF LateWrites, IdleMemory, OneVerdict, Alive, Outcomes
<1> QED BY <1>1, <1>2, <1>3, <1>4 DEF IInv

LEMMA StepIInv == IInv /\ [Next]_vars => IInv'
  BY TypeStep, ExclusionStep, LateStep, IdleStep, VerdictStep, StaleStep, StreamStep
  DEF IInv

\* The inductive invariant holds in every behaviour.
THEOREM Invariance == Spec => []IInv
  BY InitIInv, StepIInv, PTL DEF Spec

\* Every variable keeps to its type.
THEOREM TypeCorrect == Spec => []TypeOK
<1>1. IInv => TypeOK
  BY DEF IInv
<1> QED BY <1>1, Invariance, PTL

\* One operation at a time on a cluster, and its mutex is never leaked
\* (Dispatch and executeRun in orchestrator.go).
THEOREM Exclusion == Spec => []ClusterExclusion
<1>1. IInv => ClusterExclusion
  BY DEF IInv
<1> QED BY <1>1, Invariance, PTL

\* A process that serves shows no running row of an earlier process
\* (RecoverInFlight in recovery.go).
THEOREM Recovery == Spec => []NoStaleRunningRow
<1>1. IInv => NoStaleRunningRow
  BY DEF IInv
<1> QED BY <1>1, Invariance, PTL

\* The outcome a stream shows is the one the history shows (executeRun).
THEOREM StreamAgreement == Spec => []StreamAgreesWithHistory
<1>1. IInv => StreamAgreesWithHistory
  BY DEF IInv
<1> QED BY <1>1, Invariance, PTL

(* Histories of rows. *)

LEMMA FinalStep ==
  ASSUME IInv, [Next]_vars, NEW u \in Tasks
  PROVE  row[u] \in Outcomes => row'[u] \in {row[u], "absent"}
<1> USE DEF IInv, TypeOK, OneVerdict, Outcomes
<1>1. ASSUME NEW t \in Tasks, NEW c \in Clusters, Dispatch(t, c) PROVE row[u] \in Outcomes => row'[u] \in {row[u], "absent"}
  BY <1>1 DEF Dispatch
<1>2. ASSUME NEW t \in Tasks, InsertCommit(t) PROVE row[u] \in Outcomes => row'[u] \in {row[u], "absent"}
  BY <1>2 DEF InsertCommit, Inserted
<1>3. ASSUME NEW t \in Tasks, InsertError(t) PROVE row[u] \in Outcomes => row'[u] \in {row[u], "absent"}
  BY <1>3 DEF InsertError, Insertion
<1>4. ASSUME NEW t \in Tasks, Register(t) PROVE row[u] \in Outcomes => row'[u] \in {row[u], "absent"}
  BY <1>4 DEF Register
<1>5. ASSUME NEW t \in Tasks, Decide(t) PROVE row[u] \in Outcomes => row'[u] \in {row[u], "absent"}
  BY <1>5 DEF Decide
<1>6. ASSUME NEW t \in Tasks, RecordCommit(t) PROVE row[u] \in Outcomes => row'[u] \in {row[u], "absent"}
  BY <1>6 DEF RecordCommit, Updated
<1>7. ASSUME NEW t \in Tasks, RecordError(t) PROVE row[u] \in Outcomes => row'[u] \in {row[u], "absent"}
  BY <1>7 DEF RecordError, Recording
<1>8. ASSUME NEW t \in Tasks, Publish(t) PROVE row[u] \in Outcomes => row'[u] \in {row[u], "absent"}
  BY <1>8 DEF Publish
<1>9. ASSUME NEW t \in Tasks, RemoveRun(t) PROVE row[u] \in Outcomes => row'[u] \in {row[u], "absent"}
  BY <1>9 DEF RemoveRun
<1>10. ASSUME NEW t \in Tasks, SweepCommit(t) PROVE row[u] \in Outcomes => row'[u] \in {row[u], "absent"}
  BY <1>10 DEF SweepCommit, Without
<1>11. ASSUME NEW t \in Tasks, SweepError(t) PROVE row[u] \in Outcomes => row'[u] \in {row[u], "absent"}
  BY <1>11 DEF SweepError, Sweeping
<1>12. ASSUME NEW t \in Tasks, Unlock(t) PROVE row[u] \in Outcomes => row'[u] \in {row[u], "absent"}
  BY <1>12 DEF Unlock
<1>13. ASSUME NEW t \in Tasks, Cancel(t) PROVE row[u] \in Outcomes => row'[u] \in {row[u], "absent"}
  BY <1>13 DEF Cancel
<1>14. ASSUME ClearHistory PROVE row[u] \in Outcomes => row'[u] \in {row[u], "absent"}
  BY <1>14 DEF ClearHistory, Without
<1>15. ASSUME NEW t \in Tasks, NEW s \in {"succeeded", "failed"}, RecordImmediate(t, s) PROVE row[u] \in Outcomes => row'[u] \in {row[u], "absent"}
  BY <1>15 DEF RecordImmediate, Inserted, Insertion, IsNextId
<1>16. ASSUME NEW w \in late, CommitLate(w) PROVE row[u] \in Outcomes => row'[u] \in {row[u], "absent"}
  BY <1>16, LateEffect
<1>17. ASSUME Shutdown PROVE row[u] \in Outcomes => row'[u] \in {row[u], "absent"}
  BY <1>17 DEF Shutdown
<1>18. ASSUME Stop PROVE row[u] \in Outcomes => row'[u] \in {row[u], "absent"}
  BY <1>18 DEF Stop
<1>19. ASSUME Restart PROVE row[u] \in Outcomes => row'[u] \in {row[u], "absent"}
  BY <1>19 DEF Restart
<1>20. ASSUME NEW t \in Tasks, RecoverRow(t) PROVE row[u] \in Outcomes => row'[u] \in {row[u], "absent"}
  BY <1>20 DEF RecoverRow, Updated
<1>21. ASSUME Serve PROVE row[u] \in Outcomes => row'[u] \in {row[u], "absent"}
  BY <1>21 DEF Serve, StaleRows
<1>22. ASSUME UNCHANGED vars PROVE row[u] \in Outcomes => row'[u] \in {row[u], "absent"}
  BY <1>22 DEF vars
<1> QED
  BY <1>1, <1>2, <1>3, <1>4, <1>5, <1>6, <1>7, <1>8, <1>9, <1>10, <1>11,
     <1>12, <1>13, <1>14, <1>15, <1>16, <1>17, <1>18, <1>19, <1>20, <1>21,
     <1>22
  DEF Next, TaskStep, Process

\* A finished operation's row keeps its outcome until it is deleted, through
\* late commits, retries of the insert and recovery (history.go, Update).
THEOREM FinalOutcome == Spec => OutcomeIsFinal
<1>1. IInv /\ [Next]_vars =>
        [\A t \in Tasks : row[t] \in Outcomes => row'[t] \in {row[t], "absent"}]_vars
  BY FinalStep
<1> QED BY <1>1, Invariance, PTL DEF Spec, OutcomeIsFinal

LEMMA ResurrectionStep ==
  ASSUME IInv, [Next]_vars, NEW u \in Tasks
  PROVE  row[u] = "absent" /\ row'[u] # "absent" =>
           \/ pc[u] = "inserting"
           \/ pc'[u] = "audited" /\ row'[u] \in Outcomes
           \/ pc[u] = "refused" /\ Insertion(u, "running") \in late
<1> USE DEF IInv, TypeOK, OneVerdict, Outcomes
<1>1. ASSUME NEW t \in Tasks, NEW c \in Clusters, Dispatch(t, c) PROVE row[u] = "absent" /\ row'[u] # "absent" =>
           \/ pc[u] = "inserting"
           \/ pc'[u] = "audited" /\ row'[u] \in Outcomes
           \/ pc[u] = "refused" /\ Insertion(u, "running") \in late
  BY <1>1 DEF Dispatch
<1>2. ASSUME NEW t \in Tasks, InsertCommit(t) PROVE row[u] = "absent" /\ row'[u] # "absent" =>
           \/ pc[u] = "inserting"
           \/ pc'[u] = "audited" /\ row'[u] \in Outcomes
           \/ pc[u] = "refused" /\ Insertion(u, "running") \in late
  BY <1>2 DEF InsertCommit, Inserted
<1>3. ASSUME NEW t \in Tasks, InsertError(t) PROVE row[u] = "absent" /\ row'[u] # "absent" =>
           \/ pc[u] = "inserting"
           \/ pc'[u] = "audited" /\ row'[u] \in Outcomes
           \/ pc[u] = "refused" /\ Insertion(u, "running") \in late
  BY <1>3 DEF InsertError, Insertion
<1>4. ASSUME NEW t \in Tasks, Register(t) PROVE row[u] = "absent" /\ row'[u] # "absent" =>
           \/ pc[u] = "inserting"
           \/ pc'[u] = "audited" /\ row'[u] \in Outcomes
           \/ pc[u] = "refused" /\ Insertion(u, "running") \in late
  BY <1>4 DEF Register
<1>5. ASSUME NEW t \in Tasks, Decide(t) PROVE row[u] = "absent" /\ row'[u] # "absent" =>
           \/ pc[u] = "inserting"
           \/ pc'[u] = "audited" /\ row'[u] \in Outcomes
           \/ pc[u] = "refused" /\ Insertion(u, "running") \in late
  BY <1>5 DEF Decide
<1>6. ASSUME NEW t \in Tasks, RecordCommit(t) PROVE row[u] = "absent" /\ row'[u] # "absent" =>
           \/ pc[u] = "inserting"
           \/ pc'[u] = "audited" /\ row'[u] \in Outcomes
           \/ pc[u] = "refused" /\ Insertion(u, "running") \in late
  BY <1>6 DEF RecordCommit, Updated
<1>7. ASSUME NEW t \in Tasks, RecordError(t) PROVE row[u] = "absent" /\ row'[u] # "absent" =>
           \/ pc[u] = "inserting"
           \/ pc'[u] = "audited" /\ row'[u] \in Outcomes
           \/ pc[u] = "refused" /\ Insertion(u, "running") \in late
  BY <1>7 DEF RecordError, Recording
<1>8. ASSUME NEW t \in Tasks, Publish(t) PROVE row[u] = "absent" /\ row'[u] # "absent" =>
           \/ pc[u] = "inserting"
           \/ pc'[u] = "audited" /\ row'[u] \in Outcomes
           \/ pc[u] = "refused" /\ Insertion(u, "running") \in late
  BY <1>8 DEF Publish
<1>9. ASSUME NEW t \in Tasks, RemoveRun(t) PROVE row[u] = "absent" /\ row'[u] # "absent" =>
           \/ pc[u] = "inserting"
           \/ pc'[u] = "audited" /\ row'[u] \in Outcomes
           \/ pc[u] = "refused" /\ Insertion(u, "running") \in late
  BY <1>9 DEF RemoveRun
<1>10. ASSUME NEW t \in Tasks, SweepCommit(t) PROVE row[u] = "absent" /\ row'[u] # "absent" =>
           \/ pc[u] = "inserting"
           \/ pc'[u] = "audited" /\ row'[u] \in Outcomes
           \/ pc[u] = "refused" /\ Insertion(u, "running") \in late
  BY <1>10 DEF SweepCommit, Without
<1>11. ASSUME NEW t \in Tasks, SweepError(t) PROVE row[u] = "absent" /\ row'[u] # "absent" =>
           \/ pc[u] = "inserting"
           \/ pc'[u] = "audited" /\ row'[u] \in Outcomes
           \/ pc[u] = "refused" /\ Insertion(u, "running") \in late
  BY <1>11 DEF SweepError, Sweeping
<1>12. ASSUME NEW t \in Tasks, Unlock(t) PROVE row[u] = "absent" /\ row'[u] # "absent" =>
           \/ pc[u] = "inserting"
           \/ pc'[u] = "audited" /\ row'[u] \in Outcomes
           \/ pc[u] = "refused" /\ Insertion(u, "running") \in late
  BY <1>12 DEF Unlock
<1>13. ASSUME NEW t \in Tasks, Cancel(t) PROVE row[u] = "absent" /\ row'[u] # "absent" =>
           \/ pc[u] = "inserting"
           \/ pc'[u] = "audited" /\ row'[u] \in Outcomes
           \/ pc[u] = "refused" /\ Insertion(u, "running") \in late
  BY <1>13 DEF Cancel
<1>14. ASSUME ClearHistory PROVE row[u] = "absent" /\ row'[u] # "absent" =>
           \/ pc[u] = "inserting"
           \/ pc'[u] = "audited" /\ row'[u] \in Outcomes
           \/ pc[u] = "refused" /\ Insertion(u, "running") \in late
  BY <1>14 DEF ClearHistory, Without
<1>15. ASSUME NEW t \in Tasks, NEW s \in {"succeeded", "failed"}, RecordImmediate(t, s) PROVE row[u] = "absent" /\ row'[u] # "absent" =>
           \/ pc[u] = "inserting"
           \/ pc'[u] = "audited" /\ row'[u] \in Outcomes
           \/ pc[u] = "refused" /\ Insertion(u, "running") \in late
  BY <1>15 DEF RecordImmediate, Inserted, Insertion, IsNextId
<1>16. ASSUME NEW w \in late, CommitLate(w) PROVE row[u] = "absent" /\ row'[u] # "absent" =>
           \/ pc[u] = "inserting"
           \/ pc'[u] = "audited" /\ row'[u] \in Outcomes
           \/ pc[u] = "refused" /\ Insertion(u, "running") \in late
  <2>1. pc' = pc
    BY <1>16 DEF CommitLate
  <2>2. ASSUME u = w.task, w.op = "insert", pc[u] = "refused"
        PROVE  w = Insertion(u, "running")
    BY <2>2 DEF LateWrites, Writes, Insertion
  <2>3. ASSUME u = w.task, w.op = "insert", pc[u] = "audited"
        PROVE  w.status \in Outcomes
    BY <2>3 DEF LateWrites
  <2> QED BY <1>16, <2>1, <2>2, <2>3, LateEffect
<1>17. ASSUME Shutdown PROVE row[u] = "absent" /\ row'[u] # "absent" =>
           \/ pc[u] = "inserting"
           \/ pc'[u] = "audited" /\ row'[u] \in Outcomes
           \/ pc[u] = "refused" /\ Insertion(u, "running") \in late
  BY <1>17 DEF Shutdown
<1>18. ASSUME Stop PROVE row[u] = "absent" /\ row'[u] # "absent" =>
           \/ pc[u] = "inserting"
           \/ pc'[u] = "audited" /\ row'[u] \in Outcomes
           \/ pc[u] = "refused" /\ Insertion(u, "running") \in late
  BY <1>18 DEF Stop
<1>19. ASSUME Restart PROVE row[u] = "absent" /\ row'[u] # "absent" =>
           \/ pc[u] = "inserting"
           \/ pc'[u] = "audited" /\ row'[u] \in Outcomes
           \/ pc[u] = "refused" /\ Insertion(u, "running") \in late
  BY <1>19 DEF Restart
<1>20. ASSUME NEW t \in Tasks, RecoverRow(t) PROVE row[u] = "absent" /\ row'[u] # "absent" =>
           \/ pc[u] = "inserting"
           \/ pc'[u] = "audited" /\ row'[u] \in Outcomes
           \/ pc[u] = "refused" /\ Insertion(u, "running") \in late
  BY <1>20 DEF RecoverRow, Updated
<1>21. ASSUME Serve PROVE row[u] = "absent" /\ row'[u] # "absent" =>
           \/ pc[u] = "inserting"
           \/ pc'[u] = "audited" /\ row'[u] \in Outcomes
           \/ pc[u] = "refused" /\ Insertion(u, "running") \in late
  BY <1>21 DEF Serve, StaleRows
<1>22. ASSUME UNCHANGED vars PROVE row[u] = "absent" /\ row'[u] # "absent" =>
           \/ pc[u] = "inserting"
           \/ pc'[u] = "audited" /\ row'[u] \in Outcomes
           \/ pc[u] = "refused" /\ Insertion(u, "running") \in late
  BY <1>22 DEF vars
<1> QED
  BY <1>1, <1>2, <1>3, <1>4, <1>5, <1>6, <1>7, <1>8, <1>9, <1>10, <1>11,
     <1>12, <1>13, <1>14, <1>15, <1>16, <1>17, <1>18, <1>19, <1>20, <1>21,
     <1>22
  DEF Next, TaskStep, Process

\* A cleared or swept row never comes back (history.go, Update refuses a
\* missing row).
THEOREM Resurrection == Spec => NoResurrection
<1>1. IInv /\ [Next]_vars =>
        [\A t \in Tasks :
           row[t] = "absent" /\ row'[t] # "absent" =>
             \/ pc[t] = "inserting"
             \/ pc'[t] = "audited" /\ row'[t] \in Outcomes
             \/ pc[t] = "refused" /\ Insertion(t, "running") \in late]_vars
  BY ResurrectionStep
<1> QED BY <1>1, Invariance, PTL DEF Spec, NoResurrection

-----------------------------------------------------------------------------
(* TaskManager implements OperationLifecycle, for all values of the        *)
(* constants: every step of the manager is a step of the lifecycle or      *)
(* leaves holder, journal and fresh alone.                                 *)

\* The holder of each cluster, as a function of `owner`.
OneOf(S) == IF S = {} THEN None ELSE CHOOSE t \in S : TRUE
HolderIn(own) == [c \in Clusters |-> OneOf({t \in Tasks : own[t] = c})]

LEMMA HoldersByOwner == holders = HolderIn(owner) /\ holders' = HolderIn(owner')
  BY DEF holders, HolderIn, Holders, OneOf

LEMMA HolderOf ==
  ASSUME NEW own \in [Tasks -> Clusters \cup {None}],
         \A t, u \in Tasks : own[t] # None /\ own[t] = own[u] => t = u,
         NEW c \in Clusters
  PROVE  /\ \A t \in Tasks : own[t] = c => HolderIn(own)[c] = t
         /\ (\A t \in Tasks : own[t] # c) => HolderIn(own)[c] = None
<1>1. ASSUME NEW t \in Tasks, own[t] = c PROVE HolderIn(own)[c] = t
  <2>1. {u \in Tasks : own[u] = c} = {t}
    BY <1>1, ConstantsAssumption
  <2> QED BY <2>1 DEF HolderIn, OneOf
<1>2. ASSUME \A t \in Tasks : own[t] # c PROVE HolderIn(own)[c] = None
  BY <1>2 DEF HolderIn, OneOf
<1> QED BY <1>1, <1>2

LEMMA Taken ==
  ASSUME IInv, NEW t \in Tasks, NEW c \in Clusters, Dispatch(t, c), IInv'
  PROVE  /\ holders[c] = None
         /\ \A d \in Clusters : holders[d] # t
         /\ holders' = [holders EXCEPT ![c] = t]
<1> USE DEF IInv, TypeOK, ClusterExclusion, OneHolder
<1>1. /\ \A u \in Tasks : owner[u] # c
      /\ owner[t] = None
  BY ConstantsAssumption
  DEF Dispatch, IsNextId, LockIffHeld, Holders, OwnerIffHolding, Holding
<1>2. owner' = [owner EXCEPT ![t] = c]
  BY DEF Dispatch
<1>3. holders[c] = None
  BY <1>1, HolderOf, HoldersByOwner
<1>4. ASSUME NEW d \in Clusters PROVE holders[d] # t
  <2>1. CASE \E u \in Tasks : owner[u] = d
    <3>1. PICK u \in Tasks : owner[u] = d
      BY <2>1
    <3>2. holders[d] = u
      BY <3>1, HolderOf, HoldersByOwner
    <3> QED BY <1>1, <3>1, <3>2, ConstantsAssumption
  <2>2. CASE \A u \in Tasks : owner[u] # d
    BY <2>2, HolderOf, HoldersByOwner, ConstantsAssumption
  <2> QED BY <2>1, <2>2
<1>5. ASSUME NEW d \in Clusters PROVE holders'[d] = [holders EXCEPT ![c] = t][d]
  <2>1. CASE d = c
    <3>1. {u \in Tasks : owner'[u] = c} = {t}
      BY <1>1, <1>2
    <3>2. HolderIn(owner')[c] = t
      BY <3>1 DEF HolderIn, OneOf
    <3> QED BY <2>1, <3>2, HoldersByOwner DEF HolderIn
  <2>2. CASE d # c
    <3>1. \A u \in Tasks : owner'[u] = d <=> owner[u] = d
      BY <1>1, <1>2, <2>2, ConstantsAssumption
    <3>2. {u \in Tasks : owner'[u] = d} = {u \in Tasks : owner[u] = d}
      BY <3>1
    <3>3. HolderIn(owner')[d] = HolderIn(owner)[d]
      BY <3>2 DEF HolderIn
    <3>4. [HolderIn(owner) EXCEPT ![c] = t][d] = HolderIn(owner)[d]
      BY <2>2 DEF HolderIn
    <3> QED BY <3>3, <3>4, HoldersByOwner
  <2> QED BY <2>1, <2>2
<1>6. holders' = [holders EXCEPT ![c] = t]
  BY <1>5, HoldersByOwner DEF HolderIn
<1> QED BY <1>3, <1>4, <1>6

LEMMA Released ==
  ASSUME IInv, NEW t \in Tasks, owner[t] # None, owner' = [owner EXCEPT ![t] = None]
  PROVE  /\ owner[t] \in Clusters
         /\ holders[owner[t]] # None
         /\ holders' = [holders EXCEPT ![owner[t]] = None]
<1> USE DEF IInv, TypeOK, ClusterExclusion, OneHolder
<1>1. owner[t] \in Clusters
  OBVIOUS
<1>2. holders[owner[t]] = t
  BY <1>1, HolderOf, HoldersByOwner
<1>3. ASSUME NEW d \in Clusters PROVE holders'[d] = [holders EXCEPT ![owner[t]] = None][d]
  <2>1. CASE d = owner[t]
    <3>1. \A u \in Tasks : owner'[u] # d
      BY <2>1, ConstantsAssumption
    <3> QED BY <2>1, <3>1, HoldersByOwner DEF HolderIn, OneOf
  <2>2. CASE d # owner[t]
    <3>1. \A u \in Tasks : owner'[u] = d <=> owner[u] = d
      BY <2>2, ConstantsAssumption
    <3>2. {u \in Tasks : owner'[u] = d} = {u \in Tasks : owner[u] = d}
      BY <3>1
    <3> QED BY <2>2, <3>2, HoldersByOwner DEF HolderIn
  <2> QED BY <2>1, <2>2
<1>4. holders' = [holders EXCEPT ![owner[t]] = None]
  BY <1>3, HoldersByOwner DEF HolderIn
<1> QED BY <1>1, <1>2, <1>4, ConstantsAssumption

LEMMA SameHolders == owner' = owner => holders' = holders
  BY HoldersByOwner

-----------------------------------------------------------------------------
(* Each action of the manager is a step of the lifecycle.                  *)

Simulates == [Lifecycle!Next]_<<holders, row, mayOpen>>

LEMMA InitSimulates == Init => Lifecycle!Init
<1> SUFFICES ASSUME Init PROVE Lifecycle!Init
  OBVIOUS
<1>1. holders = [c \in Clusters |-> None]
  BY ConstantsAssumption DEF Init, holders, Holders
<1>2. mayOpen = Tasks
  BY DEF Init, mayOpen
<1> QED BY <1>1, <1>2 DEF Init, Lifecycle!Init

\* What mayOpen says of one task.
LEMMA MayOpen ==
  /\ mayOpen \subseteq Tasks /\ mayOpen' \subseteq Tasks
  /\ \A t \in Tasks :
       /\ t \in mayOpen <=> \/ pc[t] \in {"new", "inserting"}
                            \/ \E w \in late : w.op = "insert" /\ w.task = t
       /\ t \in mayOpen' <=> \/ pc'[t] \in {"new", "inserting"}
                             \/ \E w \in late' : w.op = "insert" /\ w.task = t
  BY DEF mayOpen

LEMMA DispatchSimulates ==
  ASSUME IInv, IInv', NEW t \in Tasks, NEW c \in Clusters, Dispatch(t, c)
  PROVE  Lifecycle!Begin(c, t)
<1>1. mayOpen' = mayOpen /\ t \in mayOpen
  <2>1. late' = late /\ pc[t] = "new" /\ pc' = [pc EXCEPT ![t] = "inserting"]
    BY DEF Dispatch, IsNextId
  <2>2. \A u \in Tasks : u \in mayOpen' <=> u \in mayOpen
    BY <2>1, MayOpen DEF IInv, TypeOK
  <2> QED BY <2>1, <2>2, MayOpen
<1>2. row' = row
  BY DEF Dispatch
<1> QED BY <1>1, <1>2, Taken DEF Lifecycle!Begin

LEMMA InsertCommitSimulates ==
  ASSUME IInv, NEW t \in Tasks, InsertCommit(t)
  PROVE  Lifecycle!Open(t, "running")
<1> USE DEF IInv, TypeOK
<1>1. pc[t] = "inserting" /\ row[t] = "absent"
  BY DEF InsertCommit, OneVerdict
<1>2. ~ \E w \in late : w.op = "insert" /\ w.task = t
  BY <1>1 DEF LateWrites
<1>3. mayOpen' = mayOpen \ {t} /\ t \in mayOpen
  BY <1>1, <1>2, MayOpen DEF InsertCommit
<1>4. row' = [row EXCEPT ![t] = "running"] /\ holders' = holders
  BY SameHolders DEF InsertCommit, Inserted
<1> QED BY <1>1, <1>3, <1>4 DEF Lifecycle!Open

LEMMA InsertErrorSimulates ==
  ASSUME IInv, NEW t \in Tasks, InsertError(t)
  PROVE  \E c \in Clusters, void \in SUBSET Tasks : Lifecycle!Release(c, void)
<1> USE DEF IInv, TypeOK
<1>1. owner[t] # None /\ owner' = [owner EXCEPT ![t] = None] /\ row' = row
  BY DEF InsertError, ClusterExclusion, OwnerIffHolding, Holding
<1>2. \A u \in Tasks : u # t => pc'[u] = pc[u]
  BY DEF InsertError
<1>3. \A w \in late' : w \in late \/ w.task = t
  BY DEF InsertError, Insertion
<1>4. late \subseteq late'
  BY DEF InsertError
<1>5. t \in mayOpen
  BY MayOpen DEF InsertError
<1>6. \A u \in Tasks : u # t => (u \in mayOpen' <=> u \in mayOpen)
  BY <1>2, <1>3, <1>4, MayOpen
<1>7. mayOpen' = mayOpen \ (IF t \in mayOpen' THEN {} ELSE {t})
  BY <1>5, <1>6, MayOpen
<1>8. Lifecycle!Release(owner[t], IF t \in mayOpen' THEN {} ELSE {t})
  BY <1>1, <1>7, Released DEF Lifecycle!Release
<1> QED BY <1>1, <1>8, Released

LEMMA UnlockSimulates ==
  ASSUME IInv, NEW t \in Tasks, Unlock(t)
  PROVE  \E c \in Clusters, void \in SUBSET Tasks : Lifecycle!Release(c, void)
<1> USE DEF IInv, TypeOK
<1>1. owner[t] # None /\ owner' = [owner EXCEPT ![t] = None] /\ row' = row
  BY DEF Unlock, ClusterExclusion, OwnerIffHolding, Holding
<1>2. mayOpen' = mayOpen \ {}
  BY MayOpen DEF Unlock
<1>3. Lifecycle!Release(owner[t], {})
  BY <1>1, <1>2, Released DEF Lifecycle!Release
<1> QED BY <1>1, <1>3, Released

LEMMA UpdateSimulates ==
  ASSUME IInv, NEW t \in Tasks, NEW s \in Outcomes, row' = Updated(t, s),
         row[t] \in Outcomes => row[t] = s,
         holders' = holders, mayOpen' = mayOpen
  PROVE  Simulates
<1> USE DEF IInv, TypeOK
<1>1. CASE row[t] = "running"
  <2>1. Lifecycle!Settle(t, s)
    BY <1>1 DEF Updated, Lifecycle!Settle
  <2> QED BY <2>1 DEF Simulates, Lifecycle!Next
<1>2. CASE row[t] # "running"
  <2>1. row' = row
    BY <1>2 DEF Updated
  <2> QED BY <2>1 DEF Simulates
<1> QED BY <1>1, <1>2

LEMMA ForgetSimulates ==
  ASSUME NEW S \in SUBSET Tasks, row' = Without(S),
         holders' = holders, mayOpen' = mayOpen
  PROVE  Simulates
<1>1. Lifecycle!Forget(S)
  BY DEF Without, Lifecycle!Forget
<1> QED BY <1>1 DEF Simulates, Lifecycle!Next

LEMMA RecordImmediateSimulates ==
  ASSUME IInv, NEW t \in Tasks, NEW s \in {"succeeded", "failed"}, RecordImmediate(t, s)
  PROVE  Simulates
<1> USE DEF IInv, TypeOK
<1>1. /\ pc[t] = "new" /\ row[t] = "absent" /\ pc' = [pc EXCEPT ![t] = "audited"]
      /\ holders' = holders
  BY SameHolders DEF RecordImmediate, IsNextId, OneVerdict
<1>2. t \in mayOpen /\ ~ \E w \in late : w.op = "insert" /\ w.task = t
  BY <1>1, MayOpen DEF LateWrites
<1>3. (\A w \in late' : w \in late \/ w.task = t) /\ late \subseteq late'
  BY DEF RecordImmediate, Insertion
<1>4. \A u \in Tasks : u # t => (u \in mayOpen' <=> u \in mayOpen)
  BY <1>1, <1>3, MayOpen
<1>5. CASE row' = Inserted(t, s) /\ late' = late
  <2>1. mayOpen' = mayOpen \ {t}
    BY <1>1, <1>2, <1>4, <1>5, MayOpen
  <2>2. Lifecycle!Open(t, s)
    BY <1>1, <1>2, <1>5, <2>1 DEF Inserted, Lifecycle!Open
  <2> QED BY <2>2 DEF Simulates, Lifecycle!Next, Outcomes
<1>6. CASE row' = row
  <2>1. CASE t \in mayOpen'
    <3>1. mayOpen' = mayOpen
      BY <1>2, <1>4, <2>1, MayOpen, ZenonT(30)
    <3> QED BY <1>1, <1>6, <3>1 DEF Simulates
  <2>2. CASE t \notin mayOpen'
    <3>1. mayOpen' = mayOpen \ {t}
      BY <1>4, <2>2, MayOpen
    <3>2. Lifecycle!GiveUp(t)
      BY <1>1, <1>6, <3>1 DEF Lifecycle!GiveUp
    <3> QED BY <3>2 DEF Simulates, Lifecycle!Next
  <2> QED BY <2>1, <2>2
<1> QED BY <1>5, <1>6 DEF RecordImmediate

LEMMA CommitLateSimulates ==
  ASSUME IInv, NEW w \in late, CommitLate(w)
  PROVE  Simulates
<1> USE DEF IInv, TypeOK
<1>1. /\ w.task \in Tasks /\ w.op \in {"insert", "record", "sweep"}
      /\ late' = late \ {w} /\ pc' = pc /\ holders' = holders
  BY SameHolders DEF CommitLate, Writes
<1>2. CASE w.op = "insert"
  <2>1. pc[w.task] \in {"refused", "audited"} /\ row[w.task] = "absent"
        /\ w.status \in Outcomes \cup {"running"}
    BY <1>2 DEF LateWrites
  <2>2. \A v \in late' : v.op = "insert" => v.task # w.task
    BY <1>1, <1>2 DEF LateWrites
  <2>3. mayOpen' = mayOpen \ {w.task} /\ w.task \in mayOpen
    BY <1>1, <1>2, <2>1, <2>2, MayOpen
  <2>4. row' = [row EXCEPT ![w.task] = w.status]
    BY <1>2 DEF CommitLate, Inserted
  <2>5. Lifecycle!Open(w.task, w.status)
    BY <1>1, <2>1, <2>3, <2>4 DEF Lifecycle!Open
  <2> QED BY <1>1, <2>1, <2>5 DEF Simulates, Lifecycle!Next
<1>3. CASE w.op # "insert"
  <2>1. mayOpen' = mayOpen
    <3>1. \A u \in Tasks : u \in mayOpen' <=> u \in mayOpen
      BY <1>1, <1>3, MayOpen
    <3> QED BY <3>1, MayOpen, ZenonT(30)
  <2>2. CASE w.op = "record"
    <3>1. w.status \in Outcomes /\ (row[w.task] \in Outcomes => row[w.task] = w.status)
      BY <2>2 DEF OneVerdict
    <3>2. row' = Updated(w.task, w.status)
      BY <2>2 DEF CommitLate
    <3> QED BY <1>1, <2>1, <3>1, <3>2, UpdateSimulates
  <2>3. CASE w.op = "sweep"
    <3>1. row' = Without(Excess) /\ Excess \in SUBSET Tasks
      BY <2>3 DEF CommitLate, Excess, Rows
    <3> QED BY <1>1, <2>1, <3>1, ForgetSimulates
  <2> QED BY <1>1, <1>3, <2>2, <2>3
<1> QED BY <1>2, <1>3

LEMMA StopSimulates ==
  ASSUME IInv, Stop
  PROVE  Lifecycle!Halt({t \in Tasks : pc[t] # "new"})
<1> USE DEF IInv, TypeOK
<1>1. holders' = [c \in Clusters |-> None]
  <2>1. \A c \in Clusters : OneOf({t \in Tasks : owner'[t] = c}) = None
    <3>1. \A c \in Clusters : {t \in Tasks : owner'[t] = c} = {}
      BY ConstantsAssumption DEF Stop
    <3> QED BY <3>1 DEF OneOf
  <2> QED BY <2>1, HoldersByOwner DEF HolderIn
<1>2. mayOpen' = mayOpen \ {t \in Tasks : pc[t] # "new"}
  BY MayOpen DEF Stop
<1> QED BY <1>1, <1>2 DEF Stop, Lifecycle!Halt

\* Steps that the lifecycle does not see.
LEMMA QuietStep ==
  ASSUME IInv, owner' = owner, row' = row, late' = late,
         \A u \in Tasks : pc'[u] \in {"new", "inserting"} <=> pc[u] \in {"new", "inserting"}
  PROVE  Simulates
<1>1. \A u \in Tasks : u \in mayOpen' <=> u \in mayOpen
  BY MayOpen
<1>2. mayOpen' = mayOpen
  BY <1>1, MayOpen
<1> QED BY <1>2, SameHolders DEF Simulates

\* Steps that only change rows, or add a late write that is no insertion.
LEMMA SameMayOpen ==
  ASSUME \A u \in Tasks : pc'[u] \in {"new", "inserting"} <=> pc[u] \in {"new", "inserting"},
         late \subseteq late', \A w \in late' : w \in late \/ w.op # "insert"
  PROVE  mayOpen' = mayOpen
<1>1. \A u \in Tasks : u \in mayOpen' <=> u \in mayOpen
  BY MayOpen
<1> QED BY <1>1, MayOpen

LEMMA StepSimulates == IInv /\ IInv' /\ [Next]_vars => Simulates
<1> SUFFICES ASSUME IInv, IInv', [Next]_vars PROVE Simulates
  OBVIOUS
<1> USE DEF IInv, TypeOK
<1>1. ASSUME NEW t \in Tasks, NEW c \in Clusters, Dispatch(t, c) PROVE Simulates
  BY <1>1, DispatchSimulates DEF Simulates, Lifecycle!Next
<1>2. ASSUME NEW t \in Tasks, InsertCommit(t) PROVE Simulates
  BY <1>2, InsertCommitSimulates DEF Simulates, Lifecycle!Next
<1>3. ASSUME NEW t \in Tasks, InsertError(t) PROVE Simulates
  BY <1>3, InsertErrorSimulates DEF Simulates, Lifecycle!Next
<1>4. ASSUME NEW t \in Tasks, Register(t) PROVE Simulates
  BY <1>4, QuietStep DEF Register
<1>5. ASSUME NEW t \in Tasks, Decide(t) PROVE Simulates
  BY <1>5, QuietStep DEF Decide
<1>6. ASSUME NEW t \in Tasks, RecordCommit(t) PROVE Simulates
  <2>1. verdict[t] \in Outcomes /\ row[t] \notin Outcomes
    BY <1>6 DEF RecordCommit, OneVerdict
  <2>2. mayOpen' = mayOpen
    BY <1>6, SameMayOpen DEF RecordCommit
  <2>3. holders' = holders /\ row' = Updated(t, verdict[t])
    BY <1>6, SameHolders DEF RecordCommit
  <2> QED BY <2>1, <2>2, <2>3, UpdateSimulates
<1>7. ASSUME NEW t \in Tasks, RecordError(t) PROVE Simulates
  <2>1. mayOpen' = mayOpen
    BY <1>7, SameMayOpen DEF RecordError, Recording
  <2> QED BY <1>7, <2>1, SameHolders DEF RecordError, Simulates
<1>8. ASSUME NEW t \in Tasks, Publish(t) PROVE Simulates
  BY <1>8, QuietStep DEF Publish
<1>9. ASSUME NEW t \in Tasks, RemoveRun(t) PROVE Simulates
  BY <1>9, QuietStep DEF RemoveRun
<1>10. ASSUME NEW t \in Tasks, SweepCommit(t) PROVE Simulates
  <2>1. mayOpen' = mayOpen
    BY <1>10, SameMayOpen DEF SweepCommit
  <2>2. holders' = holders /\ row' = Without(Excess) /\ Excess \in SUBSET Tasks
    BY <1>10, SameHolders DEF SweepCommit, Excess, Rows
  <2> QED BY <2>1, <2>2, ForgetSimulates
<1>11. ASSUME NEW t \in Tasks, SweepError(t) PROVE Simulates
  <2>1. mayOpen' = mayOpen
    BY <1>11, SameMayOpen DEF SweepError, Sweeping
  <2> QED BY <1>11, <2>1, SameHolders DEF SweepError, Simulates
<1>12. ASSUME NEW t \in Tasks, Unlock(t) PROVE Simulates
  BY <1>12, UnlockSimulates DEF Simulates, Lifecycle!Next
<1>13. ASSUME NEW t \in Tasks, Cancel(t) PROVE Simulates
  BY <1>13, QuietStep DEF Cancel
<1>14. ASSUME ClearHistory PROVE Simulates
  <2>1. mayOpen' = mayOpen /\ holders' = holders
    BY <1>14, SameMayOpen, SameHolders DEF ClearHistory
  <2>2. \E S \in SUBSET Tasks : row' = Without(S)
    <3>1. CASE row' = Without(Tasks)
      BY <3>1
    <3>2. ASSUME NEW t \in Tasks, row' = Without({u \in Tasks : u < t})
          PROVE  \E S \in SUBSET Tasks : row' = Without(S)
      BY <3>2
    <3> QED BY <1>14, <3>1, <3>2 DEF ClearHistory
  <2> QED BY <2>1, <2>2, ForgetSimulates
<1>15. ASSUME NEW t \in Tasks, NEW s \in {"succeeded", "failed"}, RecordImmediate(t, s)
       PROVE Simulates
  BY <1>15, RecordImmediateSimulates
<1>16. ASSUME NEW w \in late, CommitLate(w) PROVE Simulates
  BY <1>16, CommitLateSimulates
<1>17. ASSUME Shutdown PROVE Simulates
  BY <1>17, QuietStep DEF Shutdown
<1>18. ASSUME Stop PROVE Simulates
  BY <1>18, StopSimulates DEF Simulates, Lifecycle!Next
<1>19. ASSUME Restart PROVE Simulates
  BY <1>19, QuietStep DEF Restart
<1>20. ASSUME NEW t \in Tasks, RecoverRow(t) PROVE Simulates
  <2>1. mayOpen' = mayOpen /\ holders' = holders
    BY <1>20, SameMayOpen, SameHolders DEF RecoverRow
  <2>2. row' = Updated(t, "failed") /\ row[t] \notin Outcomes /\ "failed" \in Outcomes
    BY <1>20 DEF RecoverRow, Outcomes
  <2> QED BY <2>1, <2>2, UpdateSimulates
<1>21. ASSUME Serve PROVE Simulates
  BY <1>21, QuietStep DEF Serve
<1>22. ASSUME UNCHANGED vars PROVE Simulates
  BY <1>22, QuietStep DEF vars
<1> QED
  BY <1>1, <1>2, <1>3, <1>4, <1>5, <1>6, <1>7, <1>8, <1>9, <1>10, <1>11, <1>12,
     <1>13, <1>14, <1>15, <1>16, <1>17, <1>18, <1>19, <1>20, <1>21, <1>22
  DEF Next, TaskStep, Process

\* The task manager implements the operation lifecycle: whatever the
\* interleaving of handlers, goroutines, late transactions and restarts, a
\* cluster has one operation, an id one row, and a finished row one outcome.
THEOREM Implements == Spec => LifecycleSpec
<1>1. Init => Lifecycle!Init
  BY InitSimulates
<1>2. IInv /\ IInv' /\ [Next]_vars => [Lifecycle!Next]_(Lifecycle!lifecycleVars)
  BY StepSimulates DEF Simulates, Lifecycle!lifecycleVars
<1> QED
  BY <1>1, <1>2, Invariance, PTL DEF Spec, LifecycleSpec, Lifecycle!Spec

=============================================================================
