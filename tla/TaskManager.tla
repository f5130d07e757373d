---------------------------- MODULE TaskManager ----------------------------
(***************************************************************************)
(* The task orchestrator of bm web (internal/tasks: orchestrator.go,       *)
(* history.go, recovery.go) on the bbolt store (internal/store).           *)
(*                                                                         *)
(* One task is the whole life of one id made by newTaskID: the HTTP        *)
(* handler that runs Dispatch, then the goroutine that runs executeRun.    *)
(* pc[t] is where that code is.  Other handlers (Cancel, ClearHistory,     *)
(* RecordImmediate) interleave with it.  `row` is the history bucket, the  *)
(* only part that outlives the process; the rest is memory.                *)
(*                                                                         *)
(* A store transaction runs in a goroutine of its own: when its 5 s        *)
(* deadline or the request context ends first, Update returns an error     *)
(* and the transaction is left to commit later (set `late`).               *)
(*                                                                         *)
(* Executors are a choice of outcome here; operations that work on hosts   *)
(* have modules of their own.  The hub is reduced to the state a snapshot  *)
(* shows; TaskHub.tla models its subscribers.                              *)
(***************************************************************************)
EXTENDS Integers, FiniteSets

CONSTANTS
  Clusters,     \* ids of managed clusters
  MaxTask,      \* bound: ids made by newTaskID in a behaviour
  HistoryCap,   \* historyRowCap
  MaxStops,     \* bound: how many times the process ends
  None

Tasks == 1 .. MaxTask   \* ULIDs sort by time: id order is order of creation
Outcomes == {"succeeded", "failed", "canceled"}

ASSUME ConstantsAssumption ==
  /\ MaxTask \in Nat /\ HistoryCap \in Nat /\ MaxStops \in Nat
  /\ None \notin Tasks /\ None \notin Clusters

VARIABLES
  lock,      \* lock[c]: the mutex clusterLock(c) is held
  pc,        \* pc[t]: where task t's code is
  owner,     \* owner[t]: the cluster t's code has locked, or None
  runs,      \* the keys of Manager.runs
  hub,       \* hub[t]: state in the hub's snapshot, "none" before NewHub
  sealed,    \* hubs closed by Manager.Shutdown
  canceled,  \* executing tasks whose run context is canceled
  verdict,   \* verdict[t]: finalState.State while executeRun needs it
  late,      \* transactions given up by their caller, not yet committed
  row,       \* row[t]: status of t's history row, or "absent"
  phase,     \* of the process: "up", "stopping", "down" or "recovering"
  stops      \* how often the process has ended

runVars == <<hub, sealed, verdict, runs>>
procVars == <<phase, stops>>
vars == <<lock, pc, owner, canceled, late, row, runVars, procVars>>

\* Between TryLock and the deferred Unlock.
Holding == {"inserting", "registering", "executing", "recording",
            "publishing", "sweeping", "unlocking"}
PCs == Holding \cup {"new", "refused", "done", "audited", "lost"}

Writes == [op : {"insert", "record", "sweep"}, task : Tasks,
           status : Outcomes \cup {"running", "none"}]

Alive == phase \in {"up", "stopping"}

Insertion(t, s) == [op |-> "insert", task |-> t, status |-> s]
Recording(t) == [op |-> "record", task |-> t, status |-> verdict[t]]
Sweeping(t) == [op |-> "sweep", task |-> t, status |-> "none"]

-----------------------------------------------------------------------------
(* The bodies of the history transactions: the new value of row.           *)

Inserted(t, s) == [row EXCEPT ![t] = s]

\* Mutant: the update inserts a missing row.
M_Updated(t, s) == [row EXCEPT ![t] = s]

\* Update applies to an existing row only (ErrHistoryNotFound otherwise).
Updated(t, s) == IF row[t] = "absent" THEN row ELSE [row EXCEPT ![t] = s]

Rows == {t \in Tasks : row[t] # "absent"}

Without(S) == [t \in Tasks |-> IF t \in S THEN "absent" ELSE row[t]]

\* The rows with at least HistoryCap newer ones: deleting them leaves the
\* HistoryCap newest.
Excess == {t \in Rows : Cardinality({u \in Rows : u > t}) >= HistoryCap}

-----------------------------------------------------------------------------
Init ==
  /\ lock = [c \in Clusters |-> FALSE]
  /\ pc = [t \in Tasks |-> "new"]
  /\ owner = [t \in Tasks |-> None]
  /\ runs = {}
  /\ hub = [t \in Tasks |-> "none"]
  /\ sealed = {}
  /\ canceled = {}
  /\ verdict = [t \in Tasks |-> "none"]
  /\ late = {}
  /\ row = [t \in Tasks |-> "absent"]
  /\ phase = "up"
  /\ stops = 0

IsNextId(t) == pc[t] = "new" /\ \A u \in Tasks : u < t => pc[u] # "new"

\* Mutant: Dispatch does not look at the lock.
M_Dispatch(t, c) ==
  /\ Alive
  /\ IsNextId(t)
  /\ lock' = [lock EXCEPT ![c] = TRUE]
  /\ pc' = [pc EXCEPT ![t] = "inserting"]
  /\ owner' = [owner EXCEPT ![t] = c]
  /\ UNCHANGED <<canceled, late, row, runVars, procVars>>

(* Dispatch.  A request for a cluster whose lock is taken returns           *)
(* ErrClusterBusy and changes nothing.                                      *)
Dispatch(t, c) ==
  /\ Alive
  /\ IsNextId(t)
  /\ ~lock[c]
  /\ lock' = [lock EXCEPT ![c] = TRUE]
  /\ pc' = [pc EXCEPT ![t] = "inserting"]
  /\ owner' = [owner EXCEPT ![t] = c]
  /\ UNCHANGED <<canceled, late, row, runVars, procVars>>

InsertCommit(t) ==
  /\ Alive
  /\ pc[t] = "inserting"
  /\ row' = Inserted(t, "running")
  /\ pc' = [pc EXCEPT ![t] = "registering"]
  /\ UNCHANGED <<lock, owner, canceled, late, runVars, procVars>>

\* Mutant: the error path returns without unlocking.
M_InsertError(t) ==
  /\ Alive
  /\ pc[t] = "inserting"
  /\ late' \in {late, late \cup {Insertion(t, "running")}}
  /\ owner' = [owner EXCEPT ![t] = None]
  /\ pc' = [pc EXCEPT ![t] = "refused"]
  /\ UNCHANGED <<lock, canceled, row, runVars, procVars>>

(* The insert returns an error: Dispatch unlocks and gives up.  Either the  *)
(* transaction failed, or its caller stopped waiting for it.                *)
InsertError(t) ==
  /\ Alive
  /\ pc[t] = "inserting"
  /\ late' \in {late, late \cup {Insertion(t, "running")}}
  /\ lock' = [lock EXCEPT ![owner[t]] = FALSE]
  /\ owner' = [owner EXCEPT ![t] = None]
  /\ pc' = [pc EXCEPT ![t] = "refused"]
  /\ UNCHANGED <<canceled, row, runVars, procVars>>

\* Mutant: a stopping manager does not start the run, and does not say so.
M_Register(t) ==
  /\ phase = "up"
  /\ pc[t] = "registering"
  /\ hub' = [hub EXCEPT ![t] = "running"]
  /\ runs' = runs \cup {t}
  /\ pc' = [pc EXCEPT ![t] = "executing"]
  /\ UNCHANGED <<lock, owner, canceled, late, row, sealed, verdict, procVars>>

\* NewHub, putRun and the start of the goroutine that runs executeRun.
Register(t) ==
  /\ Alive
  /\ pc[t] = "registering"
  /\ hub' = [hub EXCEPT ![t] = "running"]
  /\ runs' = runs \cup {t}
  /\ pc' = [pc EXCEPT ![t] = "executing"]
  /\ UNCHANGED <<lock, owner, canceled, late, row, sealed, verdict, procVars>>

-----------------------------------------------------------------------------
\* Mutant: no branch for an executor that returned nil.
M_Decide(t) ==
  /\ Alive
  /\ pc[t] = "executing"
  /\ \E s \in IF t \in canceled THEN {"canceled"} ELSE {"failed", "none"} :
       verdict' = [verdict EXCEPT ![t] = s]
  /\ canceled' = canceled \ {t}
  /\ pc' = [pc EXCEPT ![t] = "recording"]
  /\ UNCHANGED <<lock, owner, late, row, hub, sealed, runs, procVars>>

(* executeRun.  The executor returned: the final state is computed.  A      *)
(* canceled context outweighs what the executor returned.                   *)
Decide(t) ==
  /\ Alive
  /\ pc[t] = "executing"
  /\ \E s \in IF t \in canceled THEN {"canceled"} ELSE {"failed", "succeeded"} :
       verdict' = [verdict EXCEPT ![t] = s]
  /\ canceled' = canceled \ {t}
  /\ pc' = [pc EXCEPT ![t] = "recording"]
  /\ UNCHANGED <<lock, owner, late, row, hub, sealed, runs, procVars>>

RecordCommit(t) ==
  /\ Alive
  /\ pc[t] = "recording"
  /\ row' = Updated(t, verdict[t])
  /\ pc' = [pc EXCEPT ![t] = "publishing"]
  /\ UNCHANGED <<lock, owner, canceled, late, runVars, procVars>>

\* A failed update is logged and executeRun goes on.
RecordError(t) ==
  /\ Alive
  /\ pc[t] = "recording"
  /\ late' \in {late, late \cup {Recording(t)}}
  /\ pc' = [pc EXCEPT ![t] = "publishing"]
  /\ UNCHANGED <<lock, owner, canceled, row, runVars, procVars>>

\* Mutant: the terminal frame does not use the state that was recorded.
M_Publish(t) ==
  /\ Alive
  /\ pc[t] = "publishing"
  /\ hub' = IF t \in sealed THEN hub ELSE [hub EXCEPT ![t] = "succeeded"]
  /\ verdict' = [verdict EXCEPT ![t] = "none"]
  /\ pc' = [pc EXCEPT ![t] = "sweeping"]
  /\ UNCHANGED <<lock, owner, canceled, late, row, runs, sealed, procVars>>

\* Mutant: publishing waits on a hub that Shutdown has closed.
M_PublishBlocks(t) ==
  /\ Alive
  /\ pc[t] = "publishing"
  /\ t \notin sealed
  /\ hub' = [hub EXCEPT ![t] = verdict[t]]
  /\ verdict' = [verdict EXCEPT ![t] = "none"]
  /\ pc' = [pc EXCEPT ![t] = "sweeping"]
  /\ UNCHANGED <<lock, owner, canceled, late, row, runs, sealed, procVars>>

\* CloseAfterTerminal: nothing happens on a hub that Shutdown has closed.
Publish(t) ==
  /\ Alive
  /\ pc[t] = "publishing"
  /\ hub' = IF t \in sealed THEN hub ELSE [hub EXCEPT ![t] = verdict[t]]
  /\ verdict' = [verdict EXCEPT ![t] = "none"]
  /\ pc' = [pc EXCEPT ![t] = "sweeping"]
  /\ UNCHANGED <<lock, owner, canceled, late, row, runs, sealed, procVars>>

\* The goroutine that forgets the run and with it the hub, postTerminalGrace
\* + 1 s later.
RemoveRun(t) ==
  /\ Alive
  /\ pc[t] \in {"sweeping", "unlocking", "done"}
  /\ t \in runs
  /\ runs' = runs \ {t}
  /\ sealed' = sealed \ {t}
  /\ hub' = [hub EXCEPT ![t] = "none"]
  /\ UNCHANGED <<lock, pc, owner, canceled, late, row, verdict, procVars>>

SweepCommit(t) ==
  /\ Alive
  /\ pc[t] = "sweeping"
  /\ row' = Without(Excess)
  /\ pc' = [pc EXCEPT ![t] = "unlocking"]
  /\ UNCHANGED <<lock, owner, canceled, late, runVars, procVars>>

SweepError(t) ==
  /\ Alive
  /\ pc[t] = "sweeping"
  /\ late' \in {late, late \cup {Sweeping(t)}}
  /\ pc' = [pc EXCEPT ![t] = "unlocking"]
  /\ UNCHANGED <<lock, owner, canceled, row, runVars, procVars>>

\* The deferred Unlock, after an rs.cancel that nobody sees any more.
Unlock(t) ==
  /\ Alive
  /\ pc[t] = "unlocking"
  /\ lock' = [lock EXCEPT ![owner[t]] = FALSE]
  /\ owner' = [owner EXCEPT ![t] = None]
  /\ pc' = [pc EXCEPT ![t] = "done"]
  /\ UNCHANGED <<canceled, late, row, runVars, procVars>>

-----------------------------------------------------------------------------
(* Other callers.                                                           *)

\* ErrTaskNotFound without a run, ErrNotRunning after the terminal frame.
\* Between the executor's return and that frame Cancel still answers nil, but
\* the final state is decided and nothing changes.
Cancel(t) ==
  /\ Alive
  /\ t \in runs
  /\ hub[t] = "running"
  /\ pc[t] = "executing"
  /\ canceled' = canceled \cup {t}
  /\ UNCHANGED <<lock, pc, owner, late, row, runVars, procVars>>

\* Removes the rows made before an instant (that of id t), or all of them.
\* A Clear whose caller stopped waiting is a Clear at a later time.
ClearHistory ==
  /\ Alive
  /\ Rows # {}
  /\ \/ row' = Without(Tasks)
     \/ \E t \in Tasks : row' = Without({u \in Tasks : u < t})
  /\ UNCHANGED <<lock, pc, owner, canceled, late, runVars, procVars>>

\* An audit row for work the HTTP handler did itself: it takes an id, has no
\* run and no lock.
RecordImmediate(t, s) ==
  /\ Alive
  /\ IsNextId(t)
  /\ pc' = [pc EXCEPT ![t] = "audited"]
  /\ \/ row' = Inserted(t, s) /\ UNCHANGED late
     \/ late' \in {late, late \cup {Insertion(t, s)}} /\ UNCHANGED row
  /\ UNCHANGED <<lock, owner, canceled, runVars, procVars>>

\* A transaction its caller no longer waits for commits.
CommitLate(w) ==
  /\ Alive
  /\ w \in late
  /\ late' = late \ {w}
  /\ row' = CASE w.op = "insert" -> Inserted(w.task, w.status)
              [] w.op = "record" -> Updated(w.task, w.status)
              [] w.op = "sweep"  -> Without(Excess)
  /\ UNCHANGED <<lock, pc, owner, canceled, runVars, procVars>>

-----------------------------------------------------------------------------
(* The process.                                                             *)

\* Manager.Shutdown: cancels the registered runs and closes their hubs.  A
\* Dispatch under way may still register a run after it.
Shutdown ==
  /\ phase = "up"
  /\ phase' = "stopping"
  /\ canceled' = canceled \cup {t \in runs : pc[t] = "executing"}
  /\ sealed' = sealed \cup runs
  /\ UNCHANGED <<lock, pc, owner, late, row, hub, verdict, runs, stops>>

\* The process ends, by a crash or after Shutdown: memory is gone.
Stop ==
  /\ phase # "down"
  /\ stops < MaxStops
  /\ stops' = stops + 1
  /\ phase' = "down"
  /\ lock' = [c \in Clusters |-> FALSE]
  /\ pc' = [t \in Tasks |-> IF pc[t] = "new" THEN "new" ELSE "lost"]
  /\ runs' = {}
  /\ hub' = [t \in Tasks |-> "none"]
  /\ sealed' = {}
  /\ canceled' = {}
  /\ verdict' = [t \in Tasks |-> "none"]
  /\ late' = {}
  /\ owner' = [t \in Tasks |-> None]
  /\ UNCHANGED row

\* Mutant: bm web serves without calling RecoverInFlight.
M_Restart ==
  /\ phase = "down"
  /\ phase' = "up"
  /\ UNCHANGED <<lock, pc, owner, canceled, late, row, runVars, stops>>

\* `bm web` is started; the store's file lock admits one process.
Restart ==
  /\ phase = "down"
  /\ phase' = "recovering"
  /\ UNCHANGED <<lock, pc, owner, canceled, late, row, runVars, stops>>

\* Mutant: the list is not filtered by status.
M_RecoverRow(t) ==
  /\ phase = "recovering"
  /\ row[t] # "absent"
  /\ row' = Updated(t, "failed")
  /\ UNCHANGED <<lock, pc, owner, canceled, late, runVars, procVars>>

\* RecoverInFlight, one row of its list.  Nobody else writes the bucket yet,
\* so the list made at the start is the rows still running.  A row whose
\* update fails makes the start fail: that is Stop.
RecoverRow(t) ==
  /\ phase = "recovering"
  /\ row[t] = "running"
  /\ row' = Updated(t, "failed")
  /\ UNCHANGED <<lock, pc, owner, canceled, late, runVars, procVars>>

StaleRows == {t \in Tasks : row[t] = "running"}

\* RecoverInFlight returns and the API begins to serve.
Serve ==
  /\ phase = "recovering"
  /\ StaleRows = {}
  /\ phase' = "up"
  /\ UNCHANGED <<lock, pc, owner, canceled, late, row, runVars, stops>>

-----------------------------------------------------------------------------
TaskStep(t) ==
  \/ InsertCommit(t) \/ InsertError(t) \/ Register(t)
  \/ Decide(t)
  \/ RecordCommit(t) \/ RecordError(t)
  \/ Publish(t)
  \/ SweepCommit(t) \/ SweepError(t)
  \/ Unlock(t)

Process == Shutdown \/ Stop \/ Restart \/ Serve

Next ==
  \/ \E t \in Tasks, c \in Clusters : Dispatch(t, c)
  \/ \E t \in Tasks : TaskStep(t) \/ RemoveRun(t) \/ Cancel(t) \/ RecoverRow(t)
  \/ \E t \in Tasks, s \in {"succeeded", "failed"} : RecordImmediate(t, s)
  \/ \E w \in late : CommitLate(w)
  \/ ClearHistory
  \/ Process

Spec == Init /\ [][Next]_vars

(* Fairness.  Between two blocking points a goroutine is scheduled by Go's  *)
(* runtime, and a store call returns within its deadline, so every step of  *)
(* a task happens eventually, except Decide: an executor is only expected   *)
(* to return when its context is canceled (types.go, Executor).  Somebody   *)
(* restarts bm, and its start-up code runs on.                              *)
RunsOn(t) ==
  \/ InsertCommit(t) \/ InsertError(t) \/ Register(t)
  \/ Decide(t) /\ t \in canceled
  \/ RecordCommit(t) \/ RecordError(t) \/ Publish(t)
  \/ SweepCommit(t) \/ SweepError(t) \/ Unlock(t)

Fairness ==
  /\ \A t \in Tasks : WF_vars(RunsOn(t)) /\ WF_vars(RecoverRow(t))
  /\ WF_vars(Restart) /\ WF_vars(Serve)

FairSpec == Spec /\ Fairness

-----------------------------------------------------------------------------
(* Properties.                                                              *)

TypeOK ==
  /\ lock \in [Clusters -> BOOLEAN]
  /\ pc \in [Tasks -> PCs]
  /\ owner \in [Tasks -> Clusters \cup {None}]
  /\ runs \subseteq Tasks
  /\ hub \in [Tasks -> Outcomes \cup {"none", "running"}]
  /\ sealed \subseteq Tasks
  /\ canceled \subseteq Tasks
  /\ verdict \in [Tasks -> Outcomes \cup {"none"}]
  /\ late \subseteq Writes
  /\ row \in [Tasks -> Outcomes \cup {"absent", "running"}]
  /\ phase \in {"up", "stopping", "down", "recovering"}
  /\ stops \in Nat

Holders(c) == {t \in Tasks : owner[t] = c}

\* owner[t] is set exactly between TryLock and Unlock; one task per cluster;
\* the mutex is locked exactly while such a task exists.
OwnerIffHolding == \A t \in Tasks : pc[t] \in Holding <=> owner[t] # None
OneHolder == \A t, u \in Tasks : owner[t] # None /\ owner[t] = owner[u] => t = u
LockIffHeld == \A c \in Clusters : lock[c] <=> Holders(c) # {}

\* Two operations never work on one cluster at once, and the lock is exactly
\* as long taken as somebody is between TryLock and Unlock: no error path
\* leaks it or gives it up for another (orchestrator.go, Dispatch/executeRun).
ClusterExclusion == OwnerIffHolding /\ OneHolder /\ LockIffHeld

\* Once a process serves requests, no row left by an earlier process still
\* says "running" (recovery.go, RecoverInFlight; web.go calls it before it
\* serves), whatever was in flight when that process ended.
NoStaleRunningRow ==
  Alive => \A t \in Tasks : pc[t] = "lost" => row[t] # "running"

\* What a stream shows as the outcome and what the history says agree, also
\* when the update of the row was slow and committed after the terminal frame
\* (executeRun computes finalState once for both).
StreamAgreesWithHistory ==
  \A t \in Tasks : hub[t] \in Outcomes /\ row[t] \in Outcomes => hub[t] = row[t]

\* A row that reports an outcome keeps it until it is deleted: no late
\* transaction, retry or recovery rewrites a finished operation.
OutcomeIsFinal ==
  [][\A t \in Tasks : row[t] \in Outcomes => row'[t] \in {row[t], "absent"}]_vars

\* A row that was cleared or swept never comes back: rows only enter the
\* history by the insert of their own Dispatch or RecordImmediate, never by
\* the update that ends the operation (history.go, Update).
NoResurrection ==
  [][\A t \in Tasks :
       row[t] = "absent" /\ row'[t] # "absent" =>
         \/ pc[t] = "inserting"
         \/ pc'[t] = "audited" /\ row'[t] \in Outcomes
         \/ pc[t] = "refused" /\ Insertion(t, "running") \in late]_vars

\* A dispatch is answered: it becomes a run or gives its cluster back.
DispatchDecides ==
  \A t \in Tasks : pc[t] = "inserting" ~> pc[t] \in {"executing", "refused", "lost"}

\* A canceled run ends and frees its cluster for the next operation, whatever
\* the store does meanwhile.
CancelFreesCluster ==
  \A t \in Tasks : t \in canceled /\ pc[t] = "executing" ~> pc[t] \in {"done", "lost"}

\* A row that says "running" when the process ends is settled after a restart.
StaleRowsAreSettled ==
  \A t \in Tasks : phase = "down" /\ row[t] = "running" ~> row[t] # "running"

\* What was begun is settled, whatever the store, the executor and the process
\* do meanwhile: dispatches, canceled runs, rows a process left behind
\* (orchestrator.go, recovery.go).
OperationsSettle == DispatchDecides /\ CancelFreesCluster /\ StaleRowsAreSettled

-----------------------------------------------------------------------------
(* The inductive invariant behind the theorems of TaskManagerProofs.       *)

\* A late insert belongs to a task whose caller was told of an error, a late
\* record to a run that has gone on; neither outlives its process, and a task
\* has at most one of each.
LateWrites ==
  /\ \A w \in late :
       /\ w.op = "insert" => /\ pc[w.task] \in {"refused", "audited"}
                             /\ row[w.task] = "absent"
                             /\ pc[w.task] = "audited" => w.status \in Outcomes
                             /\ pc[w.task] = "refused" => w.status = "running"
       /\ w.op = "record" => pc[w.task] \in {"publishing", "sweeping", "unlocking", "done"}
       /\ w.op = "sweep" => pc[w.task] \in {"unlocking", "done"}
  /\ \A v, w \in late : v.op = w.op /\ v.task = w.task => v = w

\* While the process is down or recovering it has no work under way.
IdleMemory ==
  ~Alive => /\ late = {}
            /\ \A t \in Tasks : pc[t] \in {"new", "lost"} /\ owner[t] = None

\* The verdict of a run is what its row, its hub and its late record can say.
OneVerdict ==
  /\ \A t \in Tasks :
       /\ pc[t] \in {"new", "inserting"} => row[t] = "absent"
       /\ pc[t] \in {"recording", "publishing"} => verdict[t] \in Outcomes
       /\ row[t] \in Outcomes =>
            pc[t] \in {"publishing", "sweeping", "unlocking", "done", "audited", "lost"}
       /\ pc[t] = "publishing" /\ row[t] \in Outcomes => row[t] = verdict[t]
       /\ hub[t] \in Outcomes => pc[t] \in {"sweeping", "unlocking", "done"}
  /\ \A w \in late : w.op = "record" =>
       /\ w.status \in Outcomes
       /\ pc[w.task] = "publishing" => w.status = verdict[w.task]
       /\ hub[w.task] \in Outcomes => w.status = hub[w.task]
       /\ row[w.task] \in Outcomes => w.status = row[w.task]

IInv ==
  /\ TypeOK
  /\ ClusterExclusion
  /\ NoStaleRunningRow
  /\ StreamAgreesWithHistory
  /\ LateWrites
  /\ IdleMemory
  /\ OneVerdict

-----------------------------------------------------------------------------
(* The operation lifecycle this implements.                                *)

mayOpen == {t \in Tasks : \/ pc[t] \in {"new", "inserting"}
                          \/ \E w \in late : w.op = "insert" /\ w.task = t}

holders == [c \in Clusters |->
              IF Holders(c) = {} THEN None ELSE CHOOSE t \in Holders(c) : TRUE]

Lifecycle == INSTANCE OperationLifecycle
               WITH Nobody <- None, holder <- holders, journal <- row, fresh <- mayOpen

\* The manager implements the lifecycle: exclusive clusters, one row per id,
\* final outcomes, through every interleaving, late commit and restart.
LifecycleSpec == Lifecycle!Spec

\* store.go says an Update is bounded by its deadline: a Dispatch that was
\* refused because the insert timed out has then left nothing behind.
RefusedLeavesNoRow == \A t \in Tasks : pc[t] = "refused" => row[t] = "absent"
=============================================================================
