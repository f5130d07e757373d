# A TLA+ model of bm

`bm` manages MinIO and Buckit clusters from one process: a web server with a
JSON API, an embedded store, and operations that work on hosts over SSH and on
clusters through their admin API. This directory models its core in TLA+,
model-checks it with TLC and proves its safety properties with TLAPS.
`PROJECT.json` lists the runs, maps every definition to the lines it stands for
and lists the hazards the properties are for. Paths below are under `src/`.

## 1. The system

| Component | Code | State | Operations |
|---|---|---|---|
| Task manager | `internal/tasks` | a mutex per cluster, the registered runs, the history bucket | Dispatch, executeRun, Cancel, RecordImmediate, ClearHistory, Shutdown, RecoverInFlight |
| Operation hub | `internal/tasks/hub.go`, `internal/api/sse.go`, `web/src/api/sse.ts` | snapshot, subscribers with bounded channels | PublishEvent, MutateState, Subscribe, fan-out, CloseAfterTerminal, teardown |
| Migration | `internal/migration` | units and packages on hosts, the engine of the cluster row | cutover with automatic rollback, rollback |
| Password rotation | `internal/operations/rotate_root_creds.go` | two environment files per host, what each server was started with, the stored credentials | normalize, rolling restart, write, restart, persist, and an undo of each |
| Orchestrated operations | `internal/operations` | power, packages, binaries, files and servers on hosts, the version in the cluster row | start, stop, rolling restart, upgrade, redeploy, host-scoped actions |
| Deploy | `internal/deploy/executor.go`, `install.go`, `verify.go`, `finalize.go` | files, packages and services on hosts, then cluster, node and credential rows | validate, install on every host, verify, commit |
| Cluster registry | `internal/clusters`, `nodes`, `sshconfig`, `clusteradmin`, `internal/api/m4_handlers.go` | rows of clusters, nodes, SSH settings, credentials | import, deploy commit, refresh, edit, delete |
| Admin credentials | `internal/admin/pool.go`, `internal/alias`, `internal/api/admin_creds_handlers.go` | credential rows, pooled clients, the alias file | put, get a client, drop it, sync |
| Store | `internal/store/store.go` | one bbolt file, one writer | View and Update with a deadline, encryption, file lock |
| SSH | `internal/ssh` | pooled connections | get, drop, close, run |
| Catalogue | `internal/deploy/versions.go`, `checksum.go`, `params.go`, `volumes.go` | a cached release listing | pick files and checksums, plan drives, erasure sets and parity |
| Local deploy | `internal/localdeploy` | directories, a binary, certificates and a script on this machine | preview, prepare |
| Self-update | `internal/update` | the binary on disk | check, apply |
| Process | `cmd/bm/web.go`, `internal/app` | phase of the process | start, recovery, serve, shutdown |
| Rest | preflight, discovery, admin client, HTTP decoding, web UI, configuration, CLI | none of their own | probes, mapping, rendering |

How they interact. An HTTP handler validates a request and calls Dispatch with
an executor (deploy, migration, rotation, ...). Dispatch takes the cluster's
mutex, inserts a row that says `running`, registers the run with a hub and
starts a goroutine. The goroutine runs the executor, which publishes to the
hub, works on hosts through the SSH pool and the admin pool, and writes rows of
the registry. When the executor returns, the goroutine updates the row, sends
the terminal frame, sweeps the history and gives the mutex back. Pages follow a
hub through the SSE handler. Everything in memory is lost when bm ends; at the
next start RecoverInFlight settles the rows still `running` before the API
serves.

What is hard in it:

* **interleaving** - handlers, the goroutines of runs, their timers and the
  goroutines of store transactions all touch the same locks, rows and hubs;
* **late effects** - a store transaction goes on after its caller timed out; an
  executor's helpers publish after it returned;
* **partial failure** - an operation on several hosts fails on some, at any
  command, with the command done or not;
* **crash and restart** - of bm in the middle of an operation, of a host between
  two commands;
* **bounded buffers** - of subscribers, and of the history.

What makes each component correct: the task manager gives a cluster to one
operation at a time and never to none for ever, and its history tells the truth;
the hub shows every page a prefix of the same story and ends it; a cutover ends
with all hosts on one engine or says that it did not; a rotation never loses
the password; a commit that ends well leaves the rows of a cluster whole, and
edits and deletes stay; whatever is installed matched the checksum fetched for
it, and is what the operator planned.

## 2. Modules

| Module | Models | Extended by |
|---|---|---|
| `OperationLifecycle` | the abstract promise of the task manager: exclusive clusters, one row per id, outcomes that stay | `TaskManagerProofs` (by `INSTANCE`) |
| `TaskManager` | `orchestrator.go`, `history.go`, `recovery.go`, the deadline of `store.go`, start and stop of `web.go` | `MCTaskManager`, `TaskManagerProofs` |
| `TaskHub` | `hub.go`, `sse.go`, `sse.ts` and the operation dialog | `TaskHubProofs` |
| `Migration` | both executors of `internal/migration` and the installer's phases | `MigrationProofs` |
| `RotateRootCreds` | `rotate_root_creds.go` | `RotateProofs` |
| `HostOperations` | `orchestrated.go`, `host_scoped.go`, `restart_cluster.go`, the stop of `signal.go`, the waits of `helpers.go`, the redeploy preflight | `HostOperationsProofs` |
| `ClusterRegistry` | the repositories of clusters, nodes, SSH settings and credentials, the admin pool, the alias file, and the handlers that use them | `MCClusterRegistry`, `ClusterRegistryProofs` |
| `Releases` | `versions.go`, `checksum.go`, and the release site | `DeployPlan` |
| `DeployPlan` | `params.go`, `volumes.go`, `tls.go`, the environment of `install.go`, the arithmetic of `localdeploy.go`: operators only | `Deploy`, `LocalDeploy`, `DeployPlanProofs` |
| `SshPool` | `ssh/pool.go` | `Deploy` |
| `Deploy` | `deploy/executor.go`, `install.go`, `verify.go` | `Installs` |
| `LocalDeploy` | `localdeploy.go` | `Installs` |
| `SelfUpdate` | `update/service.go` | `Installs` |
| `Installs` | the four above, side by side, over one release site and one SSH pool | `MCInstalls`, `InstallsProofs` |

A definition whose name begins with `M_` is a plausible bug, not part of any
specification; `PROJECT.json` pairs it with the property that finds it.

### TaskManager

A *task* is one id of newTaskID and the code that acts for it: Dispatch first,
then executeRun. `pc[t]` is where that code stands, and every step between two
store transactions or lock operations is one action:

| Action | Code |
|---|---|
| Dispatch | TryLock on the cluster's mutex, a new id |
| InsertCommit, InsertError | `history.Insert`; the error path unlocks |
| Register | NewHub, putRun, the goroutine |
| Decide | the executor returned; a canceled context outweighs its answer |
| RecordCommit, RecordError | `history.Update`; an error is logged only |
| Publish | CloseAfterTerminal |
| RemoveRun | the goroutine that forgets the run after the grace period |
| SweepCommit, SweepError | `history.Sweep` |
| Unlock | the deferred unlock |
| Cancel, ClearHistory, RecordImmediate | the handlers |
| CommitLate | a transaction whose caller stopped waiting |
| Shutdown, Stop, Restart, RecoverRow, Serve | the process |

`late` holds the transactions given up by their caller: `Store.runTxn` returns
when its deadline ends and leaves the goroutine behind, so the write can happen
any time later in the same process. `row` is all that outlives Stop.
A Dispatch on a busy cluster returns ErrClusterBusy and changes nothing, which
is the action's guard.

`OperationLifecycle` says the same without mutexes, goroutines and late
transactions. The refinement maps a cluster's holder to the task that is
between TryLock and Unlock, the journal to `row`, and the ids that may still
get a row to those whose insert has not happened and may still happen.

### TaskHub

The hub of one task with several pages. A snapshot is reduced to its event
lines, which are numbered, and to whether its state is terminal. Each method of
the hub holds its mutex and is one action. A channel is a bounded sequence and
a flag; `fanout` closes and removes subscribers whose buffer is full, who can
still read what they had. A page connects, reads, gets to the end, or breaks
off and falls back on one snapshot. `Straggling` lets goroutines publish after
the executor returned, as the drain of deploy's step events does.
`PublishState` has no caller and is left out.

### Migration

One cluster and a sequence of operations on it; the task manager keeps them
apart. A host is its active server, the units systemd starts at boot, and
whether the package is staged. A phase runs on all its targets in parallel; a
host passes through it in the remote commands that change something, and
`HostFails` stops it before, in, or after a command (`Remains`). `Reboot` and
`Crash` are possible at any time. The final verification pass only informs and
is left out.

### RotateRootCreds

A host has the primary file, the second file it may point to, the primary file
its server was started with, and the password the server accepts. systemd reads
the primary file when a unit starts; a re-exec by ServiceRestart keeps that
environment and reads only the second file again. Each stage of Execute is a
value of `stage`, with an undo of its own; a write that fails may leave the
file as it was, written, or empty. Hosts are worked on in any order, which
includes the code's. Cancel, Crash and Reboot are possible at any time.

### HostOperations

The other operations on hosts, one after the other under the cluster's lock;
what one leaves behind is what the next one finds. A host is its power state,
its package (which brings the unit), the binary a start executes (the admin
update replaces it without the package), the files a server needs, the release
that runs, whether the unit was started, and a pending start or re-exec.

| Action | Code |
|---|---|
| Begin | the dispatch and the checks before the first change |
| Command | the next remote command on a host: systemctl, install, one copy of the bootstrap (`Effect`, `After`) |
| SkipHost | a host without the unit |
| SkipExtras | a failed probe of a peer that `remoteFileExists` takes for an absent file |
| OrderPower, SshReturns, HostHealthy | `shutdown`, `waitSSHReturn`, `waitHostHealthy` |
| HostFails, Abandon | a command (done or not) or a wait fails; the context ends between two hosts |
| LoopFails, LoopEnds | what follows the loop over the hosts |
| Restart, StopByAdmin, Update, AdminFails | the calls to the admin API |
| Healthy, Converged, WaitFails | `waitClusterHealthy`, `waitServerVersionsReached` and their budget |
| Crash, Refresh | bm ends; the UI refreshes the row |
| GoDown, Boot, ServerUp, Reexec, ServerFails, Revive | the hosts, systemd and the servers (external) |

One `stage` and one position `at[h]` per host stand for the thirteen loops:
`OneByOne` operations finish a host before the next, `AtOnce` operations work
on all; `GoesOn` operations note a failed host and continue, the others stop.
A canceled context makes the next command fail, as HostFails does. Hosts are
worked on in any order. `base` and `victims` are history variables: they say
what an operation is not to blame for. Left out: freeze, unfreeze and heal, the
row's fields other than the version, and the choice among several peers.

### ClusterRegistry

A request is a slot; no lock covers it, so every transaction, mutex and remote
call is one step, and the slot holds what the request read in between: a row,
the nodes, credentials, an answer. All clusters have names with one slug, so
that an id is its suffix.

| Action | Code |
|---|---|
| BeginImport, BeginDeploy, AllocateID, CommitRow, CommitNode, CommitCreds | `postCommit`, `Executor.commit` of deploy |
| SaveSsh, ForgetSsh, RememberSsh, ReadPort, WritePort | `putSSHConfig` and the settings kept in memory |
| SyncView, SyncEntry, SyncPublish | `alias.Sync` |
| DeleteCascade, DropClient | `deleteCluster`, `Repo.Delete` |
| PutCreds, DropClient | `putAdminCreds` |
| GetRow, LoadCreds, FindClient, InsertClient, CallServer, MarkUnreachable, ListNodes, RefreshNode, RefreshRow, ProbeNode, NoProbes | `refreshOne`, alone or of all clusters |
| OperationPut, OperationList, OperationRefresh | the row writes of a migration and of the other operations |
| GiveUp, Restart | an error or a canceled context; bm ends and syncs the alias file |

`met` is a history variable: which other requests and restarts were under way
with a request, or began after it. The properties use it to say what they do
*not* claim. Races that do happen, and are allowed by the model: a refresh under
way with a delete brings the row back; a refresh under way with an edit of
credentials leaves a pooled client with the old ones; two Syncs may publish in
the other order; an edit of credentials does not sync the alias file; a delete
forgets the settings on disk but not those in memory, which a later cluster of
the same id inherits, as it may a pooled client; the deploy commit keeps the
slug, and writes over that cluster, when all its suffixes are taken.

### Releases, DeployPlan, SshPool

A release is a list of files with kind, system, architecture and whether it has
a digest. The site publishes files and checksum files of a release apart and
may do so again; a *build* is a file and the upload it belongs to, and stands
for its own checksum. `SupportedVersions` is the listing a call may get: the
cached one, a new one, or none.

DeployPlan is the arithmetic of a draft: erasure sets, parity, the patterns of
hosts and drives, certificates that cover the hosts, the environment file.
Names are sequences of characters, since the patterns depend on their digits.
`PlanIsFaithful` is the reference: the patterns stand for exactly the drives of
the draft, and the server's own defaults give the set size and parity shown.

SshPool is one action per lock of `ssh/pool.go`: `Get` under the first,
`Dialled` under the second, with the dial in between.

### Deploy, LocalDeploy, SelfUpdate, Installs

Deploy takes each host of a draft through `Install`, one remote command a step
(`Command`): done and answered, done and not answered, or not done. A host is
the downloaded file, the installed package, its drives, certificates, the two
environment files, and what its service was started with. A second attempt,
with another draft, meets what the first left, running services included:
`enable --now` leaves them alone. `ServiceRestarts` is systemd at any time.
The commit's own writes are in ClusterRegistry.

LocalDeploy is `Prepare`, one file operation a step, each of which may fail or
be the program's last; `RunScript` is the operator, who may run what is there
at any time.

SelfUpdate is `Apply` with its requests to a release server apart: the pointer
twice, the binary, the signature. Requests are not serialised.

Installs runs the four side by side. They share the release site and the pool
only, so that one of them is followed in a behaviour (`installer`, chosen at
the start), with everything that may change under it.

## 3. Runs

| Run | Module, instance | Question |
|---|---|---|
| `task_manager` | `MCTaskManager`: 1 cluster, 2 tasks, a history of 1 row, 2 ends of the process | exclusion, recovery, agreement of stream and history, final outcomes, no resurrection, the inductive invariant, the refinement; a dispatch is answered, a canceled run frees its cluster, stale rows are settled |
| `tm_refused` | `MCTaskManager` | finding 1 |
| `hub_streams` | `TaskHub`: 2 pages, buffers of 2, 3 frames, stragglers | no panic, lossless streams, outcomes that stick, streams that end |
| `hub_evicted` | `TaskHub`: 1 page | finding 2 |
| `migration` | `Migration`: 2 hosts, 3 operations | all or nothing, honest reports, the row follows the hosts, order of stops and starts, the end |
| `migration_retry` | `Migration`: 2 hosts, 2 operations | finding 3 |
| `rotate` | `RotateRootCreds`: 2 hosts in all layouts, 2 passwords, 2 rotations | success is real, the password is kept, an undo is whole, the stored password is never ahead, the end |
| `rotate_retry` | `RotateRootCreds`: 1 host, 2 rotations | finding 4 |
| `host_operations` | `HostOperations`: 2 hosts in all initial kinds, 2 releases, 2 operations of 13 kinds | one host down in a rolling restart, one release after an upgrade, whole provisioned hosts, stops that last, the end |
| `redeploy_retry` | `HostOperations`: 2 hosts, 1 operation | finding 5 |
| `cluster_registry` | `MCClusterRegistry`: 2 ids, 1 node, 2 requests at once, 3 in all | a commit that ends well is a usable cluster; deletes, refreshes and edits that nothing overlapped stay; the alias file follows commits and deletes |
| `installs` | `MCInstalls`: 2 hosts, 2 attempts, 2 uploads of a release, 2 preparations, 2 updates at once, 2 callers of the pool | what is installed was verified; what is committed runs the draft; accepted plans are faithful; what is prepared is whole; the pool is sound |

The passing runs hold. The five others each show one disagreement between the
code and what the repository says of it:

1. **A refused dispatch can leave a row.** `store.go:104` promises a
   transaction "bounded by a 5s deadline". The caller is; the transaction is
   not. When the insert of Dispatch times out, the operation is refused and the
   cluster given back, and the row may still appear as `running`, without a
   run, until the next restart.
2. **An evicted page does not reconnect.** `hub.go:185` says that slow
   consumers "reconnect via Last-Event-ID". The closed channel reaches the page
   as an orderly `end`, and the page stays on a running task.
3. **A rollback can succeed on a host that runs nothing.**
   `rollback.go:100-101` says that a host without Buckit is "already on MinIO".
   A cutover that was lost between the stop of MinIO and the start of Buckit
   leaves a host with neither, which the rollback then skips as a success.
4. **A retried rotation can restart for nothing.** The help text in
   `catalog.tsx:313-319` describes a rolling restart of the nodes that need it.
   A retry after a rotation that was interrupted between its file writes and
   that restart finds the files normalized, leaves the rolling restart out, and
   its restart through the admin API leaves the old password in force. The
   health wait then fails, so the rotation does not report success, but the new
   password is the one stored.

5. **A failed bootstrap does not leave the target untouched.** The comment at
   `orchestrated.go:831-836` says that failing there "leaves the target
   untouched [...] so the operator can fix the situation and retry cleanly".
   The env file is copied first; when a later copy fails it stays, and the
   check for a clean host refuses the retry until somebody removes it. (That
   check is also what keeps `ProvisionedIsWhole`: without it the retry would
   take the env file for a complete configuration.)

### Bounds, and why they are enough

* Two tasks on a cluster give a second dispatch while the first is anywhere in
  executeRun, or a dispatch and an audit row. A history of one row makes every
  sweep with two rows delete one, also that of a running task. Two ends of the
  process give a crash in the recovery from a crash. That locks of several
  clusters do not interfere is in the theorems of section 5, which hold for all
  clusters and tasks.
* Two pages and a buffer of two: the first page can join early and be evicted
  by the third frame, the second late. Three frames and the terminal frame
  overflow the buffer at every point.
* Two hosts: one fails while the other is before, in or after its command.
  Three operations: one that fails or is lost, a retry, and a rollback.
* Two rotations: one interrupted anywhere, and a retry. The initial states have
  every mix of hosts with and without a unit, in the old and in the new layout.
* Two hosts under HostOperations: one in its turn and one that waits, runs or
  fails beside it; every mix of hosts with the package, started otherwise and
  clean. Two operations: an interrupted one and any other on what it left. Two
  releases: an older and a newer one. A third host adds one case: a host left
  half provisioned may be the peer another is redeployed from
  (`pickConfigSourcePeer` looks at the env file only), which then is reported as
  provisioned without the rest. `ProvisionedIsWhole` names this exception; the
  theorem of section 5 says that, for any number of hosts, it is the only one
  beside a failed probe.
* Two requests on two cluster ids at once, of any kinds, and a third request or
  a restart after either: every race of two requests, and what comes later. Two
  credentials and two SSH ports: one old, one new. One node per cluster, since
  the loops over nodes treat each alone.
* Two attempts of a deployment on two hosts: one that fails or loses an answer
  anywhere, with one host ahead of the other, and the retry. Hosts of both
  package formats, one host at a time and both at once. Drafts of three hosts
  and more are planned but not installed: their names and drives have gaps,
  padding, duplicates, blanks, and totals up to 16 drives with every parity to 4. Two
  uploads of a release: a call before and a call after it is published again.
* Two updates at once, three releases at two times, one of them a hotfix, each
  uploaded up to two times; what runs at first is a hotfix or a build from git.
* `MaxTask`, `MaxStops`, `MaxFrames`, `MaxOps`, `MaxEvents`, `MaxAttempts`,
  `MaxPrepares`, `MaxUploads`, `MaxRebuilds` and `MaxDials` only cap how long a
  behaviour is. Deadlock is not checked: at these caps, and when there is nothing to do,
  the system stops.

### Fairness, and why the code justifies it

* *Task manager*: each step of Dispatch and executeRun is scheduled by Go's
  runtime, and a store call returns within its deadline, with or without
  success. The executor is only expected to return once its context is canceled
  (the contract in `types.go`): nothing is assumed of it otherwise. Somebody
  starts bm again, and its start-up code runs on. Late transactions, timers of
  finished runs and operators are under no obligation.
* *Hub*: executeRun publishes the terminal frame once the executor returned,
  and the grace timer fires. A page that has frames is written to, and its
  error handler runs. Executors and connections are under no obligation.
* *Migration, rotation, host operations*: an SSH command and a health wait have deadlines, so a
  host gets on, well or badly, and the executor with it. Hosts and servers of
  HostOperations are under no obligation: a wait may end by its deadline only.
* *Registry and installs*: none. Only invariants are checked of them; a request
  or an installation may stop at any step.

## 4. What the models assume

* `|| true` in a remote command hides only a failure that changes nothing.
* A remote command ends with its SSH session. (`ssh/run.go:66` gives up
  waiting; the host may go on. A hazard without a property.)
* A MinIO server re-executed by ServiceRestart keeps the environment systemd
  gave it.
* The operator stores other credentials only between two rotations.
* ServerInfo lists every server of the cluster; those that are offline have no
  version and no platform. ServerUpdate reports a result for every server that
  answers.
* An install of the package neither starts nor enables the unit, and an install
  on a host whose server was started otherwise does not meet it.
* The store commits or does not: bbolt's atomicity is taken as given.
* A remote command made of several (`install`, then `tee`) is done whole or not.
* Two deployments do not share a host, where they would share the downloaded
  file. Two local preparations do not run at once.
* selfupdate replaces the file only if the checksum and the signature match.
* In ClusterRegistry an error of a write ends its handler as a canceled context
  does, and a transaction given up by its caller does not commit later (it does
  in TaskManager).

## 5. Proofs

Each theorem is about the specification the runs check, for every value of the
constants that its module's assumptions allow; the caps (`MaxOps`, `MaxDials`,
...) are any naturals, so behaviours are as long as one likes. TLC evaluates
the assumptions in the runs. Every proof follows one scheme: an inductive
invariant `IInv`, one lemma per part of it with one step per action, and the
properties read off it. Each `IInv` was model-checked on the instances of the
runs before it was proved.

### Task manager

`TaskManagerProofs` proves, for every number of clusters and tasks, every cap
and every number of restarts, from `ConstantsAssumption` alone (the bounds are
naturals, None is neither a task nor a cluster; TLC evaluates it in the runs of
`MCTaskManager`):

| Theorem | Statement |
|---|---|
| `Invariance` | `Spec => []IInv` |
| `TypeCorrect` | `Spec => []TypeOK` |
| `Exclusion` | `Spec => []ClusterExclusion` |
| `Recovery` | `Spec => []NoStaleRunningRow` |
| `StreamAgreement` | `Spec => []StreamAgreesWithHistory` |
| `FinalOutcome` | `Spec => OutcomeIsFinal` |
| `Resurrection` | `Spec => NoResurrection` |
| `Implements` | `Spec => LifecycleSpec` |

The argument. Neither recovery nor agreement is inductive alone, because of late
transactions: a record that commits after the terminal frame could write
another outcome than the frame showed, and an insert that commits after a
restart could leave a running row nobody settles. `IInv` adds three parts that
exclude this.

* `LateWrites`: a late insert belongs to a task that was refused or audited and
  has no row, a late record to a run that is past its own update, and there is
  at most one of each per task.
* `IdleMemory`: a process that is down or recovering has no late transaction
  and no task under way, so recovery sees every row there will be.
* `OneVerdict`: the outcome a run decided on is what its row, its hub and its
  late record can say.

`TaskManagerProofs` has a lemma per part of the invariant, with a step per
action under it. `IInv` is also an invariant of `task_manager`.
Its last part maps every action to a step of `OperationLifecycle` or to a
stutter. The step that needs the invariant most is CommitLate: a late insert is
the one `Open` of its id because `LateWrites` says the row was never there.

### Hub

`TaskHubProofs`, from `HubAssumption` (the buffer holds a frame or more), for
any number of pages and frames:

| Theorem | Statement |
|---|---|
| `Invariance`, `TypeCorrect` | `Spec => []IInv`, `Spec => []TypeOK` |
| `OpenMatches` | `Spec => []OpenIffListed` |
| `NothingLost` | `Spec => []Lossless` |
| `OutcomeKept` | `Spec => OutcomeSticks` |

`Lossless` is nearly inductive: what is buffered applied to what is seen comes
to the hub's snapshot, and each method of the hub adds the same to both sides.
`OutcomeSticks` is about pages that are no longer listed as well, so the
invariant adds `OutcomeStays`: once the outcome is seen, or is in a buffered
frame, every state frame behind it has it, and so has the hub.

### Migration

`MigrationProofs`, from `MigrationAssumption` (`MaxOps` is a natural), for any
set of hosts:

| Theorem | Statement |
|---|---|
| `Invariance`, `TypeCorrect` | `Spec => []IInv`, `Spec => []TypeOK` |
| `Atomicity` | `Spec => []AllOrNothing` |
| `TrueReports` | `Spec => []ReportsAreReal` |
| `StopOrder` | `Spec => []StopsBeforeStarts` |
| `RowIsTrue` | `Spec => RowFollowsHosts` |
| `NoDowntime` | `Spec => NoEarlyDowntime` |

Reboots are what makes these hard: between any two commands a host comes up
with whatever is enabled. So `MinioIsKept` (a host that runs MinIO will after a
reboot) and `Progress` (what a host has at each point of each phase) speak of
the units enabled at boot beside those that run, and `Reported` ties the
reports to the stage that makes them.

### Rotation

`RotateProofs`, from `RotateAssumption` (the first password is one; None is no
password and no text of a file), for any hosts and passwords:

| Theorem | Statement |
|---|---|
| `Invariance`, `TypeCorrect` | `Spec => []IInv`, `Spec => []TypeOK` |
| `TrueReports` | `Spec => []ReportsAreTrue` |
| `PasswordKept` | `Spec => []KeepsPassword` |
| `NeverAhead` | `Spec => StoredNeverAhead` |

`FilesByStage` says what the files of a host are at each stage and each point
of the host's part in it, undo included; the password a reboot would bring up
follows. `UnmanagedKeep` is about the hosts without a unit, which no stage may
touch, and `EveryHost` that a rotation that changes something changes all the
others.

### Host operations

`HostOperationsProofs`, from `HostAssumption` (finitely many hosts), for any
number of them and of releases:

| Theorem | Statement |
|---|---|
| `Invariance`, `TypeCorrect` | `Spec => []IInv`, `Spec => []TypeOK` |
| `OneDownAtMost` | `Spec => []OneAtATime` |
| `UpgradesAreUniform` | `Spec => []UpgradeIsUniform` |
| `ProvisionedAreWhole` | `Spec => []ProvisionedIsWhole` |
| `StopsStick` | `Spec => []StopSticks` |

`OneDown` says which host a rolling restart may have down and that it waits for
it; the theorem then counts. `NoDowngrade` is what makes the convergence wait
of an upgrade sound: what runs the new release, or a later one, was installed
by it. `StoppedStay` excludes a pending start on a host whose unit was stopped,
and `Provisioning` follows a redeploy through its commands. `Machinery` and
`Stages` are the facts about systemd and about stages that they need.

### Cluster registry

`ClusterRegistryProofs`, from `RegistryAssumption` (a cluster has a node or
more, None is no value of a row, the answers of servers are typed), for any
requests, clusters, nodes, credentials and answers:

| Theorem | Statement |
|---|---|
| `RegistryInvariant`, `RegistryTypes` | `Spec => []IInv`, `Spec => []RegistryTypeOK` |
| `CommitStaysUsable` | `Spec => []CommitIsUsable` |
| `EditsAlwaysStick` | `Spec => []EditsStick` |
| `AliasFileAgrees` | `Spec => []AliasAgrees` |

What the properties say of a request depends on who else was there, so the
invariant begins with `Met`: the history of every request names all that are
under way beside it. With that, two requests of which each excludes the other
cannot both be under way, and the rest is a promise per kind, kept as long as
its history allows: `Committing` and `Deleting` say which rows exist at each
point of a commit or a delete, `Refreshing` that the rows are the ones the
refresh read, or made of its answer, `CredsEditing` and `SshEditing` that
whoever writes later holds the new value already, `Aliasing` that the file
under construction agrees with the store as far as the sync went past it.
`EditsStick` cannot say this of itself: an edit that nobody overlapped stays
because every request that began later read what it wrote. Each action has a lemma that says what it changes; each promise has a
lemma for its own request's step and others for steps of requests beside it,
for restarts and for new requests.

### Plans

`DeployPlanProofs` is about the operators of DeployPlan, for names of any length
and any number of hosts and drives, from `DeployPlanAssumption` (None is no
number and no pair of numbers):

| Theorem | Statement |
|---|---|
| `PatternsName` | the patterns of a list stand for exactly the names in it |
| `PlanFaithful` | an accepted draft satisfies `PlanIsFaithful` |
| `LocalSizeAgrees` | `ComputeSetSize` of the local preparation is `DefaultSetSize` of the server |

The definitions recurse over digits and lists. The library's induction theorems
take an operator, which these provers cannot instantiate; `Induction` states
the principle for a set of numbers instead, which is first-order, and a proof
by induction names the set of numbers for which its claim holds. Writing a
number in decimal and reading it are inverse, with and without padding
(`Decimal`, `Number`, `Padded`); a name is its prefix, its number and its
suffix (`NameIsParts`); and as many distinct numbers as fit between the least
and the greatest are all of them (`NumbersAreRange`), by cardinality. The
premise of `PatternsName` on padding is the exception that `PlanIsFaithful`
names.

### Installations

`InstallsProofs`, from the assumptions of `Releases`, `DeployPlan`, `SshPool`,
`Deploy`, `LocalDeploy` and `SelfUpdate`: goroutines of hosts are callers of the
pool, drafts are lists of names with a known login, requests of the local
preparation are lists of paths, a host's package format is rpm, deb or unknown,
tags have times and suffixes.

| Theorem | Statement |
|---|---|
| `Invariance` | `Spec => []IInv` |
| `Verified` | `Spec => []InstalledIsVerified` |
| `CommittedRuns` | `Spec => []CommitRunsDraft` |
| `FaithfulPlan` | `Spec => []DeployPlanIsFaithful` |
| `PreparedWhole` | `Spec => []PreparedIsWhole` |
| `PoolSound` | `Spec => []PoolIsSound` |

The parts of `IInv` belong to one installer each, and the step lemmas say that
the others leave them alone. `HostInv` carries the expected checksum from the
fetch to the installed package; that it is of the host's own format is a chain
of lemmas on the choice of a file (`FilesOfKind` to `ChecksumOfKind`), whose
base is that a nonempty set of indices has a least one. It also says how far
each host is with the draft of the attempt, and `TaskInv` that the commit comes
after every host of it. `CommitRunsDraft` speaks of the hosts of the committed
draft only: the verification (`verify.go:24`) counts running servers, and after
an attempt with a larger draft it counts servers that the last draft leaves
out; TLC shows this with three attempts. `WholeInv` follows a local preparation
from the request to the script, and `LocalSizeAgrees` makes its set size the
server's. `PlanInv` says that what is being installed was accepted, and
`PlanFaithful` the rest. `UpdateInv` needs that the order of tags has no cycle
although a build from git is comparable with some releases only
(`NewerTransitive`). `PoolInv` adds that clients are
numbered, so that a new one was never closed; `DeployPool` shows that a
deployment uses the pool by its three operations only.

### Only model-checked

Liveness (fairness and ENABLED are out of the prover's reach) and the five
findings, which are counterexamples. Every invariant and every action property
of the passing runs is stated by a theorem.

## 6. Not modelled, and what is left

* **Preflight checks and discovery** (`internal/preflight`,
  `internal/discovery`, `migration/preflight.go`, `verify.go`): they read and
  report, and keep no state; what they found may be stale when used, which the
  models allow by letting hosts be anything an operation can start on.
* **A remote command that outlives its SSH session** (`ssh/run.go:66`): the host
  may go on with it beside the next phase.
* **A rotation's writes in ClusterRegistry**: an edit of the credentials under
  way with a rotation is overwritten; RotateRootCreds lets the operator edit
  only between rotations.
* **Freeze, unfreeze and heal**: calls of the admin API with no state of bm.
* **The pages of the wizard and `TaskLogStream`**, which merge a snapshot and a
  stream in another way than the operation dialog.
* **Idle clients of the SSH pool** (SweepIdle has no caller), and the client
  whose entry a second dial overwrites and nobody closes.
* **Encryption at rest, the file lock, the HTTP router, configuration, the
  command line, the admin API client and the rest of the web UI**: decoding,
  mapping and I/O.

Worth proving next: an abstract specification of the cluster registry (a cluster
exists or not, with one set of credentials) and the refinement of ClusterRegistry
for behaviours without overlapping requests; the same for the hub, as one log
that every page reads a prefix of.
