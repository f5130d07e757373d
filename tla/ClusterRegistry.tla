--------------------------- MODULE ClusterRegistry ---------------------------
(***************************************************************************)
(* What bm stores of its clusters and who writes it: the buckets clusters, *)
(* nodes, cluster_admin and cluster_ssh, the SSH settings and admin clients *)
(* kept in memory, and the alias file bm-cli reads (internal/clusters,     *)
(* nodes, clusteradmin, sshconfig, admin/pool.go, alias, and the handlers  *)
(* of internal/api that use them).                                         *)
(*                                                                         *)
(* No lock covers a request: each takes its own transactions and holds     *)
(* what it read in between.  A request is a slot; every transaction, lock  *)
(* or remote call is one step.  All clusters here have names with one      *)
(* slug, so an id is its suffix (0 is the slug itself).                    *)
(***************************************************************************)
EXTENDS Naturals, FiniteSets

CONSTANTS
  Imported,     \* clusters there are at first
  Slots,        \* requests that can be under way together
  MaxSuffix,    \* last suffix tried for a slug, 999 in the code
  NodeCount,    \* most nodes a cluster has
  Parity,       \* drives of a set that may be lost
  Creds,        \* admin credentials, each with the URL of a cluster
  Answers,      \* what ServerInfo may answer
  Ports,        \* SSH settings, reduced to the port
  MaxEvents,    \* bound: requests begun and restarts
  None

Ids == 0..MaxSuffix
Nodes == 1..NodeCount
Engines == {"minio", "buckit"}
NodeStates == {"online", "degraded", "offline", "unreachable"}
DriveStates == {"ready", "healing", "failed", "unknown", "none"}
Healths == {"healthy", "degraded", "critical", "unknown"}
Facts == [state : NodeStates, drive : DriveStates]
NodeRows == [state : NodeStates, drive : DriveStates, port : Ports \cup {None}]
Rows == [engine : Engines, migrated : BOOLEAN, reachable : BOOLEAN, health : Healths]
NodeLists == [Nodes -> NodeRows \cup {None}]
NoNodes == [i \in Nodes |-> None]

ASSUME RegistryAssumption ==
  /\ Imported \subseteq Ids
  /\ MaxSuffix \in Nat /\ NodeCount \in Nat \ {0} /\ Parity \in Nat /\ MaxEvents \in Nat
  /\ Answers \subseteq [engine : Engines, facts : [Nodes -> Facts \cup {None}]]
  /\ None \notin NodeRows \cup Rows \cup Creds \cup Ports \cup Answers \cup Facts

VARIABLES
  clusters,   \* clusters[id]: the cluster's row
  nodes,      \* nodes[id][i]: the row of its i-th node
  admin,      \* admin[id]: bucket cluster_admin
  sshDisk,    \* sshDisk[id]: bucket cluster_ssh
  sshMemory,  \* sshMemory[id]: settings kept for this process only
  pool,       \* pool[id]: the credentials the cached admin client was built from
  alias,      \* alias[id]: the alias file
  req,        \* req[r]: the request in a slot
  begun       \* requests begun and restarts

store == <<clusters, nodes, admin, sshDisk>>
memory == <<sshMemory, pool>>
vars == <<store, memory, alias, req, begun>>

Commits == {"import", "deploy"}
Kinds == Commits \cup {"operation", "delete", "refresh", "probe", "credsEdit", "sshEdit", "none"}
\* A request: id: the cluster (a candidate while allocating); creds: submitted,
\* loaded or of the client in use; row, list, answer: what it read; n: the next
\* node; ids, file: a Sync under way; met (history): other requests and restarts,
\* under way with this one or begun after it, each with the id it works on (None
\* when that may be any).
Idle == [kind |-> "none", at |-> "done", id |-> 0, creds |-> None, port |-> None,
         persist |-> FALSE, row |-> None, list |-> NoNodes, answer |-> None, n |-> 1,
         ids |-> {}, file |-> [i \in Ids |-> None], met |-> {}]

(* ---- Health: clusters/health.go ---- *)

Count(list, P(_)) == Cardinality({i \in Nodes : list[i] # None /\ P(list[i])})

\* Summarize: an unreachable node counts as offline, a drive of unknown state
\* as none; boot drives are not part of the model.
Summarize(list) ==
  [online   |-> Count(list, LAMBDA m : m.state = "online"),
   degraded |-> Count(list, LAMBDA m : m.state = "degraded"),
   offline  |-> Count(list, LAMBDA m : m.state \notin {"online", "degraded"}),
   healing  |-> Count(list, LAMBDA m : m.drive = "healing"),
   failed   |-> Count(list, LAMBDA m : m.drive = "failed")]

Rollup(s) ==
  IF s.online + s.degraded + s.offline = 0 THEN "unknown"
  ELSE IF s.failed > Parity \/ s.offline > Parity THEN "critical"
  ELSE IF s.offline + s.degraded + s.healing + s.failed > 0 THEN "degraded"
  ELSE "healthy"

Health(list) == Rollup(Summarize(list))

\* mergeAdminNodeFacts on one row m; f is what its server said, None without
\* one in the answer.
MergeNode(m, f) == IF m = None \/ f = None THEN m
                   ELSE [m EXCEPT !.state = f.state, !.drive = f.drive]

\* refreshOne on a row when the admin API does not answer.
LostNode(m) == IF m = None THEN None
               ELSE [m EXCEPT !.state = "unreachable",
                              !.drive = IF @ = "none" THEN @ ELSE "unknown"]

\* The nodes a commit writes: those discovery found, or those just deployed.
Found(a) == [i \in Nodes |-> IF a.facts[i] = None THEN None
                             ELSE [state |-> a.facts[i].state, drive |-> a.facts[i].drive,
                                   port |-> None]]
Deployed(p) == [i \in Nodes |-> [state |-> "online", drive |-> "none", port |-> p]]

Listed == [i \in Ids |-> IF clusters[i] = None THEN None ELSE admin[i]]
ClusterRow(e, h) == [engine |-> e, migrated |-> FALSE, reachable |-> TRUE, health |-> h]

\* bm has just started; some clusters were imported before.
Init ==
  /\ \E c \in Creds, a \in Answers :
       /\ clusters = [i \in Ids |-> IF i \in Imported THEN ClusterRow(a.engine, Health(Found(a)))
                                    ELSE None]
       /\ nodes = [i \in Ids |-> IF i \in Imported THEN Found(a) ELSE NoNodes]
       /\ admin = [i \in Ids |-> IF i \in Imported THEN c ELSE None]
  /\ sshDisk = [i \in Ids |-> None] /\ sshMemory = sshDisk /\ pool = sshDisk
  /\ alias = admin
  /\ req = [r \in Slots |-> Idle]
  /\ begun = 0

(* ---- Steps of a request ---- *)

At(r, kinds, point) == req[r].kind \in kinds /\ req[r].at = point
Go(r, point) == req' = [req EXCEPT ![r].at = point]
KeepStore == UNCHANGED store
KeepRest == UNCHANGED <<memory, alias, begun>>

Busy(r) == req[r].at \notin {"done", "unsynced"}

\* A commit can touch any id until it ends.
Encounter(when, q) ==
  [when |-> when, kind |-> q.kind, id |-> IF q.kind \in Commits THEN None ELSE q.id]

\* A handler is called, or an executor gets to its row writes.
Begin(r, q) ==
  /\ ~Busy(r) /\ begun < MaxEvents
  /\ begun' = begun + 1
  /\ req' = [s \in Slots |->
       IF s = r
       THEN [q EXCEPT !.met = {Encounter("with", req[o]) : o \in {o \in Slots \ {r} : Busy(o)}}]
       ELSE [req[s] EXCEPT !.met = @ \cup {Encounter(IF Busy(s) THEN "with" ELSE "after", q)}]]
  /\ UNCHANGED <<store, memory, alias>>

New(kind, point, id) == [Idle EXCEPT !.kind = kind, !.at = point, !.id = id]

\* The rest of a request's input (credentials, whether to persist) is chosen
\* where it is first used.
BeginImport(r) ==
  \E a \in Answers :
    Begin(r, [New("import", "alloc", 0) EXCEPT !.list = Found(a),
                !.row = ClusterRow(a.engine, Health(Found(a)))])
BeginDeploy(r) ==
  \E p \in Ports :
    Begin(r, [New("deploy", "alloc", 0) EXCEPT !.port = p, !.list = Deployed(p),
                !.row = ClusterRow("buckit", "healthy")])
BeginDelete(r) == \E i \in Ids : Begin(r, New("delete", "tx", i))
BeginRefresh(r) == \E i \in Ids : Begin(r, New("refresh", "get", i))
BeginCredsEdit(r) == \E i \in Ids : Begin(r, New("credsEdit", "put", i))
BeginSshEdit(r) ==
  \E i \in Ids, p \in Ports : Begin(r, [New("sshEdit", "save", i) EXCEPT !.port = p])
\* The task manager runs one operation per cluster.
BeginOperation(r) ==
  \E i \in Ids :
    /\ \A o \in Slots : Busy(o) => ~(req[o].kind = "operation" /\ req[o].id = i)
    /\ Begin(r, New("operation", "get", i))

\* The context of a request ended (the client left, a deadline passed), or a
\* transaction failed.  A handler returns; a refresh ignores the errors of its
\* writes and goes on to the probes, which have a context of their own, as has
\* what follows when the admin API did not answer.
Fallible(r) ==
  /\ req[r].at \in {"alloc", "row", "nodes", "creds", "ssh", "tx", "get", "load", "list", "put",
                    "save", "ports", "port", "probe"}
  /\ req[r].kind = "refresh" /\ req[r].at \in {"list", "nodes"} => req[r].answer # None

GiveUp(r) ==
  /\ \/ Fallible(r) /\ req' = [req EXCEPT ![r] = Idle]
     \/ /\ At(r, {"refresh"}, "nodes") \/ At(r, {"refresh"}, "row")
        /\ req[r].answer # None
        /\ req' = [req EXCEPT ![r].kind = "probe", ![r].at = "probe", ![r].n = 1]
     \/ At(r, {"refresh"}, "down") /\ req[r].creds = None /\ req' = [req EXCEPT ![r] = Idle]
     \/ /\ req[r].at \in {"view", "entries", "publish"}
        /\ req' = [req EXCEPT ![r].at = "unsynced", ![r].ids = {}, ![r].file = Idle.file,
                              ![r].port = None]
  /\ KeepStore /\ KeepRest

\* allocateClusterID, and the same loop in the deploy's commit, which keeps
\* the slug itself when every suffix is taken.
AllocateID(r) ==
  /\ At(r, Commits, "alloc")
  /\ LET i == req[r].id IN
     \/ clusters[i] = None /\ Go(r, "row")
     \/ clusters[i] # None /\ i < MaxSuffix /\ req' = [req EXCEPT ![r].id = i + 1]
     \/ /\ clusters[i] # None /\ i = MaxSuffix
        /\ req' = [req EXCEPT ![r] = IF @.kind = "deploy" THEN [@ EXCEPT !.id = 0, !.at = "row"]
                                     ELSE Idle]
  /\ KeepStore /\ KeepRest

\* clusters.Repo.Put of a whole row.
PutRow(r, row, next) ==
  /\ clusters' = [clusters EXCEPT ![req[r].id] = row]
  /\ req' = [req EXCEPT ![r] = IF @.kind = "operation" THEN Idle
                               ELSE [@ EXCEPT !.at = next, !.row = None]]
  /\ UNCHANGED <<nodes, admin, sshDisk>> /\ KeepRest

CommitRow(r) == At(r, Commits, "row") /\ PutRow(r, req[r].row, "nodes")

\* The loops over nodes: the next row m is put (nodes.Repo.Put) or passed over;
\* after the last one the request goes on at next.
PutNode(r, m, put, next) ==
  LET q == req[r]  last == q.n = NodeCount IN
  /\ nodes' = IF put /\ m # None THEN [nodes EXCEPT ![q.id][q.n] = m] ELSE nodes
  /\ req' = [req EXCEPT ![r].n = IF last THEN 1 ELSE @ + 1,
                        ![r].at = IF last THEN next ELSE @,
                        ![r].list = IF last /\ next = "done" THEN NoNodes ELSE [@ EXCEPT ![q.n] = m]]
  /\ UNCHANGED <<clusters, admin, sshDisk>> /\ KeepRest

NextNode(r) == req[r].list[req[r].n]

CommitNode(r) == At(r, Commits, "nodes") /\ PutNode(r, NextNode(r), TRUE, "creds")

CommitCreds(r) ==
  /\ At(r, Commits, "creds")
  /\ \E c \in Creds : admin' = [admin EXCEPT ![req[r].id] = c]
  /\ \/ Go(r, "view")
     \/ req[r].kind = "deploy" /\ Go(r, "ssh")
  /\ UNCHANGED <<clusters, nodes, sshDisk>> /\ KeepRest

\* sshconfig.Repo.Put: the bucket, then the settings in memory.
SaveSsh(r) ==
  /\ At(r, {"deploy"}, "ssh") \/ At(r, {"sshEdit"}, "save")
  /\ sshDisk' = [sshDisk EXCEPT ![req[r].id] = req[r].port]
  /\ req' = [req EXCEPT ![r].at = "forget", ![r].persist = req[r].kind = "sshEdit"]
  /\ UNCHANGED <<clusters, nodes, admin>> /\ KeepRest

\* Bug: settings in memory outlive a save.
M_ForgetSsh(r) ==
  /\ At(r, {"deploy", "sshEdit"}, "forget")
  /\ Go(r, IF req[r].kind = "deploy" THEN "view" ELSE "ports")
  /\ KeepStore /\ KeepRest

ForgetSsh(r) ==
  /\ At(r, {"deploy", "sshEdit"}, "forget")
  /\ sshMemory' = [sshMemory EXCEPT ![req[r].id] = None]
  /\ Go(r, IF req[r].kind = "deploy" THEN "view" ELSE "ports")
  /\ KeepStore /\ UNCHANGED <<pool, alias, begun>>

\* sshconfig.Repo.PutInMemory.
RememberSsh(r) ==
  /\ At(r, {"sshEdit"}, "save")
  /\ sshMemory' = [sshMemory EXCEPT ![req[r].id] = req[r].port]
  /\ Go(r, "ports")
  /\ KeepStore /\ UNCHANGED <<pool, alias, begun>>

\* putSSHConfig: the port of each node, read and written in two transactions.
ReadPort(r) ==
  LET q == req[r]  m == nodes[q.id][q.n] IN
  /\ At(r, {"sshEdit"}, "ports")
  /\ IF m = None \/ m.port = q.port THEN PutNode(r, m, FALSE, "done")
     ELSE /\ req' = [req EXCEPT ![r].list[q.n] = m, ![r].at = "port"]
          /\ KeepStore /\ KeepRest

WritePort(r) ==
  LET q == req[r]  last == q.n = NodeCount IN
  /\ At(r, {"sshEdit"}, "port")
  /\ nodes' = [nodes EXCEPT ![q.id][q.n] = [NextNode(r) EXCEPT !.port = q.port]]
  /\ req' = [req EXCEPT ![r].at = IF last THEN "done" ELSE "ports", ![r].list = NoNodes,
                        ![r].n = IF last THEN 1 ELSE @ + 1]
  /\ UNCHANGED <<clusters, admin, sshDisk>> /\ KeepRest

\* alias.Sync: the ids in one transaction, the credentials one by one, then
\* a rename.
SyncView(r) ==
  LET known == {i \in Ids : clusters[i] # None} IN
  /\ req[r].at = "view"
  /\ req' = [req EXCEPT ![r].ids = known, ![r].at = IF known = {} THEN "publish" ELSE "entries"]
  /\ KeepStore /\ KeepRest

SyncEntry(r) ==
  /\ req[r].at = "entries"
  /\ \E i \in req[r].ids :
       /\ \A j \in req[r].ids : i <= j
       /\ req' = [req EXCEPT ![r].ids = @ \ {i}, ![r].file[i] = admin[i],
                             ![r].at = IF req[r].ids = {i} THEN "publish" ELSE @]
  /\ KeepStore /\ KeepRest

SyncPublish(r) ==
  /\ req[r].at = "publish"
  /\ alias' = req[r].file
  /\ req' = [req EXCEPT ![r].at = "done", ![r].file = Idle.file, ![r].port = None]
  /\ KeepStore /\ UNCHANGED <<memory, begun>>

\* Bug: the rows of nodes are found by the prefix "<id>", not "<id>:", so the
\* delete of a slug takes the nodes of its other suffixes along.
M_DeleteCascade(r) ==
  /\ At(r, {"delete"}, "tx")
  /\ LET i == req[r].id IN
       /\ clusters' = [clusters EXCEPT ![i] = None]
       /\ nodes' = [k \in Ids |-> IF k = i \/ i = 0 THEN NoNodes ELSE nodes[k]]
       /\ admin' = [admin EXCEPT ![i] = None]
       /\ sshDisk' = [sshDisk EXCEPT ![i] = None]
  /\ Go(r, "drop")
  /\ KeepRest

\* clusters.Repo.Delete: every bucket in one transaction.
DeleteCascade(r) ==
  /\ At(r, {"delete"}, "tx")
  /\ LET i == req[r].id IN
       /\ clusters' = [clusters EXCEPT ![i] = None]
       /\ nodes' = [nodes EXCEPT ![i] = NoNodes]
       /\ admin' = [admin EXCEPT ![i] = None]
       /\ sshDisk' = [sshDisk EXCEPT ![i] = None]
  /\ Go(r, "drop")
  /\ KeepRest

\* Bug: a delete does not sync the alias file.
M_DropClient(r) ==
  /\ At(r, {"delete", "credsEdit"}, "drop")
  /\ pool' = [pool EXCEPT ![req[r].id] = None]
  /\ Go(r, "done")
  /\ KeepStore /\ UNCHANGED <<sshMemory, alias, begun>>

\* admin.Pool.Drop, after a delete and after an edit.
DropClient(r) ==
  /\ At(r, {"delete", "credsEdit"}, "drop")
  /\ pool' = [pool EXCEPT ![req[r].id] = None]
  /\ Go(r, IF req[r].kind = "delete" THEN "view" ELSE "done")
  /\ KeepStore /\ UNCHANGED <<sshMemory, alias, begun>>

\* putAdminCreds: no cluster row is asked for.
PutCreds(r) ==
  /\ At(r, {"credsEdit"}, "put")
  /\ \E c \in Creds :
       /\ admin' = [admin EXCEPT ![req[r].id] = c]
       /\ req' = [req EXCEPT ![r].at = "drop", ![r].creds = c]
  /\ UNCHANGED <<clusters, nodes, sshDisk>> /\ KeepRest

\* The row a refresh or an executor goes on with; without one it ends.
GetRow(r) ==
  LET q == req[r] IN
  /\ At(r, {"operation", "refresh"}, "get")
  /\ req' = [req EXCEPT ![r] =
       IF clusters[q.id] = None THEN Idle
       ELSE [@ EXCEPT !.row = clusters[q.id], !.at = IF q.kind = "refresh" THEN "load" ELSE "put"]]
  /\ KeepStore /\ KeepRest

\* commitEngineFlip, commitEngineRevert, markUnreachable, and what ServerInfo answered.
Flipped(row) == [row EXCEPT !.engine = "buckit", !.migrated = TRUE]
Reverted(row) == [row EXCEPT !.engine = "minio", !.migrated = FALSE]
Refreshed(r) == [req[r].row EXCEPT !.engine = req[r].answer.engine, !.reachable = TRUE,
                                   !.health = Health(req[r].list)]
Down(row) == [row EXCEPT !.reachable = FALSE, !.health = "unknown"]

OperationPut(r) ==
  /\ At(r, {"operation"}, "put")
  /\ \E row \in {Flipped(req[r].row), Reverted(req[r].row), Down(req[r].row)} :
       PutRow(r, row, "done")

\* refreshClusterRow, when the servers answer: the nodes are read as they are.
OperationList(r) ==
  /\ At(r, {"operation"}, "put")
  /\ \E a \in Answers :
       req' = [req EXCEPT ![r].answer = a, ![r].list = nodes[req[r].id], ![r].at = "row"]
  /\ KeepStore /\ KeepRest
OperationRefresh(r) == At(r, {"operation"}, "row") /\ PutRow(r, Refreshed(r), "done")

(* ---- refreshOne ---- *)

LoadCreds(r) ==
  /\ At(r, {"refresh"}, "load")
  /\ req' = [req EXCEPT ![r].creds = admin[req[r].id],
                        ![r].at = IF admin[req[r].id] = None THEN "down" ELSE "client"]
  /\ KeepStore /\ KeepRest

\* admin.Pool.Get: a cached client is used whatever its credentials; a new one
\* is built outside the lock and kept unless another got there first.
FindClient(r) ==
  /\ At(r, {"refresh"}, "client")
  /\ LET cached == pool[req[r].id] IN
       IF cached = None THEN Go(r, "insert")
       ELSE req' = [req EXCEPT ![r].creds = cached, ![r].at = "call"]
  /\ KeepStore /\ KeepRest

InsertClient(r) ==
  /\ At(r, {"refresh"}, "insert")
  /\ LET i == req[r].id  c == IF pool[i] = None THEN req[r].creds ELSE pool[i] IN
       /\ pool' = [pool EXCEPT ![i] = c]
       /\ req' = [req EXCEPT ![r].creds = c, ![r].at = "call"]
  /\ KeepStore /\ UNCHANGED <<sshMemory, alias, begun>>

\* ServerInfo, with an error as None.
CallServer(r) ==
  /\ At(r, {"refresh"}, "call")
  /\ \E a \in Answers \cup {None} :
       req' = [req EXCEPT ![r].answer = a, ![r].at = IF a = None THEN "down" ELSE "list"]
  /\ KeepStore /\ KeepRest

\* markUnreachable; without credentials the refresh ends there.
MarkUnreachable(r) ==
  /\ At(r, {"refresh"}, "down")
  /\ PutRow(r, Down(req[r].row), IF req[r].creds = None THEN "done" ELSE "list")

ListNodes(r) ==
  /\ At(r, {"refresh"}, "list")
  /\ req' = [req EXCEPT ![r].at = "nodes", ![r].list = nodes[req[r].id]]
  /\ KeepStore /\ KeepRest

RefreshNode(r) ==
  LET q == req[r]  m == NextNode(r) IN
  /\ At(r, {"refresh"}, "nodes")
  /\ IF q.answer = None THEN PutNode(r, LostNode(m), LostNode(m) # m, "probe")
     ELSE PutNode(r, MergeNode(m, q.answer.facts[q.n]), TRUE, "row")

\* The row read at the start is written back as a whole.
RefreshRow(r) ==
  At(r, {"refresh"}, "row") /\ PutRow(r, Refreshed(r), "probe")

\* refreshNodeConnectivity: the snapshot is written once more with what the
\* probes found; a refresh of all clusters does without.
ProbeNode(r) == At(r, {"refresh", "probe"}, "probe") /\ PutNode(r, NextNode(r), TRUE, "done")
NoProbes(r) ==
  /\ At(r, {"refresh"}, "probe") /\ req[r].n = 1
  /\ req' = [req EXCEPT ![r].at = "done", ![r].list = NoNodes]
  /\ KeepStore /\ KeepRest

(* ---- The process ---- *)

AfterRestart == [when |-> "after", kind |-> "restart", id |-> None]

\* bm ends and starts: web.go syncs the alias file before it serves.
Restart ==
  /\ begun < MaxEvents /\ begun' = begun + 1
  /\ req' = [r \in Slots |-> IF Busy(r) THEN Idle
                            ELSE [req[r] EXCEPT !.met = @ \cup {AfterRestart}]]
  /\ sshMemory' = [i \in Ids |-> None] /\ pool' = [i \in Ids |-> None]
  /\ alias' = Listed
  /\ KeepStore

Commit(r) == AllocateID(r) \/ CommitRow(r) \/ CommitNode(r) \/ CommitCreds(r)
Ssh(r) == SaveSsh(r) \/ ForgetSsh(r) \/ RememberSsh(r) \/ ReadPort(r) \/ WritePort(r)
Sync(r) == SyncView(r) \/ SyncEntry(r) \/ SyncPublish(r)
Refresh(r) ==
  \/ LoadCreds(r) \/ FindClient(r) \/ InsertClient(r) \/ CallServer(r) \/ MarkUnreachable(r)
  \/ ListNodes(r) \/ RefreshNode(r) \/ RefreshRow(r) \/ ProbeNode(r) \/ NoProbes(r)
Step(r) ==
  \/ Commit(r) \/ Ssh(r) \/ Sync(r) \/ Refresh(r)
  \/ DeleteCascade(r) \/ DropClient(r) \/ PutCreds(r) \/ GetRow(r)
  \/ OperationPut(r) \/ OperationList(r) \/ OperationRefresh(r)
Receive(r) ==
  \/ BeginImport(r) \/ BeginDeploy(r) \/ BeginDelete(r) \/ BeginRefresh(r)
  \/ BeginCredsEdit(r) \/ BeginSshEdit(r) \/ BeginOperation(r)

Next == Restart \/ \E r \in Slots : Receive(r) \/ Step(r) \/ GiveUp(r)

Spec == Init /\ [][Next]_vars

(* ---- Properties ---- *)

\* The finished request r, and whether one of kinds was under way with it, or
\* came after it, on the same cluster.
Done(r, kinds) == req[r].kind \in kinds /\ ~Busy(r)
Same(r, e) == e.id \in {None, req[r].id}
Overlapped(r, kinds) == \E e \in req[r].met : e.when = "with" /\ e.kind \in kinds /\ Same(r, e)
Followed(r, kinds) == \E e \in req[r].met : e.when = "after" /\ e.kind \in kinds /\ Same(r, e)

\* r ended, nothing of the same cluster overlapped it, and none of later came.
Alone(r, kinds, later) == Done(r, kinds) /\ ~Overlapped(r, Kinds) /\ ~Followed(r, later)

\* A commit that ended well is a usable cluster, with a row, its nodes and
\* credentials, whatever other commits, refreshes, edits, operations and
\* restarts met it, as long as nobody deleted it.
CommitIsUsable ==
  \A r \in Slots : Done(r, Commits) /\ ~Overlapped(r, {"delete"}) /\ ~Followed(r, {"delete"}) =>
    LET i == req[r].id IN
      /\ clusters[i] # None /\ admin[i] # None
      /\ \A k \in Nodes : req[r].list[k] # None => nodes[i][k] # None

\* A delete that nothing of the same cluster overlapped leaves nothing of it in
\* the store and no client in the pool, and refreshes and operations that come
\* later do not bring it back.
DeleteIsFinal ==
  \A r \in Slots : Alone(r, {"delete"}, Commits \cup {"credsEdit", "sshEdit"}) =>
    LET i == req[r].id IN
      /\ clusters[i] = None /\ nodes[i] = NoNodes /\ admin[i] = None
      /\ sshDisk[i] = None /\ pool[i] = None

\* A refresh that nothing of the same cluster overlapped, whatever races came
\* before it, leaves a row whose health is that of the node rows beside it, and
\* both say what the server said, or that it said nothing.
RefreshIsExact ==
  \A r \in Slots : Alone(r, {"refresh"}, Kinds \ {"credsEdit", "sshEdit"}) =>
    LET q == req[r]  row == clusters[q.id]  list == nodes[q.id] IN
      /\ row # None
      /\ q.answer = None => ~row.reachable /\ row.health = "unknown"
      /\ q.answer = None /\ q.creds # None => \A k \in Nodes : LostNode(list[k]) = list[k]
      /\ q.answer # None =>
           /\ row.reachable /\ row.engine = q.answer.engine /\ row.health = Health(list)
           /\ \A k \in Nodes : MergeNode(list[k], q.answer.facts[k]) = list[k]

\* After an edit of the credentials that nothing overlapped, the store has the
\* new ones and every client cached from then on is built from them.
CredsEditSticks ==
  \A r \in Slots : Alone(r, {"credsEdit"}, Commits \cup {"delete", "credsEdit"}) =>
    admin[req[r].id] = req[r].creds /\ pool[req[r].id] \in {None, req[r].creds}

\* The SSH settings an operation dials with: sshconfig.Repo.Get.
SshInForce(i) == IF sshMemory[i] # None THEN sshMemory[i] ELSE sshDisk[i]

\* After an edit of the SSH settings that nothing overlapped, operations dial
\* with them on every node, also when other settings are still in memory, and
\* no later refresh undoes it; a restart forgets only settings not to be kept.
SshEditSticks ==
  \A r \in Slots : Alone(r, {"sshEdit"}, Commits \cup {"delete", "sshEdit"}) =>
    LET q == req[r] IN
      /\ q.persist \/ ~Followed(r, {"restart"}) => SshInForce(q.id) = q.port
      /\ \A k \in Nodes : nodes[q.id][k] # None => nodes[q.id][k].port = q.port

EditsStick == DeleteIsFinal /\ RefreshIsExact /\ CredsEditSticks /\ SshEditSticks

Harmless(e) ==
  \/ e.kind \in {"sshEdit", "restart"}
  \/ e.when = "after" /\ e.kind \in {"operation", "refresh"}

\* The alias file lists the clusters of the store with their credentials when a
\* commit or delete ended that no other writer overlapped, on any cluster, and
\* until the next writer: refreshes and operations never change the list.
AliasAgrees ==
  \A r \in Slots :
    Done(r, Commits \cup {"delete"}) /\ req[r].at = "done" /\ (\A e \in req[r].met : Harmless(e))
      => alias = Listed
=============================================================================
