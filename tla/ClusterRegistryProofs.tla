------------------------ MODULE ClusterRegistryProofs ------------------------
(* Theorems about ClusterRegistry, for any number of requests, clusters,    *)
(* nodes, credentials and answers.                                          *)
EXTENDS ClusterRegistry, TLAPS

Points ==
  {"alloc", "row", "nodes", "creds", "ssh", "forget", "view", "entries", "publish", "done",
   "unsynced", "tx", "drop", "get", "put", "load", "client", "insert", "call", "down", "list",
   "probe", "save", "ports", "port"}
Events == [when : {"with", "after"}, kind : Kinds \cup {"restart"}, id : Ids \cup {None}]
Files == [Ids -> Creds \cup {None}]
Requests ==
  [kind : Kinds, at : Points, id : Ids, creds : Creds \cup {None}, port : Ports \cup {None},
   persist : BOOLEAN, row : Rows \cup {None}, list : NodeLists, answer : Answers \cup {None},
   n : Nodes, ids : SUBSET Ids, file : Files, met : SUBSET Events]

(* The points the requests of each kind pass.                               *)
Syncing == {"view", "entries", "publish", "done", "unsynced"}
PointsOf(kind) ==
  CASE kind = "import"    -> Syncing \cup {"alloc", "row", "nodes", "creds"}
    [] kind = "deploy"    -> Syncing \cup {"alloc", "row", "nodes", "creds", "ssh", "forget"}
    [] kind = "delete"    -> Syncing \cup {"tx", "drop"}
    [] kind = "operation" -> {"get", "put", "row"}
    [] kind = "refresh"   -> {"get", "load", "client", "insert", "call", "down", "list", "nodes",
                              "row", "probe", "done"}
    [] kind = "probe"     -> {"probe", "done"}
    [] kind = "credsEdit" -> {"put", "drop", "done"}
    [] kind = "sshEdit"   -> {"save", "forget", "ports", "port", "done"}
    [] OTHER              -> {"done"}

(* What a request holds at each of its points.                              *)
Holds(q) ==
  /\ q.at \in PointsOf(q.kind)
  /\ q.kind \in Commits /\ q.at \in {"alloc", "row"} => q.row # None
  /\ q.kind = "operation" /\ q.at \in {"put", "row"} => q.row # None
  /\ q.kind \in {"operation", "refresh"} /\ q.at = "row" => q.answer # None
  /\ q.kind = "refresh" /\ q.at \in {"get", "load", "client", "insert", "call", "down"} =>
       q.answer = None /\ (q.at # "get" => q.row # None)
  /\ q.kind = "refresh" /\ q.at \in {"list", "nodes", "row"} /\ q.answer # None => q.row # None
  /\ q.at \in {"client", "insert"} => q.creds # None
  /\ q.kind = "deploy" /\ q.at \in {"ssh", "forget"} => q.port # None
  /\ q.kind = "deploy" /\ q.at \in {"alloc", "row", "nodes", "creds"} => q.port # None
  /\ q.kind = "sshEdit" => q.port # None /\ (q.at = "save" => ~q.persist)
  /\ q.at = "port" => q.list[q.n] # None
  /\ q.at \notin {"nodes", "ports", "port", "probe"} => q.n = 1
  /\ q.at \notin {"entries", "publish"} => q.file = Idle.file

RegistryTypeOK ==
  /\ clusters \in [Ids -> Rows \cup {None}]
  /\ nodes \in [Ids -> NodeLists]
  /\ admin \in Files /\ pool \in Files
  /\ sshDisk \in [Ids -> Ports \cup {None}] /\ sshMemory \in [Ids -> Ports \cup {None}]
  /\ alias \in Files
  /\ req \in [Slots -> Requests]
  /\ begun \in 0..MaxEvents
  /\ \A r \in Slots : Holds(req[r])

(* The history is complete: whoever is under way is known to every other    *)
(* request, as met on the way by those that are under way themselves.       *)
Known(r, o) ==
  \E e \in req[r].met :
    /\ e.id = IF req[o].kind \in Commits THEN None ELSE req[o].id
    /\ \/ e.kind = req[o].kind
       \/ e.kind = "refresh" /\ req[o].kind = "probe"
    /\ Busy(r) => e.when = "with"

Met == \A r, o \in Slots : r # o /\ Busy(o) /\ req[r].kind # "none" => Known(r, o)

(* A request of kinds that is not r and works on the cluster of r.          *)
Others(r, kinds) == {o \in Slots \ {r} : Busy(o) /\ req[o].kind \in kinds /\ req[o].id = req[r].id}

Undisturbed(r, kind, later) ==
  req[r].kind = kind /\ ~Overlapped(r, Kinds) /\ ~Followed(r, later)

(* What a commit has written so far stays.                                  *)
CommitWrote(q) ==
  /\ q.at \notin {"alloc", "row"} => clusters[q.id] # None
  /\ \A k \in Nodes :
       q.at \notin {"alloc", "row"} /\ (q.at = "nodes" => k < q.n) /\ q.list[k] # None =>
         nodes[q.id][k] # None
  /\ q.at \notin {"alloc", "row", "nodes", "creds"} => admin[q.id] # None

Committing(r) ==
  req[r].kind \in Commits /\ ~Overlapped(r, {"delete"}) /\ ~Followed(r, {"delete"}) =>
    CommitWrote(req[r])

(* A delete: what comes later finds no row to go on with.                   *)
DeleteLeft(q) ==
  /\ q.at # "tx" =>
       /\ clusters[q.id] = None /\ nodes[q.id] = NoNodes
       /\ admin[q.id] = None /\ sshDisk[q.id] = None
  /\ q.at \notin {"tx", "drop"} => pool[q.id] = None

Deleting(r) ==
  Undisturbed(r, "delete", Commits \cup {"credsEdit", "sshEdit"}) =>
    /\ DeleteLeft(req[r])
    /\ Others(r, {"probe"}) = {}
    /\ \A o \in Others(r, {"operation", "refresh"}) : req[o].at = "get"

(* A refresh, from the row it read to the rows it leaves.                   *)
LikeNode(m, k) == m # None /\ k # None /\ m.state = k.state /\ m.drive = k.drive

Merged(q, list, k) ==
  IF q.answer = None THEN LostNode(list[k]) = list[k]
  ELSE MergeNode(list[k], q.answer.facts[k]) = list[k]

RowSays(q, row, list) ==
  /\ row # None
  /\ q.answer = None => ~row.reachable /\ row.health = "unknown"
  /\ q.answer # None => row.reachable /\ row.engine = q.answer.engine /\ row.health = Health(list)

RefreshWrote(q, row, list) ==
  /\ q.at \in {"load", "client", "insert", "call", "down"} => row = q.row
  /\ q.at \in {"list", "nodes", "row"} =>
       IF q.answer = None THEN RowSays(q, row, q.list) ELSE row = q.row
  /\ q.at \in {"nodes", "row", "probe"} =>
       /\ list = q.list
       /\ \A k \in Nodes : (q.at = "nodes" => k < q.n) => Merged(q, q.list, k)
  /\ q.at = "probe" => RowSays(q, row, q.list)
  /\ q.at = "done" =>
       /\ RowSays(q, row, list)
       /\ q.answer # None \/ q.creds # None => \A k \in Nodes : Merged(q, list, k)

Refreshing(r) ==
  LET i == req[r].id IN
  Undisturbed(r, "refresh", Kinds \ {"credsEdit", "sshEdit"}) =>
    /\ RefreshWrote(req[r], clusters[i], nodes[i])
    /\ \A o \in Others(r, {"sshEdit"}) :
         req[o].at = "port" => LikeNode(nodes[i][req[o].n], req[o].list[req[o].n])

(* An edit of the credentials: a client under construction has the new ones. *)
CredsEditing(r) ==
  LET q == req[r] IN
  Undisturbed(r, "credsEdit", Commits \cup {"delete", "credsEdit"}) =>
    /\ q.at # "put" => admin[q.id] = q.creds
    /\ q.at = "done" =>
         /\ pool[q.id] \in {None, q.creds}
         /\ \A o \in Others(r, {"refresh"}) :
              req[o].at \in {"client", "insert"} => req[o].creds = q.creds

(* An edit of the SSH settings: the node rows in hand have the new port.    *)
SshWrote(q, forgotten) ==
  /\ q.at = "forget" => sshDisk[q.id] = q.port /\ q.persist
  /\ q.at \in {"ports", "port", "done"} =>
       /\ q.persist => sshDisk[q.id] = q.port /\ sshMemory[q.id] = None
       /\ ~q.persist /\ ~forgotten => sshMemory[q.id] = q.port
       /\ \A k \in Nodes :
            (q.at # "done" => k < q.n) /\ nodes[q.id][k] # None => nodes[q.id][k].port = q.port

SshEditing(r) ==
  LET q == req[r] IN
  Undisturbed(r, "sshEdit", Commits \cup {"delete", "sshEdit"}) =>
    /\ SshWrote(q, Followed(r, {"restart"}))
    /\ q.at = "done" =>
         \A o \in Others(r, {"refresh", "probe"}) : req[o].at \in {"nodes", "row", "probe"} =>
           \A k \in Nodes : req[o].list[k] # None => req[o].list[k].port = q.port

(* A sync: the file it writes has what it went past, the rest is to come.   *)
SyncWrote(q) ==
  /\ q.at = "entries" => \A i \in Ids :
       /\ clusters[i] = None => i \notin q.ids /\ q.file[i] = None
       /\ clusters[i] # None => i \in q.ids \/ q.file[i] = admin[i]
  /\ q.at = "publish" => q.file = Listed
  /\ q.at = "done" => alias = Listed

Aliasing(r) ==
  req[r].kind \in Commits \cup {"delete"} /\ (\A e \in req[r].met : Harmless(e)) =>
    /\ SyncWrote(req[r])
    /\ req[r].at = "done" => \A o \in Slots \ {r} :
         Busy(o) /\ req[o].kind \in {"operation", "refresh"} /\ req[o].at # "get" =>
           clusters[req[o].id] # None

IInv ==
  /\ RegistryTypeOK /\ Met
  /\ \A r \in Slots :
       /\ Committing(r) /\ Deleting(r) /\ Refreshing(r)
       /\ CredsEditing(r) /\ SshEditing(r) /\ Aliasing(r)

-----------------------------------------------------------------------------
LEMMA Constants ==
  /\ 0 \in Ids /\ 1 \in Nodes /\ Idle \in Requests /\ Holds(Idle)
  /\ NoNodes \in NodeLists /\ Idle.file \in Files
BY RegistryAssumption, SMTT(30)
   DEF Ids, Nodes, Idle, Requests, Kinds, Points, Files, NoNodes, NodeLists, Holds, PointsOf,
       Syncing, Commits

LEMMA HealthType == ASSUME NEW list PROVE Health(list) \in Healths
BY DEF Health, Rollup, Healths

LEMMA FoundType ==
  ASSUME NEW a \in Answers
  PROVE  Found(a) \in NodeLists /\ ClusterRow(a.engine, Health(Found(a))) \in Rows
BY RegistryAssumption, HealthType DEF Found, NodeLists, NodeRows, Facts, ClusterRow, Rows

LEMMA DeployedType ==
  ASSUME NEW p \in Ports
  PROVE  Deployed(p) \in NodeLists /\ ClusterRow("buckit", "healthy") \in Rows
BY DEF Deployed, NodeLists, NodeRows, ClusterRow, Rows, NodeStates, DriveStates, Engines, Healths

LEMMA InitialTypes == Init => RegistryTypeOK
<1> SUFFICES ASSUME Init PROVE RegistryTypeOK
  OBVIOUS
<1>1. PICK c \in Creds, a \in Answers :
        /\ clusters = [i \in Ids |-> IF i \in Imported THEN ClusterRow(a.engine, Health(Found(a)))
                                    ELSE None]
        /\ nodes = [i \in Ids |-> IF i \in Imported THEN Found(a) ELSE NoNodes]
        /\ admin = [i \in Ids |-> IF i \in Imported THEN c ELSE None]
  BY DEF Init
<1>2. clusters \in [Ids -> Rows \cup {None}] /\ nodes \in [Ids -> NodeLists] /\ admin \in Files
  BY <1>1, FoundType, Constants DEF Files
<1>3. req \in [Slots -> Requests] /\ \A r \in Slots : Holds(req[r])
  BY Constants DEF Init
<1>4. begun \in 0..MaxEvents
  BY RegistryAssumption DEF Init
<1> QED
  BY <1>2, <1>3, <1>4 DEF Init, RegistryTypeOK, Files

-----------------------------------------------------------------------------
(* A request begins with what its handler was called with.                  *)
Starting(q) ==
  /\ q \in Requests /\ Holds(q)
  /\ \/ q.kind \in Commits /\ q.at = "alloc"
     \/ q.kind = "delete" /\ q.at = "tx"
     \/ q.kind \in {"operation", "refresh"} /\ q.at = "get"
     \/ q.kind = "credsEdit" /\ q.at = "put"
     \/ q.kind = "sshEdit" /\ q.at = "save"

LEMMA CommitStarts ==
  ASSUME NEW list \in NodeLists, NEW row \in Rows
  PROVE  /\ Starting([New("import", "alloc", 0) EXCEPT !.list = list, !.row = row])
         /\ \A p \in Ports :
              Starting([New("deploy", "alloc", 0) EXCEPT !.port = p, !.list = list, !.row = row])
<1> DEFINE i == [New("import", "alloc", 0) EXCEPT !.list = list, !.row = row]
           d(p) == [New("deploy", "alloc", 0) EXCEPT !.port = p, !.list = list, !.row = row]
<1>1. Idle \in Requests /\ 0 \in Ids /\ row # None /\ None \notin Ports /\ Idle.n = 1
  BY Constants, RegistryAssumption DEF Idle
<1>2. i \in Requests /\ \A p \in Ports : d(p) \in Requests
  BY <1>1, ZenonT(60) DEF Requests, Kinds, Commits, Points, New
<1>3. Holds(i)
  BY <1>1 DEF Holds, PointsOf, Syncing, Commits, New
<1>4. \A p \in Ports : Holds(d(p))
  BY <1>1 DEF Holds, PointsOf, Syncing, Commits, New
<1>5. i.kind = "import" /\ i.at = "alloc" /\ \A p \in Ports : d(p).kind = "deploy" /\ d(p).at = "alloc"
  BY DEF New, Idle
<1> HIDE DEF i, d
<1> QED
  <2>1. Starting(i) /\ \A p \in Ports : Starting(d(p))
    BY <1>2, <1>3, <1>4, <1>5 DEF Starting, Commits
  <2> QED
    BY <2>1 DEF i, d

LEMMA Received ==
  ASSUME NEW s \in Slots, Receive(s)
  PROVE  \E q : Starting(q) /\ Begin(s, q)
<1>0. Idle \in Requests /\ 0 \in Ids
  BY Constants
<1>1. CASE BeginImport(s)
  <2>1. PICK a \in Answers :
          Begin(s, [New("import", "alloc", 0) EXCEPT !.list = Found(a),
                      !.row = ClusterRow(a.engine, Health(Found(a)))])
    BY <1>1 DEF BeginImport
  <2> QED
    BY <2>1, FoundType, CommitStarts
<1>2. CASE BeginDeploy(s)
  <2>1. PICK p \in Ports :
          Begin(s, [New("deploy", "alloc", 0) EXCEPT !.port = p, !.list = Deployed(p),
                      !.row = ClusterRow("buckit", "healthy")])
    BY <1>2 DEF BeginDeploy
  <2> QED
    BY <2>1, DeployedType, CommitStarts
<1>3. CASE BeginDelete(s)
  <2>1. PICK i \in Ids : Begin(s, New("delete", "tx", i))
    BY <1>3 DEF BeginDelete
  <2>2. Starting(New("delete", "tx", i))
    BY <1>0, ZenonT(60) DEF Starting, Requests, Kinds, Commits, Points, Holds, PointsOf, Syncing, New, Idle
  <2> QED
    BY <2>1, <2>2
<1>4. CASE BeginRefresh(s)
  <2>1. PICK i \in Ids : Begin(s, New("refresh", "get", i))
    BY <1>4 DEF BeginRefresh
  <2>2. Starting(New("refresh", "get", i))
    BY <1>0, ZenonT(60) DEF Starting, Requests, Kinds, Commits, Points, Holds, PointsOf, Syncing, New, Idle
  <2> QED
    BY <2>1, <2>2
<1>5. CASE BeginCredsEdit(s)
  <2>1. PICK i \in Ids : Begin(s, New("credsEdit", "put", i))
    BY <1>5 DEF BeginCredsEdit
  <2>2. Starting(New("credsEdit", "put", i))
    BY <1>0, ZenonT(60) DEF Starting, Requests, Kinds, Commits, Points, Holds, PointsOf, Syncing, New, Idle
  <2> QED
    BY <2>1, <2>2
<1>6. CASE BeginSshEdit(s)
  <2>1. PICK i \in Ids, p \in Ports : Begin(s, [New("sshEdit", "save", i) EXCEPT !.port = p])
    BY <1>6 DEF BeginSshEdit
  <2>2. Starting([New("sshEdit", "save", i) EXCEPT !.port = p])
    BY <1>0, RegistryAssumption, ZenonT(60) DEF Starting, Requests, Kinds, Commits, Points, Holds, PointsOf, Syncing, New, Idle
  <2> QED
    BY <2>1, <2>2
<1>7. CASE BeginOperation(s)
  <2>1. PICK i \in Ids : Begin(s, New("operation", "get", i))
    BY <1>7 DEF BeginOperation
  <2>2. Starting(New("operation", "get", i))
    BY <1>0, ZenonT(60) DEF Starting, Requests, Kinds, Commits, Points, Holds, PointsOf, Syncing, New, Idle
  <2> QED
    BY <2>1, <2>2
<1> QED
  BY <1>1, <1>2, <1>3, <1>4, <1>5, <1>6, <1>7 DEF Receive

-----------------------------------------------------------------------------
(* What each step does to the request in its slot, field by field, and to   *)
(* the rest; the proofs below go by these lemmas.                           *)
Fields == {"kind", "at", "id", "creds", "port", "persist", "row", "list", "answer", "n", "ids",
           "file", "met"}

Alike(p, q, changed) ==
  q = [f \in Fields |-> q[f]] /\ \A f \in Fields \ changed : q[f] = p[f]

Goes(o, changed) ==
  req' = [req EXCEPT ![o] = req'[o]] /\ Alike(req[o], req'[o], changed)

Ends(o) == req' = [req EXCEPT ![o] = Idle] /\ req'[o] = Idle

LEMMA PutRowDoes ==
  ASSUME RegistryTypeOK, NEW o \in Slots, NEW row, NEW next, PutRow(o, row, next)
  PROVE  /\ clusters' = [clusters EXCEPT ![req[o].id] = row]
         /\ UNCHANGED <<nodes, admin, sshDisk, memory, alias, begun>>
         /\ req[o].kind = "operation" => Ends(o)
         /\ req[o].kind # "operation" =>
              Goes(o, {"at", "row"}) /\ req'[o].at = next /\ req'[o].row = None
BY DEF RegistryTypeOK, PutRow, KeepRest, Requests, Goes, Ends, Alike, Fields

LEMMA PutNodeDoes ==
  ASSUME RegistryTypeOK, NEW o \in Slots, NEW m, NEW put \in BOOLEAN, NEW next, PutNode(o, m, put, next)
  PROVE  LET p == req[o]  q == req'[o] IN
         /\ nodes' = IF put /\ m # None THEN [nodes EXCEPT ![p.id][p.n] = m] ELSE nodes
         /\ UNCHANGED <<clusters, admin, sshDisk, memory, alias, begun>>
         /\ Goes(o, {"n", "at", "list"})
         /\ q.n = IF p.n = NodeCount THEN 1 ELSE p.n + 1
         /\ q.at = IF p.n = NodeCount THEN next ELSE p.at
         /\ q.list = IF p.n = NodeCount /\ next = "done" THEN NoNodes
                     ELSE [p.list EXCEPT ![p.n] = m]
<1> USE DEF RegistryTypeOK, PutNode, KeepRest
<1>1. /\ nodes' = IF put /\ m # None THEN [nodes EXCEPT ![req[o].id][req[o].n] = m] ELSE nodes
      /\ UNCHANGED <<clusters, admin, sshDisk, memory, alias, begun>>
  OBVIOUS
<1>2. Goes(o, {"n", "at", "list"})
  BY DEF Requests, Goes, Alike, Fields
<1>3. /\ req'[o].n = IF req[o].n = NodeCount THEN 1 ELSE req[o].n + 1
      /\ req'[o].at = IF req[o].n = NodeCount THEN next ELSE req[o].at
  BY DEF Requests
<1>4. req'[o].list = IF req[o].n = NodeCount /\ next = "done" THEN NoNodes
                     ELSE [req[o].list EXCEPT ![req[o].n] = m]
  BY DEF Requests
<1> QED
  BY <1>1, <1>2, <1>3, <1>4

LEMMA AllocateDoes ==
  ASSUME RegistryTypeOK, NEW o \in Slots, AllocateID(o)
  PROVE  LET p == req[o]  q == req'[o] IN
         /\ p.kind \in Commits /\ p.at = "alloc"
         /\ UNCHANGED <<store, memory, alias, begun>>
         /\ \/ Ends(o)
            \/ Goes(o, {"at", "id"}) /\ q.id \in Ids /\ q.at \in {"alloc", "row"}
<1> DEFINE p == req[o]
<1> USE DEF AllocateID, At, KeepStore, KeepRest, Go, RegistryTypeOK, Requests
<1>1. p.kind \in Commits /\ p.at = "alloc" /\ UNCHANGED <<store, memory, alias, begun>>
  OBVIOUS
<1>2. CASE clusters[p.id] = None
  BY <1>2 DEF Goes, Alike, Fields
<1>3. CASE clusters[p.id] # None /\ p.id < MaxSuffix /\ req' = [req EXCEPT ![o].id = p.id + 1]
  <2>1. p.id + 1 \in Ids
    BY <1>3, RegistryAssumption DEF Ids
  <2>2. Goes(o, {"at", "id"})
    BY <1>3 DEF Goes, Alike, Fields
  <2> QED
    BY <1>1, <1>3, <2>1, <2>2
<1>4. CASE clusters[p.id] # None /\ p.id = MaxSuffix /\ p.kind = "deploy"
  <2>1. req' = [req EXCEPT ![o] = [@ EXCEPT !.id = 0, !.at = "row"]]
    BY <1>4, RegistryAssumption
  <2>2. Goes(o, {"at", "id"})
    BY <2>1 DEF Goes, Alike, Fields
  <2> QED
    BY <1>1, <2>1, <2>2, Constants
<1>5. CASE clusters[p.id] # None /\ p.id = MaxSuffix /\ p.kind # "deploy"
  <2>1. req' = [req EXCEPT ![o] = Idle]
    BY <1>5, RegistryAssumption
  <2>2. Ends(o)
    BY <2>1 DEF Ends
  <2> QED
    BY <1>1, <2>2
<1> QED
  BY <1>1, <1>2, <1>3, <1>4, <1>5

LEMMA CommitRowDoes ==
  ASSUME RegistryTypeOK, NEW o \in Slots, CommitRow(o)
  PROVE  LET p == req[o]  q == req'[o] IN
         /\ p.kind \in Commits /\ p.at = "row"
         /\ clusters' = [clusters EXCEPT ![p.id] = p.row]
         /\ UNCHANGED <<nodes, admin, sshDisk, memory, alias, begun>>
         /\ Goes(o, {"at", "row"}) /\ q.at = "nodes" /\ q.row = None
BY PutRowDoes DEF CommitRow, At, Commits

LEMMA CommitNodeDoes ==
  ASSUME RegistryTypeOK, NEW o \in Slots, CommitNode(o)
  PROVE  LET p == req[o]  q == req'[o]  m == p.list[p.n] IN
         /\ p.kind \in Commits /\ p.at = "nodes"
         /\ nodes' = IF m # None THEN [nodes EXCEPT ![p.id][p.n] = m] ELSE nodes
         /\ UNCHANGED <<clusters, admin, sshDisk, memory, alias, begun>>
         /\ Goes(o, {"n", "at"})
         /\ q.n = IF p.n = NodeCount THEN 1 ELSE p.n + 1
         /\ q.at = IF p.n = NodeCount THEN "creds" ELSE "nodes"
<1> DEFINE p == req[o]  q == req'[o]  m == p.list[p.n]
<1>1. p.kind \in Commits /\ p.at = "nodes" /\ PutNode(o, m, TRUE, "creds")
  BY DEF CommitNode, At, NextNode
<1>2. /\ nodes' = IF m # None THEN [nodes EXCEPT ![p.id][p.n] = m] ELSE nodes
      /\ UNCHANGED <<clusters, admin, sshDisk, memory, alias, begun>>
      /\ Goes(o, {"n", "at", "list"})
      /\ q.n = IF p.n = NodeCount THEN 1 ELSE p.n + 1
      /\ q.at = IF p.n = NodeCount THEN "creds" ELSE "nodes"
      /\ q.list = [p.list EXCEPT ![p.n] = m]
  <2> HIDE DEF m
  <2>1. /\ nodes' = IF TRUE /\ m # None THEN [nodes EXCEPT ![p.id][p.n] = m] ELSE nodes
        /\ UNCHANGED <<clusters, admin, sshDisk, memory, alias, begun>>
        /\ Goes(o, {"n", "at", "list"})
    BY <1>1, PutNodeDoes
  <2>2. /\ q.n = IF p.n = NodeCount THEN 1 ELSE p.n + 1
        /\ q.at = IF p.n = NodeCount THEN "creds" ELSE p.at
        /\ q.list = IF p.n = NodeCount /\ "creds" = "done" THEN NoNodes
                     ELSE [p.list EXCEPT ![p.n] = m]
    BY <1>1, PutNodeDoes
  <2> QED
    BY <1>1, <2>1, <2>2
<1>3. q.list = p.list
  BY <1>2 DEF RegistryTypeOK, Requests, NodeLists
<1>4. Goes(o, {"n", "at"})
  BY <1>2, <1>3 DEF Goes, Alike, Fields
<1> QED
  BY <1>1, <1>2, <1>4

LEMMA CommitCredsDoes ==
  ASSUME RegistryTypeOK, NEW o \in Slots, CommitCreds(o)
  PROVE  LET p == req[o]  q == req'[o] IN
         /\ p.kind \in Commits /\ p.at = "creds"
         /\ \E c \in Creds : admin' = [admin EXCEPT ![p.id] = c]
         /\ UNCHANGED <<clusters, nodes, sshDisk, memory, alias, begun>>
         /\ Goes(o, {"at"})
         /\ \/ q.at = "view"
            \/ p.kind = "deploy" /\ q.at = "ssh"
<1>1. /\ req[o].kind \in Commits /\ req[o].at = "creds"
      /\ \E c \in Creds : admin' = [admin EXCEPT ![req[o].id] = c]
      /\ UNCHANGED <<clusters, nodes, sshDisk, memory, alias, begun>>
  BY DEF CommitCreds, At, KeepRest
<1>2. Goes(o, {"at"})
  BY SMTT(30) DEF CommitCreds, Go, RegistryTypeOK, Requests, Goes, Alike, Fields
<1>3. \/ req'[o].at = "view"
      \/ req[o].kind = "deploy" /\ req'[o].at = "ssh"
  BY DEF CommitCreds, Go, RegistryTypeOK, Requests
<1> QED
  BY <1>1, <1>2, <1>3

LEMMA SaveSshDoes ==
  ASSUME RegistryTypeOK, NEW o \in Slots, SaveSsh(o)
  PROVE  LET p == req[o]  q == req'[o] IN
         /\ \/ p.kind = "deploy" /\ p.at = "ssh"
            \/ p.kind = "sshEdit" /\ p.at = "save"
         /\ sshDisk' = [sshDisk EXCEPT ![p.id] = p.port]
         /\ UNCHANGED <<clusters, nodes, admin, memory, alias, begun>>
         /\ Goes(o, {"at", "persist"}) /\ q.at = "forget" /\ q.persist = (p.kind = "sshEdit")
<1>1. /\ \/ req[o].kind = "deploy" /\ req[o].at = "ssh"
         \/ req[o].kind = "sshEdit" /\ req[o].at = "save"
      /\ sshDisk' = [sshDisk EXCEPT ![req[o].id] = req[o].port]
      /\ UNCHANGED <<clusters, nodes, admin, memory, alias, begun>>
  BY DEF SaveSsh, At, KeepRest
<1>2. Goes(o, {"at", "persist"})
  BY DEF SaveSsh, RegistryTypeOK, Requests, Goes, Alike, Fields
<1>3. req'[o].at = "forget" /\ req'[o].persist = (req[o].kind = "sshEdit")
  BY DEF SaveSsh, RegistryTypeOK, Requests
<1> QED
  BY <1>1, <1>2, <1>3

LEMMA ForgetSshDoes ==
  ASSUME RegistryTypeOK, NEW o \in Slots, ForgetSsh(o)
  PROVE  LET p == req[o]  q == req'[o] IN
         /\ p.kind \in {"deploy", "sshEdit"} /\ p.at = "forget"
         /\ sshMemory' = [sshMemory EXCEPT ![p.id] = None]
         /\ UNCHANGED <<store, pool, alias, begun>>
         /\ Goes(o, {"at"}) /\ q.at = IF p.kind = "deploy" THEN "view" ELSE "ports"
BY DEF ForgetSsh, At, Go, KeepStore, RegistryTypeOK, Requests, Goes, Alike, Fields

LEMMA RememberSshDoes ==
  ASSUME RegistryTypeOK, NEW o \in Slots, RememberSsh(o)
  PROVE  LET p == req[o]  q == req'[o] IN
         /\ p.kind = "sshEdit" /\ p.at = "save"
         /\ sshMemory' = [sshMemory EXCEPT ![p.id] = p.port]
         /\ UNCHANGED <<store, pool, alias, begun>>
         /\ Goes(o, {"at"}) /\ q.at = "ports"
BY DEF RememberSsh, At, Go, KeepStore, RegistryTypeOK, Requests, Goes, Alike, Fields

LEMMA ReadPortDoes ==
  ASSUME RegistryTypeOK, NEW o \in Slots, ReadPort(o)
  PROVE  LET p == req[o]  q == req'[o]  m == nodes[p.id][p.n] IN
         /\ p.kind = "sshEdit" /\ p.at = "ports"
         /\ UNCHANGED <<store, memory, alias, begun>>
         /\ Goes(o, {"n", "at", "list"})
         /\ \/ /\ m = None \/ m.port = p.port
               /\ q.n = IF p.n = NodeCount THEN 1 ELSE p.n + 1
               /\ q.at = IF p.n = NodeCount THEN "done" ELSE "ports"
               /\ q.list = IF p.n = NodeCount THEN NoNodes ELSE [p.list EXCEPT ![p.n] = m]
            \/ /\ m # None /\ q.n = p.n /\ q.at = "port" /\ q.list = [p.list EXCEPT ![p.n] = m]
<1> DEFINE p == req[o]  q == req'[o]  m == nodes[p.id][p.n]
<1>1. p.kind = "sshEdit" /\ p.at = "ports"
  BY DEF ReadPort, At
<1>2. CASE m = None \/ m.port = p.port
  <2>1. PutNode(o, m, FALSE, "done")
    BY <1>2 DEF ReadPort
  <2> HIDE DEF m
  <2>2. /\ nodes' = IF FALSE /\ m # None THEN [nodes EXCEPT ![p.id][p.n] = m] ELSE nodes
        /\ UNCHANGED <<clusters, admin, sshDisk, memory, alias, begun>>
        /\ Goes(o, {"n", "at", "list"})
    BY <2>1, PutNodeDoes
  <2>3. /\ q.n = IF p.n = NodeCount THEN 1 ELSE p.n + 1
        /\ q.at = IF p.n = NodeCount THEN "done" ELSE p.at
        /\ q.list = IF p.n = NodeCount /\ "done" = "done" THEN NoNodes
                     ELSE [p.list EXCEPT ![p.n] = m]
    BY <2>1, PutNodeDoes
  <2> QED
    BY <1>1, <1>2, <2>2, <2>3 DEF store, m
<1>3. CASE ~(m = None \/ m.port = p.port)
  <2>1. /\ req' = [req EXCEPT ![o].list[p.n] = m, ![o].at = "port"]
        /\ UNCHANGED <<store, memory, alias, begun>>
    BY <1>3 DEF ReadPort, KeepStore, KeepRest
  <2>2. Goes(o, {"n", "at", "list"})
    BY <2>1 DEF RegistryTypeOK, Requests, Goes, Alike, Fields
  <2>3. q.n = p.n /\ q.at = "port" /\ q.list = [p.list EXCEPT ![p.n] = m]
    BY <2>1 DEF RegistryTypeOK, Requests
  <2> QED
    BY <1>1, <1>3, <2>1, <2>2, <2>3
<1> QED
  BY <1>2, <1>3

LEMMA WritePortDoes ==
  ASSUME RegistryTypeOK, NEW o \in Slots, WritePort(o)
  PROVE  LET p == req[o]  q == req'[o] IN
         /\ p.kind = "sshEdit" /\ p.at = "port"
         /\ nodes' = [nodes EXCEPT ![p.id][p.n] = [p.list[p.n] EXCEPT !.port = p.port]]
         /\ UNCHANGED <<clusters, admin, sshDisk, memory, alias, begun>>
         /\ Goes(o, {"n", "at", "list"}) /\ q.list = NoNodes
         /\ q.n = IF p.n = NodeCount THEN 1 ELSE p.n + 1
         /\ q.at = IF p.n = NodeCount THEN "done" ELSE "ports"
<1>1. /\ req[o].kind = "sshEdit" /\ req[o].at = "port"
      /\ nodes' = [nodes EXCEPT ![req[o].id][req[o].n] =
                     [req[o].list[req[o].n] EXCEPT !.port = req[o].port]]
      /\ UNCHANGED <<clusters, admin, sshDisk, memory, alias, begun>>
  BY DEF WritePort, At, NextNode, KeepRest
<1>2. Goes(o, {"n", "at", "list"})
  BY DEF WritePort, RegistryTypeOK, Requests, Goes, Alike, Fields
<1>3. /\ req'[o].n = IF req[o].n = NodeCount THEN 1 ELSE req[o].n + 1
      /\ req'[o].at = IF req[o].n = NodeCount THEN "done" ELSE "ports"
      /\ req'[o].list = NoNodes
  BY DEF WritePort, RegistryTypeOK, Requests
<1> QED
  BY <1>1, <1>2, <1>3

LEMMA SyncViewDoes ==
  ASSUME RegistryTypeOK, NEW o \in Slots, SyncView(o)
  PROVE  LET p == req[o]  q == req'[o]  known == {i \in Ids : clusters[i] # None} IN
         /\ p.at = "view" /\ UNCHANGED <<store, memory, alias, begun>>
         /\ Goes(o, {"at", "ids"}) /\ q.ids = known
         /\ q.at = IF known = {} THEN "publish" ELSE "entries"
<1> DEFINE known == {i \in Ids : clusters[i] # None}
<1>1. /\ req[o].at = "view" /\ UNCHANGED <<store, memory, alias, begun>>
      /\ req' = [req EXCEPT ![o].ids = known,
                            ![o].at = IF known = {} THEN "publish" ELSE "entries"]
  BY DEF SyncView, KeepStore, KeepRest
<1> HIDE DEF known
<1>2. Goes(o, {"at", "ids"})
  BY <1>1 DEF RegistryTypeOK, Requests, Goes, Alike, Fields
<1>3. req'[o].ids = known /\ req'[o].at = IF known = {} THEN "publish" ELSE "entries"
  BY <1>1 DEF RegistryTypeOK, Requests
<1> QED
  BY <1>1, <1>2, <1>3 DEF known

LEMMA SyncEntryDoes ==
  ASSUME RegistryTypeOK, NEW o \in Slots, SyncEntry(o)
  PROVE  LET p == req[o]  q == req'[o] IN
         /\ p.at = "entries" /\ UNCHANGED <<store, memory, alias, begun>>
         /\ Goes(o, {"at", "ids", "file"})
         /\ \E i \in p.ids :
              /\ q.ids = p.ids \ {i} /\ q.file = [p.file EXCEPT ![i] = admin[i]]
              /\ q.at = IF p.ids = {i} THEN "publish" ELSE "entries"
<1> DEFINE p == req[o]  q == req'[o]
<1>1. PICK i \in p.ids :
        req' = [req EXCEPT ![o].ids = @ \ {i}, ![o].file[i] = admin[i],
                           ![o].at = IF req[o].ids = {i} THEN "publish" ELSE @]
  BY DEF SyncEntry
<1>2. p.at = "entries" /\ UNCHANGED <<store, memory, alias, begun>>
  BY DEF SyncEntry, KeepStore, KeepRest
<1>3. Goes(o, {"at", "ids", "file"})
  BY <1>1 DEF RegistryTypeOK, Requests, Goes, Alike, Fields
<1>4. q.ids = p.ids \ {i} /\ q.file = [p.file EXCEPT ![i] = admin[i]]
  BY <1>1 DEF RegistryTypeOK, Requests
<1>5. q.at = IF p.ids = {i} THEN "publish" ELSE "entries"
  BY <1>1, <1>2 DEF RegistryTypeOK, Requests
<1> QED
  BY <1>2, <1>3, <1>4, <1>5

LEMMA SyncPublishDoes ==
  ASSUME RegistryTypeOK, NEW o \in Slots, SyncPublish(o)
  PROVE  LET p == req[o]  q == req'[o] IN
         /\ p.at = "publish" /\ alias' = p.file /\ UNCHANGED <<store, memory, begun>>
         /\ Goes(o, {"at", "file", "port"})
         /\ q.at = "done" /\ q.file = Idle.file /\ q.port = None
BY DEF SyncPublish, KeepStore, RegistryTypeOK, Requests, Goes, Alike, Fields

LEMMA DeleteDoes ==
  ASSUME RegistryTypeOK, NEW o \in Slots, DeleteCascade(o)
  PROVE  LET p == req[o] IN
         /\ p.kind = "delete" /\ p.at = "tx"
         /\ clusters' = [clusters EXCEPT ![p.id] = None]
         /\ nodes' = [nodes EXCEPT ![p.id] = NoNodes]
         /\ admin' = [admin EXCEPT ![p.id] = None]
         /\ sshDisk' = [sshDisk EXCEPT ![p.id] = None]
         /\ UNCHANGED <<memory, alias, begun>>
         /\ Goes(o, {"at"}) /\ req'[o].at = "drop"
BY DEF DeleteCascade, At, Go, KeepRest, RegistryTypeOK, Requests, Goes, Alike, Fields

LEMMA DropClientDoes ==
  ASSUME RegistryTypeOK, NEW o \in Slots, DropClient(o)
  PROVE  LET p == req[o] IN
         /\ p.kind \in {"delete", "credsEdit"} /\ p.at = "drop"
         /\ pool' = [pool EXCEPT ![p.id] = None]
         /\ UNCHANGED <<store, sshMemory, alias, begun>>
         /\ Goes(o, {"at"}) /\ req'[o].at = IF p.kind = "delete" THEN "view" ELSE "done"
BY DEF DropClient, At, Go, KeepStore, RegistryTypeOK, Requests, Goes, Alike, Fields

LEMMA PutCredsDoes ==
  ASSUME RegistryTypeOK, NEW o \in Slots, PutCreds(o)
  PROVE  LET p == req[o]  q == req'[o] IN
         /\ p.kind = "credsEdit" /\ p.at = "put"
         /\ UNCHANGED <<clusters, nodes, sshDisk, memory, alias, begun>>
         /\ Goes(o, {"at", "creds"}) /\ q.at = "drop"
         /\ q.creds \in Creds /\ admin' = [admin EXCEPT ![p.id] = q.creds]
<1>1. PICK c \in Creds :
        /\ admin' = [admin EXCEPT ![req[o].id] = c]
        /\ req' = [req EXCEPT ![o].at = "drop", ![o].creds = c]
  BY DEF PutCreds
<1>2. /\ req[o].kind = "credsEdit" /\ req[o].at = "put"
      /\ UNCHANGED <<clusters, nodes, sshDisk, memory, alias, begun>>
  BY DEF PutCreds, At, KeepRest
<1>3. Goes(o, {"at", "creds"}) /\ req'[o].at = "drop" /\ req'[o].creds = c
  BY <1>1 DEF RegistryTypeOK, Requests, Goes, Alike, Fields
<1> QED
  BY <1>1, <1>2, <1>3

LEMMA GetRowDoes ==
  ASSUME RegistryTypeOK, NEW o \in Slots, GetRow(o)
  PROVE  LET p == req[o]  q == req'[o] IN
         /\ p.kind \in {"operation", "refresh"} /\ p.at = "get"
         /\ UNCHANGED <<store, memory, alias, begun>>
         /\ clusters[p.id] = None => Ends(o)
         /\ clusters[p.id] # None =>
              /\ Goes(o, {"at", "row"}) /\ q.row = clusters[p.id]
              /\ q.at = IF p.kind = "refresh" THEN "load" ELSE "put"
<1>1. /\ req[o].kind \in {"operation", "refresh"} /\ req[o].at = "get"
      /\ UNCHANGED <<store, memory, alias, begun>>
  BY DEF GetRow, At, KeepStore, KeepRest
<1>2. ASSUME clusters[req[o].id] = None PROVE Ends(o)
  BY <1>2 DEF GetRow, Ends, RegistryTypeOK
<1>3. ASSUME clusters[req[o].id] # None
      PROVE  /\ Goes(o, {"at", "row"}) /\ req'[o].row = clusters[req[o].id]
             /\ req'[o].at = IF req[o].kind = "refresh" THEN "load" ELSE "put"
  BY <1>3 DEF GetRow, RegistryTypeOK, Requests, Goes, Alike, Fields
<1> QED
  BY <1>1, <1>2, <1>3

LEMMA OperationPutDoes ==
  ASSUME RegistryTypeOK, NEW o \in Slots, OperationPut(o)
  PROVE  LET p == req[o] IN
         /\ p.kind = "operation" /\ p.at = "put"
         /\ \E row \in {Flipped(p.row), Reverted(p.row), Down(p.row)} :
              clusters' = [clusters EXCEPT ![p.id] = row]
         /\ UNCHANGED <<nodes, admin, sshDisk, memory, alias, begun>>
         /\ Ends(o)
<1>1. PICK row \in {Flipped(req[o].row), Reverted(req[o].row), Down(req[o].row)} :
        PutRow(o, row, "done")
  BY DEF OperationPut
<1>2. req[o].kind = "operation" /\ req[o].at = "put"
  BY DEF OperationPut, At
<1> QED
  BY <1>1, <1>2, PutRowDoes

LEMMA OperationListDoes ==
  ASSUME RegistryTypeOK, NEW o \in Slots, OperationList(o)
  PROVE  LET p == req[o]  q == req'[o] IN
         /\ p.kind = "operation" /\ p.at = "put"
         /\ UNCHANGED <<store, memory, alias, begun>>
         /\ Goes(o, {"at", "answer", "list"})
         /\ q.at = "row" /\ q.answer \in Answers /\ q.list = nodes[p.id]
<1>1. PICK a \in Answers :
        req' = [req EXCEPT ![o].answer = a, ![o].list = nodes[req[o].id], ![o].at = "row"]
  BY DEF OperationList
<1>2. /\ req[o].kind = "operation" /\ req[o].at = "put"
      /\ UNCHANGED <<store, memory, alias, begun>>
  BY DEF OperationList, At, KeepStore, KeepRest
<1>3. Goes(o, {"at", "answer", "list"})
  BY <1>1 DEF RegistryTypeOK, Requests, Goes, Alike, Fields
<1>4. req'[o].at = "row" /\ req'[o].answer = a /\ req'[o].list = nodes[req[o].id]
  BY <1>1 DEF RegistryTypeOK, Requests
<1> QED
  BY <1>2, <1>3, <1>4

LEMMA OperationRefreshDoes ==
  ASSUME RegistryTypeOK, NEW o \in Slots, OperationRefresh(o)
  PROVE  LET p == req[o] IN
         /\ p.kind = "operation" /\ p.at = "row"
         /\ clusters' = [clusters EXCEPT ![p.id] = Refreshed(o)]
         /\ UNCHANGED <<nodes, admin, sshDisk, memory, alias, begun>>
         /\ Ends(o)
BY PutRowDoes DEF OperationRefresh, At

LEMMA LoadCredsDoes ==
  ASSUME RegistryTypeOK, NEW o \in Slots, LoadCreds(o)
  PROVE  LET p == req[o]  q == req'[o] IN
         /\ p.kind = "refresh" /\ p.at = "load"
         /\ UNCHANGED <<store, memory, alias, begun>>
         /\ Goes(o, {"at", "creds"}) /\ q.creds = admin[p.id]
         /\ q.at = IF q.creds = None THEN "down" ELSE "client"
BY DEF LoadCreds, At, KeepStore, KeepRest, RegistryTypeOK, Requests, Goes, Alike, Fields

LEMMA FindClientDoes ==
  ASSUME RegistryTypeOK, NEW o \in Slots, FindClient(o)
  PROVE  LET p == req[o]  q == req'[o] IN
         /\ p.kind = "refresh" /\ p.at = "client"
         /\ UNCHANGED <<store, memory, alias, begun>>
         /\ Goes(o, {"at", "creds"})
         /\ \/ q.at = "insert" /\ q.creds = p.creds
            \/ q.at = "call" /\ q.creds = pool[p.id]
<1>1. /\ req[o].kind = "refresh" /\ req[o].at = "client"
      /\ UNCHANGED <<store, memory, alias, begun>>
  BY DEF FindClient, At, KeepStore, KeepRest, Go
<1>2. CASE pool[req[o].id] = None
  BY <1>1, <1>2 DEF FindClient, Go, RegistryTypeOK, Requests, Goes, Alike, Fields
<1>3. CASE pool[req[o].id] # None
  BY <1>1, <1>3 DEF FindClient, RegistryTypeOK, Requests, Goes, Alike, Fields
<1> QED
  BY <1>2, <1>3

LEMMA InsertClientDoes ==
  ASSUME RegistryTypeOK, NEW o \in Slots, InsertClient(o)
  PROVE  LET p == req[o]  q == req'[o] IN
         /\ p.kind = "refresh" /\ p.at = "insert"
         /\ UNCHANGED <<store, sshMemory, alias, begun>>
         /\ Goes(o, {"at", "creds"}) /\ q.at = "call"
         /\ q.creds = IF pool[p.id] = None THEN p.creds ELSE pool[p.id]
         /\ pool' = [pool EXCEPT ![p.id] = q.creds]
<1> DEFINE c == IF pool[req[o].id] = None THEN req[o].creds ELSE pool[req[o].id]
<1>1. /\ req[o].kind = "refresh" /\ req[o].at = "insert"
      /\ UNCHANGED <<store, sshMemory, alias, begun>>
      /\ pool' = [pool EXCEPT ![req[o].id] = c]
      /\ req' = [req EXCEPT ![o].creds = c, ![o].at = "call"]
  BY DEF InsertClient, At, KeepStore
<1> HIDE DEF c
<1>2. Goes(o, {"at", "creds"}) /\ req'[o].at = "call" /\ req'[o].creds = c
  BY <1>1 DEF RegistryTypeOK, Requests, Goes, Alike, Fields
<1> QED
  BY <1>1, <1>2 DEF c

LEMMA CallServerDoes ==
  ASSUME RegistryTypeOK, NEW o \in Slots, CallServer(o)
  PROVE  LET p == req[o]  q == req'[o] IN
         /\ p.kind = "refresh" /\ p.at = "call"
         /\ UNCHANGED <<store, memory, alias, begun>>
         /\ Goes(o, {"at", "answer"}) /\ q.answer \in Answers \cup {None}
         /\ q.at = IF q.answer = None THEN "down" ELSE "list"
<1>1. PICK a \in Answers \cup {None} :
        req' = [req EXCEPT ![o].answer = a, ![o].at = IF a = None THEN "down" ELSE "list"]
  BY DEF CallServer
<1>2. req[o].kind = "refresh" /\ req[o].at = "call" /\ UNCHANGED <<store, memory, alias, begun>>
  BY DEF CallServer, At, KeepStore, KeepRest
<1>3. Goes(o, {"at", "answer"})
  BY <1>1 DEF RegistryTypeOK, Requests, Goes, Alike, Fields
<1>4. req'[o].answer = a /\ req'[o].at = IF a = None THEN "down" ELSE "list"
  BY <1>1 DEF RegistryTypeOK, Requests
<1> QED
  BY <1>2, <1>3, <1>4

LEMMA MarkUnreachableDoes ==
  ASSUME RegistryTypeOK, NEW o \in Slots, MarkUnreachable(o)
  PROVE  LET p == req[o]  q == req'[o] IN
         /\ p.kind = "refresh" /\ p.at = "down"
         /\ clusters' = [clusters EXCEPT ![p.id] = Down(p.row)]
         /\ UNCHANGED <<nodes, admin, sshDisk, memory, alias, begun>>
         /\ Goes(o, {"at", "row"}) /\ q.row = None
         /\ q.at = IF p.creds = None THEN "done" ELSE "list"
BY PutRowDoes DEF MarkUnreachable, At

LEMMA ListNodesDoes ==
  ASSUME RegistryTypeOK, NEW o \in Slots, ListNodes(o)
  PROVE  LET p == req[o]  q == req'[o] IN
         /\ p.kind = "refresh" /\ p.at = "list"
         /\ UNCHANGED <<store, memory, alias, begun>>
         /\ Goes(o, {"at", "list"}) /\ q.at = "nodes" /\ q.list = nodes[p.id]
BY DEF ListNodes, At, KeepStore, KeepRest, RegistryTypeOK, Requests, Goes, Alike, Fields

(* The row a refresh writes for a node, and the point it goes on to.        *)
NewNode(p) ==
  IF p.answer = None THEN LostNode(p.list[p.n]) ELSE MergeNode(p.list[p.n], p.answer.facts[p.n])

LEMMA RefreshNodeDoes ==
  ASSUME RegistryTypeOK, NEW o \in Slots, RefreshNode(o)
  PROVE  LET p == req[o]  q == req'[o]  m == p.list[p.n] IN
         /\ p.kind = "refresh" /\ p.at = "nodes"
         /\ \/ nodes' = [nodes EXCEPT ![p.id][p.n] = NewNode(p)] /\ NewNode(p) # None
            \/ nodes' = nodes /\ (NewNode(p) = m \/ NewNode(p) = None)
         /\ UNCHANGED <<clusters, admin, sshDisk, memory, alias, begun>>
         /\ Goes(o, {"n", "at", "list"}) /\ q.list = [p.list EXCEPT ![p.n] = NewNode(p)]
         /\ q.n = IF p.n = NodeCount THEN 1 ELSE p.n + 1
         /\ q.at = IF p.n = NodeCount THEN IF p.answer = None THEN "probe" ELSE "row"
                   ELSE "nodes"
<1> DEFINE p == req[o]  q == req'[o]
<1>1. PICK m, f : m = p.list[p.n] /\ f = NewNode(p)
  OBVIOUS
<1>2. p.kind = "refresh" /\ p.at = "nodes"
  BY DEF RefreshNode, At
<1>3. PICK put \in BOOLEAN, next \in {"probe", "row"} :
        /\ PutNode(o, f, put, next)
        /\ ~put => f = m
        /\ next = IF p.answer = None THEN "probe" ELSE "row"
  <2>1. CASE p.answer = None
    <3>1. PutNode(o, f, f # m, "probe") /\ (f # m) \in BOOLEAN
      BY <1>1, <2>1 DEF RefreshNode, NextNode, NewNode
    <3>2. PICK put \in BOOLEAN : put = (f # m)
      OBVIOUS
    <3> QED
      BY <2>1, <3>1, <3>2
  <2>2. CASE p.answer # None
    <3>1. PutNode(o, f, TRUE, "row")
      BY <1>1, <2>2 DEF RefreshNode, NextNode, NewNode
    <3> QED
      BY <2>2, <3>1
  <2> QED
    BY <2>1, <2>2
<1>4. /\ nodes' = IF put /\ f # None THEN [nodes EXCEPT ![p.id][p.n] = f] ELSE nodes
      /\ UNCHANGED <<clusters, admin, sshDisk, memory, alias, begun>>
      /\ Goes(o, {"n", "at", "list"})
      /\ q.n = IF p.n = NodeCount THEN 1 ELSE p.n + 1
      /\ q.at = IF p.n = NodeCount THEN next ELSE p.at
      /\ q.list = IF p.n = NodeCount /\ next = "done" THEN NoNodes
                  ELSE [p.list EXCEPT ![p.n] = f]
  BY <1>3, PutNodeDoes
<1>5. q.list = [p.list EXCEPT ![p.n] = f]
  BY <1>3, <1>4
<1> QED
  BY <1>1, <1>2, <1>3, <1>4, <1>5

LEMMA RefreshRowDoes ==
  ASSUME RegistryTypeOK, NEW o \in Slots, RefreshRow(o)
  PROVE  LET p == req[o]  q == req'[o] IN
         /\ p.kind = "refresh" /\ p.at = "row"
         /\ clusters' = [clusters EXCEPT ![p.id] = Refreshed(o)]
         /\ UNCHANGED <<nodes, admin, sshDisk, memory, alias, begun>>
         /\ Goes(o, {"at", "row"}) /\ q.row = None /\ q.at = "probe"
BY PutRowDoes DEF RefreshRow, At

LEMMA ProbeNodeDoes ==
  ASSUME RegistryTypeOK, NEW o \in Slots, ProbeNode(o)
  PROVE  LET p == req[o]  q == req'[o]  m == p.list[p.n] IN
         /\ p.kind \in {"refresh", "probe"} /\ p.at = "probe"
         /\ nodes' = IF m # None THEN [nodes EXCEPT ![p.id][p.n] = m] ELSE nodes
         /\ UNCHANGED <<clusters, admin, sshDisk, memory, alias, begun>>
         /\ Goes(o, {"n", "at", "list"})
         /\ q.n = IF p.n = NodeCount THEN 1 ELSE p.n + 1
         /\ q.at = IF p.n = NodeCount THEN "done" ELSE "probe"
         /\ q.list = IF p.n = NodeCount THEN NoNodes ELSE p.list
<1> DEFINE p == req[o]  q == req'[o]
<1>1. PICK m : m = p.list[p.n]
  OBVIOUS
<1>2. p.kind \in {"refresh", "probe"} /\ p.at = "probe" /\ PutNode(o, m, TRUE, "done")
  BY <1>1 DEF ProbeNode, At, NextNode
<1>3. /\ nodes' = IF TRUE /\ m # None THEN [nodes EXCEPT ![p.id][p.n] = m] ELSE nodes
      /\ UNCHANGED <<clusters, admin, sshDisk, memory, alias, begun>>
      /\ Goes(o, {"n", "at", "list"})
      /\ q.n = IF p.n = NodeCount THEN 1 ELSE p.n + 1
      /\ q.at = IF p.n = NodeCount THEN "done" ELSE p.at
      /\ q.list = IF p.n = NodeCount /\ "done" = "done" THEN NoNodes
                  ELSE [p.list EXCEPT ![p.n] = m]
  BY <1>2, PutNodeDoes
<1>4. [p.list EXCEPT ![p.n] = m] = p.list
  BY <1>1 DEF RegistryTypeOK, Requests, NodeLists
<1> QED
  BY <1>1, <1>2, <1>3, <1>4

LEMMA NoProbesDoes ==
  ASSUME RegistryTypeOK, NEW o \in Slots, NoProbes(o)
  PROVE  LET p == req[o]  q == req'[o] IN
         /\ p.kind = "refresh" /\ p.at = "probe" /\ p.n = 1
         /\ UNCHANGED <<store, memory, alias, begun>>
         /\ Goes(o, {"at", "list"}) /\ q.at = "done" /\ q.list = NoNodes
BY DEF NoProbes, At, KeepStore, KeepRest, RegistryTypeOK, Requests, Goes, Alike, Fields

LEMMA GiveUpDoes ==
  ASSUME RegistryTypeOK, NEW o \in Slots, GiveUp(o)
  PROVE  LET p == req[o]  q == req'[o] IN
         /\ UNCHANGED <<store, memory, alias, begun>> /\ Busy(o)
         /\ \/ Ends(o)
            \/ /\ p.kind = "refresh" /\ p.at \in {"nodes", "row"}
               /\ Goes(o, {"kind", "at", "n"}) /\ q.kind = "probe" /\ q.at = "probe" /\ q.n = 1
            \/ /\ p.at \in {"view", "entries", "publish"}
               /\ Goes(o, {"at", "ids", "file", "port"})
               /\ q.at = "unsynced" /\ q.ids = {} /\ q.file = Idle.file /\ q.port = None
<1> DEFINE p == req[o]
<1>1. UNCHANGED <<store, memory, alias, begun>> /\ Busy(o)
  BY DEF GiveUp, KeepStore, KeepRest, Busy, Fallible, At
<1>2. CASE req' = [req EXCEPT ![o] = Idle]
  BY <1>1, <1>2 DEF Ends, RegistryTypeOK
<1>3. CASE /\ p.kind = "refresh" /\ p.at \in {"nodes", "row"}
           /\ req' = [req EXCEPT ![o].kind = "probe", ![o].at = "probe", ![o].n = 1]
  <2>1. Goes(o, {"kind", "at", "n"})
    BY <1>3 DEF RegistryTypeOK, Requests, Goes, Alike, Fields
  <2>2. req'[o].kind = "probe" /\ req'[o].at = "probe" /\ req'[o].n = 1
    BY <1>3 DEF RegistryTypeOK, Requests
  <2> QED
    BY <1>1, <1>3, <2>1, <2>2
<1>4. CASE /\ p.at \in {"view", "entries", "publish"}
           /\ req' = [req EXCEPT ![o].at = "unsynced", ![o].ids = {}, ![o].file = Idle.file,
                                 ![o].port = None]
  <2>1. Goes(o, {"at", "ids", "file", "port"})
    BY <1>4 DEF RegistryTypeOK, Requests, Goes, Alike, Fields
  <2>2. /\ req'[o].at = "unsynced" /\ req'[o].ids = {} /\ req'[o].file = Idle.file
        /\ req'[o].port = None
    BY <1>4 DEF RegistryTypeOK, Requests
  <2> QED
    BY <1>1, <1>4, <2>1, <2>2
<1> QED
  BY <1>2, <1>3, <1>4 DEF GiveUp, At

-----------------------------------------------------------------------------
(* Types.                                                                   *)
LEMMA NodeChange ==
  ASSUME NEW m \in NodeRows \cup {None}, NEW f \in Facts \cup {None}
  PROVE  MergeNode(m, f) \in NodeRows \cup {None} /\ LostNode(m) \in NodeRows \cup {None}
BY DEF MergeNode, LostNode, NodeRows, Facts, NodeStates, DriveStates

LEMMA ListChange ==
  ASSUME NEW list \in NodeLists, NEW k \in Nodes, NEW m \in NodeRows \cup {None}
  PROVE  [list EXCEPT ![k] = m] \in NodeLists
BY DEF NodeLists

LEMMA NewNodeType ==
  ASSUME NEW p \in Requests
  PROVE  NewNode(p) \in NodeRows \cup {None}
<1>1. p.list[p.n] \in NodeRows \cup {None}
  BY DEF Requests, NodeLists
<1>2. p.answer # None => p.answer.facts[p.n] \in Facts \cup {None}
  BY RegistryAssumption DEF Requests
<1> QED
  BY <1>1, <1>2, NodeChange DEF NewNode

LEMMA Retyped ==
  ASSUME NEW p \in Requests, NEW q, NEW changed, Alike(p, q, changed),
         "kind" \in changed => q.kind \in Kinds,
         "at" \in changed => q.at \in Points,
         "id" \in changed => q.id \in Ids,
         "creds" \in changed => q.creds \in Creds \cup {None},
         "port" \in changed => q.port \in Ports \cup {None},
         "persist" \in changed => q.persist \in BOOLEAN,
         "row" \in changed => q.row \in Rows \cup {None},
         "list" \in changed => q.list \in NodeLists,
         "answer" \in changed => q.answer \in Answers \cup {None},
         "n" \in changed => q.n \in Nodes,
         "ids" \in changed => q.ids \in SUBSET Ids,
         "file" \in changed => q.file \in Files,
         "met" \notin changed
  PROVE  q \in Requests
<1>1. /\ q.kind \in Kinds /\ q.at \in Points /\ q.id \in Ids /\ q.creds \in Creds \cup {None}
      /\ q.port \in Ports \cup {None} /\ q.persist \in BOOLEAN /\ q.row \in Rows \cup {None}
  BY DEF Alike, Fields, Requests
<1>2. /\ q.list \in NodeLists /\ q.answer \in Answers \cup {None} /\ q.n \in Nodes
      /\ q.ids \in SUBSET Ids /\ q.file \in Files /\ q.met \in SUBSET Events
  BY DEF Alike, Fields, Requests
<1> QED
  BY <1>1, <1>2 DEF Alike, Fields, Requests

LEMMA RequestFields ==
  ASSUME RegistryTypeOK, NEW o \in Slots
  PROVE  LET p == req[o] IN
      /\ p \in Requests /\ Holds(p)
      /\ p.kind \in Kinds /\ p.at \in Points
      /\ p.list \in NodeLists /\ p.n \in Nodes /\ p.id \in Ids /\ p.file \in Files
      /\ p.ids \in SUBSET Ids /\ p.creds \in Creds \cup {None}
      /\ p.n # NodeCount => p.n + 1 \in Nodes
      /\ p.list[p.n] \in NodeRows \cup {None} /\ NewNode(p) \in NodeRows \cup {None}
      /\ nodes[p.id] \in NodeLists /\ nodes[p.id][p.n] \in NodeRows \cup {None}
      /\ clusters[p.id] \in Rows \cup {None}
      /\ admin[p.id] \in Creds \cup {None} /\ pool[p.id] \in Creds \cup {None}
<1> DEFINE p == req[o]
<1>1. p \in Requests /\ Holds(p)
  BY DEF RegistryTypeOK
<1>2. /\ p.kind \in Kinds /\ p.at \in Points
      /\ p.list \in NodeLists /\ p.n \in Nodes /\ p.id \in Ids /\ p.file \in Files
      /\ p.ids \in SUBSET Ids /\ p.creds \in Creds \cup {None}
  BY <1>1 DEF Requests
<1> HIDE DEF p
<1>3. nodes[p.id] \in NodeLists
  BY <1>2 DEF RegistryTypeOK
<1>4. p.list[p.n] \in NodeRows \cup {None} /\ nodes[p.id][p.n] \in NodeRows \cup {None}
  BY <1>2, <1>3 DEF NodeLists
<1>5. /\ clusters[p.id] \in Rows \cup {None}
      /\ admin[p.id] \in Creds \cup {None} /\ pool[p.id] \in Creds \cup {None}
  BY <1>2 DEF RegistryTypeOK, Files
<1>6. p.n # NodeCount => p.n + 1 \in Nodes
  BY <1>2, RegistryAssumption DEF Nodes
<1>7. NewNode(p) \in NodeRows \cup {None}
  BY <1>1, NewNodeType
<1> QED
  BY <1>1, <1>2, <1>3, <1>4, <1>5, <1>6, <1>7 DEF p

LEMMA RequestTypes ==
  ASSUME RegistryTypeOK, NEW o \in Slots, Step(o) \/ GiveUp(o)
  PROVE  req'[o] \in Requests /\ req' = [req EXCEPT ![o] = req'[o]]
<1> DEFINE p == req[o]  q == req'[o]
<1> USE Retyped, RequestFields, Constants DEF Goes, Ends, Points
<1>1. AllocateID(o) => req'[o] \in Requests /\ req' = [req EXCEPT ![o] = req'[o]]
  BY AllocateDoes
<1>2. CommitRow(o) => req'[o] \in Requests /\ req' = [req EXCEPT ![o] = req'[o]]
  BY CommitRowDoes
<1>3. ASSUME CommitNode(o) PROVE req'[o] \in Requests /\ req' = [req EXCEPT ![o] = req'[o]]
  <2>1. q.n \in Nodes /\ q.at \in Points
    BY ONLY CommitNodeDoes, RequestFields, Constants, ListChange, RegistryTypeOK, <1>3 DEF Points
  <2> QED
    BY CommitNodeDoes, <1>3, <2>1
<1>4. CommitCreds(o) => req'[o] \in Requests /\ req' = [req EXCEPT ![o] = req'[o]]
  BY CommitCredsDoes
<1>5. SaveSsh(o) => req'[o] \in Requests /\ req' = [req EXCEPT ![o] = req'[o]]
  BY SaveSshDoes
<1>6. ForgetSsh(o) => req'[o] \in Requests /\ req' = [req EXCEPT ![o] = req'[o]]
  BY ForgetSshDoes
<1>7. RememberSsh(o) => req'[o] \in Requests /\ req' = [req EXCEPT ![o] = req'[o]]
  BY RememberSshDoes
<1>8. ASSUME ReadPort(o) PROVE req'[o] \in Requests /\ req' = [req EXCEPT ![o] = req'[o]]
  <2>0. PICK list \in NodeLists : list = [p.list EXCEPT ![p.n] = nodes[p.id][p.n]]
    BY ONLY RequestFields, ListChange, RegistryTypeOK, o \in Slots
  <2>1. q.n \in Nodes /\ q.at \in Points /\ q.list \in NodeLists
    BY ONLY ReadPortDoes, RequestFields, Constants, RegistryTypeOK, <1>8, <2>0 DEF Points
  <2> QED
    BY ReadPortDoes, <1>8, <2>1
<1>9. ASSUME WritePort(o) PROVE req'[o] \in Requests /\ req' = [req EXCEPT ![o] = req'[o]]
  <2>1. q.n \in Nodes /\ q.at \in Points /\ q.list \in NodeLists
    BY ONLY WritePortDoes, RequestFields, Constants, ListChange, RegistryTypeOK, <1>9 DEF Points
  <2> QED
    BY WritePortDoes, <1>9, <2>1
<1>10. SyncView(o) => req'[o] \in Requests /\ req' = [req EXCEPT ![o] = req'[o]]
  BY SyncViewDoes
<1>11. ASSUME SyncEntry(o) PROVE req'[o] \in Requests /\ req' = [req EXCEPT ![o] = req'[o]]
  <2>1. PICK i \in p.ids : /\ q.ids = p.ids \ {i} /\ q.file = [p.file EXCEPT ![i] = admin[i]]
                         /\ q.at = IF p.ids = {i} THEN "publish" ELSE "entries"
    BY <1>11, SyncEntryDoes
  <2>2. q.file \in Files /\ q.ids \in SUBSET Ids
    BY <2>1 DEF Files, RegistryTypeOK
  <2> QED
    BY SyncEntryDoes, <1>11, <2>1, <2>2
<1>12. SyncPublish(o) => req'[o] \in Requests /\ req' = [req EXCEPT ![o] = req'[o]]
  BY SyncPublishDoes
<1>13. DeleteCascade(o) => req'[o] \in Requests /\ req' = [req EXCEPT ![o] = req'[o]]
  BY DeleteDoes
<1>14. DropClient(o) => req'[o] \in Requests /\ req' = [req EXCEPT ![o] = req'[o]]
  BY DropClientDoes
<1>15. PutCreds(o) => req'[o] \in Requests /\ req' = [req EXCEPT ![o] = req'[o]]
  BY PutCredsDoes
<1>16. GetRow(o) => req'[o] \in Requests /\ req' = [req EXCEPT ![o] = req'[o]]
  BY GetRowDoes
<1>17. OperationPut(o) => req'[o] \in Requests /\ req' = [req EXCEPT ![o] = req'[o]]
  BY OperationPutDoes
<1>18. OperationList(o) => req'[o] \in Requests /\ req' = [req EXCEPT ![o] = req'[o]]
  BY OperationListDoes
<1>19. OperationRefresh(o) => req'[o] \in Requests /\ req' = [req EXCEPT ![o] = req'[o]]
  BY OperationRefreshDoes
<1>20. LoadCreds(o) => req'[o] \in Requests /\ req' = [req EXCEPT ![o] = req'[o]]
  BY LoadCredsDoes
<1>21. FindClient(o) => req'[o] \in Requests /\ req' = [req EXCEPT ![o] = req'[o]]
  BY FindClientDoes
<1>22. InsertClient(o) => req'[o] \in Requests /\ req' = [req EXCEPT ![o] = req'[o]]
  BY InsertClientDoes
<1>23. CallServer(o) => req'[o] \in Requests /\ req' = [req EXCEPT ![o] = req'[o]]
  BY CallServerDoes
<1>24. MarkUnreachable(o) => req'[o] \in Requests /\ req' = [req EXCEPT ![o] = req'[o]]
  BY MarkUnreachableDoes
<1>25. ListNodes(o) => req'[o] \in Requests /\ req' = [req EXCEPT ![o] = req'[o]]
  BY ListNodesDoes
<1>26. ASSUME RefreshNode(o) PROVE req'[o] \in Requests /\ req' = [req EXCEPT ![o] = req'[o]]
  <2>0. PICK list \in NodeLists : list = [p.list EXCEPT ![p.n] = NewNode(p)]
    BY ONLY RequestFields, ListChange, RegistryTypeOK, o \in Slots
  <2>1. q.n \in Nodes /\ q.at \in Points /\ q.list \in NodeLists
    BY ONLY RefreshNodeDoes, RequestFields, Constants, RegistryTypeOK, <1>26, <2>0 DEF Points
  <2> QED
    BY RefreshNodeDoes, <1>26, <2>1
<1>27. RefreshRow(o) => req'[o] \in Requests /\ req' = [req EXCEPT ![o] = req'[o]]
  BY RefreshRowDoes
<1>28. ASSUME ProbeNode(o) PROVE req'[o] \in Requests /\ req' = [req EXCEPT ![o] = req'[o]]
  <2>1. q.n \in Nodes /\ q.at \in Points /\ q.list \in NodeLists
    BY ONLY ProbeNodeDoes, RequestFields, Constants, ListChange, RegistryTypeOK, <1>28 DEF Points
  <2> QED
    BY ProbeNodeDoes, <1>28, <2>1
<1>29. NoProbes(o) => req'[o] \in Requests /\ req' = [req EXCEPT ![o] = req'[o]]
  BY NoProbesDoes
<1>30. ASSUME GiveUp(o) PROVE req'[o] \in Requests /\ req' = [req EXCEPT ![o] = req'[o]]
  <2>1. CASE Ends(o)
    BY <2>1
  <2>2. CASE Goes(o, {"kind", "at", "n"}) /\ q.kind = "probe" /\ q.at = "probe" /\ q.n = 1
    BY <2>2 DEF Kinds
  <2>3. CASE /\ Goes(o, {"at", "ids", "file", "port"})
             /\ q.at = "unsynced" /\ q.ids = {} /\ q.file = Idle.file /\ q.port = None
    BY <2>3
  <2> QED
    BY ONLY <1>30, <2>1, <2>2, <2>3, GiveUpDoes, RegistryTypeOK
<1> QED
  BY <1>1, <1>2, <1>3, <1>4, <1>5, <1>6, <1>7, <1>8, <1>9, <1>10, <1>11, <1>12, <1>13, <1>14, <1>15, <1>16, <1>17, <1>18, <1>19, <1>20, <1>21, <1>22, <1>23, <1>24, <1>25, <1>26, <1>27, <1>28, <1>29, <1>30
     DEF Step, Commit, Ssh, Sync, Refresh

LEMMA Unchanged ==
  ASSUME NEW p, NEW q, NEW changed, Alike(p, q, changed)
  PROVE  /\ "kind" \notin changed => q.kind = p.kind
         /\ "id" \notin changed => q.id = p.id
         /\ "creds" \notin changed => q.creds = p.creds
         /\ "port" \notin changed => q.port = p.port
         /\ "persist" \notin changed => q.persist = p.persist
         /\ "row" \notin changed => q.row = p.row
         /\ "list" \notin changed => q.list = p.list
         /\ "answer" \notin changed => q.answer = p.answer
         /\ "n" \notin changed => q.n = p.n
         /\ "ids" \notin changed => q.ids = p.ids
         /\ "file" \notin changed => q.file = p.file
         /\ "met" \notin changed => q.met = p.met
BY DEF Alike, Fields

LEMMA HoldsKept ==
  ASSUME RegistryTypeOK, NEW o \in Slots, Step(o) \/ GiveUp(o)
  PROVE  Holds(req'[o])
<1>0. PICK p, q : p = req[o] /\ q = req'[o]
  OBVIOUS
<1>00. Holds(p) /\ Holds(Idle)
  BY <1>0, RequestFields, Constants
<1>1. ASSUME AllocateID(o) PROVE Holds(q)
  <2>1. CASE Ends(o)
    BY ONLY <1>0, <1>00, <2>1 DEF Ends
  <2>2. CASE /\ p.kind \in Commits /\ p.at = "alloc" /\ Alike(p, q, {"at", "id"})
            /\ q.at \in {"alloc", "row"}
    BY ONLY <2>2, <1>00, Unchanged DEF Holds, PointsOf, Syncing, Commits
  <2> QED
    BY <1>0, <1>1, <2>1, <2>2, AllocateDoes, RequestFields DEF Goes
<1>2. ASSUME CommitRow(o) PROVE Holds(q)
  <2>1. /\ p.kind \in Commits /\ p.at = "row"
        /\ Alike(p, q, {"at", "row"}) /\ q.at = "nodes"
    BY <1>0, <1>2, CommitRowDoes, RequestFields, Constants, RegistryAssumption DEF Goes
  <2> QED
    BY ONLY <2>1, <1>00, Unchanged DEF Holds, PointsOf, Syncing, Commits
<1>3. ASSUME CommitNode(o) PROVE Holds(q)
  <2>1. /\ p.kind \in Commits /\ p.at = "nodes" /\ Alike(p, q, {"n", "at"})
        /\ \/ q.at = "nodes"
           \/ q.at = "creds" /\ q.n = 1
    BY <1>0, <1>3, CommitNodeDoes, RequestFields, Constants, RegistryAssumption DEF Goes
  <2> QED
    BY ONLY <2>1, <1>00, Unchanged DEF Holds, PointsOf, Syncing, Commits
<1>4. ASSUME CommitCreds(o) PROVE Holds(q)
  <2>1. /\ p.kind \in Commits /\ p.at = "creds" /\ Alike(p, q, {"at"})
        /\ \/ q.at = "view"
           \/ p.kind = "deploy" /\ q.at = "ssh"
    BY <1>0, <1>4, CommitCredsDoes, RequestFields, Constants, RegistryAssumption DEF Goes
  <2> QED
    BY ONLY <2>1, <1>00, Unchanged DEF Holds, PointsOf, Syncing, Commits
<1>5. ASSUME SaveSsh(o) PROVE Holds(q)
  <2>1. /\ \/ p.kind = "deploy" /\ p.at = "ssh"
           \/ p.kind = "sshEdit" /\ p.at = "save"
        /\ Alike(p, q, {"at", "persist"}) /\ q.at = "forget"
    BY <1>0, <1>5, SaveSshDoes, RequestFields, Constants, RegistryAssumption DEF Goes
  <2> QED
    BY ONLY <2>1, <1>00, Unchanged DEF Holds, PointsOf, Syncing, Commits
<1>6. ASSUME ForgetSsh(o) PROVE Holds(q)
  <2>1. /\ p.kind \in {"deploy", "sshEdit"} /\ p.at = "forget" /\ Alike(p, q, {"at"})
        /\ q.at = IF p.kind = "deploy" THEN "view" ELSE "ports"
    BY <1>0, <1>6, ForgetSshDoes, RequestFields, Constants, RegistryAssumption DEF Goes
  <2> QED
    BY ONLY <2>1, <1>00, Unchanged DEF Holds, PointsOf, Syncing, Commits
<1>7. ASSUME RememberSsh(o) PROVE Holds(q)
  <2>1. /\ p.kind = "sshEdit" /\ p.at = "save"
        /\ Alike(p, q, {"at"}) /\ q.at = "ports"
    BY <1>0, <1>7, RememberSshDoes, RequestFields, Constants, RegistryAssumption DEF Goes
  <2> QED
    BY ONLY <2>1, <1>00, Unchanged DEF Holds, PointsOf, Syncing, Commits
<1>8. ASSUME ReadPort(o) PROVE Holds(q)
  <2>1. CASE /\ p.kind = "sshEdit" /\ p.at = "ports" /\ Alike(p, q, {"n", "at", "list"})
            /\ q.at \in {"ports", "done"} /\ (q.at = "done" => q.n = 1)
    BY ONLY <2>1, <1>00, Unchanged DEF Holds, PointsOf, Syncing, Commits
  <2>2. CASE /\ p.kind = "sshEdit" /\ p.at = "ports" /\ Alike(p, q, {"n", "at", "list"})
            /\ q.at = "port" /\ q.list[q.n] # None
    BY ONLY <2>2, <1>00, Unchanged DEF Holds, PointsOf, Syncing, Commits
  <2>3. PICK list, m : /\ m = nodes[p.id][p.n] /\ list[p.n] = m
                       /\ list = [p.list EXCEPT ![p.n] = m]
    BY <1>0, RequestFields, ListChange DEF NodeLists
  <2>4. p.kind = "sshEdit" /\ p.at = "ports" /\ Alike(p, q, {"n", "at", "list"})
    BY <1>0, <1>8, ReadPortDoes DEF Goes
  <2>5. \/ q.n = (IF p.n = NodeCount THEN 1 ELSE p.n + 1) /\ q.at = (IF p.n = NodeCount THEN "done" ELSE "ports")
        \/ m # None /\ q.n = p.n /\ q.at = "port" /\ q.list = list
    BY <1>0, <1>8, <2>3, ReadPortDoes
  <2> QED
    BY <2>1, <2>2, <2>3, <2>4, <2>5
<1>9. ASSUME WritePort(o) PROVE Holds(q)
  <2>1. /\ p.kind = "sshEdit" /\ p.at = "port" /\ Alike(p, q, {"n", "at", "list"})
        /\ \/ q.at = "ports"
           \/ q.at = "done" /\ q.n = 1
    BY <1>0, <1>9, WritePortDoes, RequestFields, Constants, RegistryAssumption DEF Goes
  <2> QED
    BY ONLY <2>1, <1>00, Unchanged DEF Holds, PointsOf, Syncing, Commits
<1>10. ASSUME SyncView(o) PROVE Holds(q)
  <2>1. /\ p.at = "view" /\ Alike(p, q, {"at", "ids"})
        /\ q.at \in {"entries", "publish"}
    BY <1>0, <1>10, SyncViewDoes, RequestFields, Constants, RegistryAssumption DEF Goes
  <2> QED
    BY ONLY <2>1, <1>00, Unchanged DEF Holds, PointsOf, Syncing, Commits
<1>11. ASSUME SyncEntry(o) PROVE Holds(q)
  <2>1. /\ p.at = "entries" /\ Alike(p, q, {"at", "ids", "file"})
        /\ q.at \in {"entries", "publish"}
    BY <1>0, <1>11, SyncEntryDoes, RequestFields, Constants, RegistryAssumption DEF Goes
  <2> QED
    BY ONLY <2>1, <1>00, Unchanged DEF Holds, PointsOf, Syncing, Commits
<1>12. ASSUME SyncPublish(o) PROVE Holds(q)
  <2>1. /\ p.at = "publish" /\ Alike(p, q, {"at", "file", "port"})
        /\ q.at = "done" /\ q.file = Idle.file
    BY <1>0, <1>12, SyncPublishDoes, RequestFields, Constants, RegistryAssumption DEF Goes
  <2> QED
    BY ONLY <2>1, <1>00, Unchanged DEF Holds, PointsOf, Syncing, Commits
<1>13. ASSUME DeleteCascade(o) PROVE Holds(q)
  <2>1. /\ p.kind = "delete" /\ p.at = "tx"
        /\ Alike(p, q, {"at"}) /\ q.at = "drop"
    BY <1>0, <1>13, DeleteDoes, RequestFields, Constants, RegistryAssumption DEF Goes
  <2> QED
    BY ONLY <2>1, <1>00, Unchanged DEF Holds, PointsOf, Syncing, Commits
<1>14. ASSUME DropClient(o) PROVE Holds(q)
  <2>1. /\ p.kind \in {"delete", "credsEdit"} /\ p.at = "drop" /\ Alike(p, q, {"at"})
        /\ q.at = IF p.kind = "delete" THEN "view" ELSE "done"
    BY <1>0, <1>14, DropClientDoes, RequestFields, Constants, RegistryAssumption DEF Goes
  <2> QED
    BY ONLY <2>1, <1>00, Unchanged DEF Holds, PointsOf, Syncing, Commits
<1>15. ASSUME PutCreds(o) PROVE Holds(q)
  <2>1. /\ p.kind = "credsEdit" /\ p.at = "put"
        /\ Alike(p, q, {"at", "creds"}) /\ q.at = "drop"
    BY <1>0, <1>15, PutCredsDoes, RequestFields, Constants, RegistryAssumption DEF Goes
  <2> QED
    BY ONLY <2>1, <1>00, Unchanged DEF Holds, PointsOf, Syncing, Commits
<1>16. ASSUME GetRow(o) PROVE Holds(q)
  <2>1. CASE Ends(o)
    BY ONLY <1>0, <1>00, <2>1 DEF Ends
  <2>2. CASE /\ p.kind = "operation" /\ p.at = "get" /\ Alike(p, q, {"at", "row"})
            /\ q.at = "put" /\ q.row # None
    BY ONLY <2>2, <1>00, Unchanged DEF Holds, PointsOf, Syncing, Commits
  <2>3. CASE /\ p.kind = "refresh" /\ p.at = "get" /\ Alike(p, q, {"at", "row"})
            /\ q.at = "load" /\ q.row # None
    BY ONLY <2>3, <1>00, Unchanged DEF Holds, PointsOf, Syncing, Commits
  <2> QED
    BY <1>0, <1>16, <2>1, <2>2, <2>3, GetRowDoes, RequestFields DEF Goes
<1>17. ASSUME OperationPut(o) PROVE Holds(q)
  BY <1>0, <1>00, <1>17, OperationPutDoes DEF Ends
<1>18. ASSUME OperationList(o) PROVE Holds(q)
  <2>1. /\ p.kind = "operation" /\ p.at = "put" /\ Alike(p, q, {"at", "answer", "list"})
        /\ q.at = "row" /\ q.answer # None
    BY <1>0, <1>18, OperationListDoes, RequestFields, Constants, RegistryAssumption DEF Goes
  <2> QED
    BY ONLY <2>1, <1>00, Unchanged DEF Holds, PointsOf, Syncing, Commits
<1>19. ASSUME OperationRefresh(o) PROVE Holds(q)
  BY <1>0, <1>00, <1>19, OperationRefreshDoes DEF Ends
<1>20. ASSUME LoadCreds(o) PROVE Holds(q)
  <2>1. /\ p.kind = "refresh" /\ p.at = "load" /\ Alike(p, q, {"at", "creds"})
        /\ \/ q.at = "down"
           \/ q.at = "client" /\ q.creds # None
    BY <1>0, <1>20, LoadCredsDoes, RequestFields, Constants, RegistryAssumption DEF Goes
  <2> QED
    BY ONLY <2>1, <1>00, Unchanged DEF Holds, PointsOf, Syncing, Commits
<1>21. ASSUME FindClient(o) PROVE Holds(q)
  <2>1. CASE /\ p.kind = "refresh" /\ p.at = "client" /\ Alike(p, q, {"at", "creds"})
            /\ q.at = "insert" /\ q.creds = p.creds
    BY ONLY <2>1, <1>00, Unchanged DEF Holds, PointsOf, Syncing, Commits
  <2>2. CASE /\ p.kind = "refresh" /\ p.at = "client" /\ Alike(p, q, {"at", "creds"})
            /\ q.at = "call"
    BY ONLY <2>2, <1>00, Unchanged DEF Holds, PointsOf, Syncing, Commits
  <2> QED
    BY <1>0, <1>21, <2>1, <2>2, FindClientDoes, RequestFields DEF Goes
<1>22. ASSUME InsertClient(o) PROVE Holds(q)
  <2>1. /\ p.kind = "refresh" /\ p.at = "insert"
        /\ Alike(p, q, {"at", "creds"}) /\ q.at = "call"
    BY <1>0, <1>22, InsertClientDoes, RequestFields, Constants, RegistryAssumption DEF Goes
  <2> QED
    BY ONLY <2>1, <1>00, Unchanged DEF Holds, PointsOf, Syncing, Commits
<1>23. ASSUME CallServer(o) PROVE Holds(q)
  <2>1. /\ p.kind = "refresh" /\ p.at = "call" /\ Alike(p, q, {"at", "answer"})
        /\ q.at = IF q.answer = None THEN "down" ELSE "list"
    BY <1>0, <1>23, CallServerDoes, RequestFields, Constants, RegistryAssumption DEF Goes
  <2> QED
    BY ONLY <2>1, <1>00, Unchanged DEF Holds, PointsOf, Syncing, Commits
<1>24. ASSUME MarkUnreachable(o) PROVE Holds(q)
  <2>1. /\ p.kind = "refresh" /\ p.at = "down"
        /\ Alike(p, q, {"at", "row"}) /\ q.at \in {"done", "list"}
    BY <1>0, <1>24, MarkUnreachableDoes, RequestFields, Constants, RegistryAssumption DEF Goes
  <2> QED
    BY ONLY <2>1, <1>00, Unchanged DEF Holds, PointsOf, Syncing, Commits
<1>25. ASSUME ListNodes(o) PROVE Holds(q)
  <2>1. /\ p.kind = "refresh" /\ p.at = "list"
        /\ Alike(p, q, {"at", "list"}) /\ q.at = "nodes"
    BY <1>0, <1>25, ListNodesDoes, RequestFields, Constants, RegistryAssumption DEF Goes
  <2> QED
    BY ONLY <2>1, <1>00, Unchanged DEF Holds, PointsOf, Syncing, Commits
<1>26. ASSUME RefreshNode(o) PROVE Holds(q)
  <2>1. /\ p.kind = "refresh" /\ p.at = "nodes" /\ Alike(p, q, {"n", "at", "list"})
        /\ \/ q.at = "nodes"
           \/ q.at = "row" /\ q.n = 1 /\ p.answer # None
           \/ q.at = "probe"
    BY <1>0, <1>26, RefreshNodeDoes, RequestFields, Constants, RegistryAssumption DEF Goes
  <2> QED
    BY ONLY <2>1, <1>00, Unchanged DEF Holds, PointsOf, Syncing, Commits
<1>27. ASSUME RefreshRow(o) PROVE Holds(q)
  <2>1. /\ p.kind = "refresh" /\ p.at = "row"
        /\ Alike(p, q, {"at", "row"}) /\ q.at = "probe"
    BY <1>0, <1>27, RefreshRowDoes, RequestFields, Constants, RegistryAssumption DEF Goes
  <2> QED
    BY ONLY <2>1, <1>00, Unchanged DEF Holds, PointsOf, Syncing, Commits
<1>28. ASSUME ProbeNode(o) PROVE Holds(q)
  <2>1. /\ p.kind \in {"refresh", "probe"} /\ p.at = "probe" /\ Alike(p, q, {"n", "at", "list"})
        /\ \/ q.at = "probe"
           \/ q.at = "done" /\ q.n = 1
    BY <1>0, <1>28, ProbeNodeDoes, RequestFields, Constants, RegistryAssumption DEF Goes
  <2> QED
    BY ONLY <2>1, <1>00, Unchanged DEF Holds, PointsOf, Syncing, Commits
<1>29. ASSUME NoProbes(o) PROVE Holds(q)
  <2>1. /\ p.kind = "refresh" /\ p.at = "probe" /\ p.n = 1
        /\ Alike(p, q, {"at", "list"}) /\ q.at = "done"
    BY <1>0, <1>29, NoProbesDoes, RequestFields, Constants, RegistryAssumption DEF Goes
  <2> QED
    BY ONLY <2>1, <1>00, Unchanged DEF Holds, PointsOf, Syncing, Commits
<1>30. ASSUME GiveUp(o) PROVE Holds(q)
  <2>1. CASE Ends(o)
    BY ONLY <1>0, <1>00, <2>1 DEF Ends
  <2>2. CASE /\ p.kind = "refresh" /\ p.at \in {"nodes", "row"} /\ Alike(p, q, {"kind", "at", "n"})
            /\ q.kind = "probe" /\ q.at = "probe" /\ q.n = 1
    BY ONLY <2>2, <1>00, Unchanged DEF Holds, PointsOf, Syncing, Commits
  <2>3. CASE /\ p.at \in {"view", "entries", "publish"} /\ Alike(p, q, {"at", "ids", "file", "port"})
            /\ q.at = "unsynced" /\ q.file = Idle.file
    BY ONLY <2>3, <1>00, Unchanged DEF Holds, PointsOf, Syncing, Commits
  <2> QED
    BY <1>0, <1>30, <2>1, <2>2, <2>3, GiveUpDoes, RequestFields DEF Goes
<1> QED
  BY <1>0, <1>1, <1>2, <1>3, <1>4, <1>5, <1>6, <1>7, <1>8, <1>9, <1>10, <1>11, <1>12, <1>13, <1>14, <1>15, <1>16, <1>17, <1>18, <1>19, <1>20, <1>21, <1>22, <1>23, <1>24, <1>25, <1>26, <1>27, <1>28, <1>29, <1>30
     DEF Step, Commit, Ssh, Sync, Refresh

StoreTypes ==
  /\ clusters \in [Ids -> Rows \cup {None}]
  /\ nodes \in [Ids -> NodeLists]
  /\ admin \in Files /\ pool \in Files
  /\ sshDisk \in [Ids -> Ports \cup {None}] /\ sshMemory \in [Ids -> Ports \cup {None}]
  /\ alias \in Files
  /\ begun \in 0..MaxEvents

LEMMA RowTypes ==
  ASSUME NEW row \in Rows
  PROVE  Flipped(row) \in Rows /\ Reverted(row) \in Rows /\ Down(row) \in Rows
BY DEF Flipped, Reverted, Down, Rows, Engines, Healths

LEMMA RefreshedType ==
  ASSUME NEW o \in Slots, req[o].row \in Rows, req[o].answer \in Answers
  PROVE  Refreshed(o) \in Rows
BY HealthType, RegistryAssumption DEF Refreshed, Rows

LEMMA NodesType ==
  ASSUME StoreTypes, NEW i \in Ids, NEW k \in Nodes, NEW m \in NodeRows \cup {None}
  PROVE  [nodes EXCEPT ![i][k] = m] \in [Ids -> NodeLists]
<1>1. [nodes[i] EXCEPT ![k] = m] \in NodeLists
  BY ListChange DEF StoreTypes
<1> QED
  BY <1>1 DEF StoreTypes

LEMMA StoreTypesKept ==
  ASSUME RegistryTypeOK, NEW o \in Slots, Step(o) \/ GiveUp(o)
  PROVE  StoreTypes'
<1>0. PICK p : p = req[o]
  OBVIOUS
<1>00. /\ p \in Requests /\ p.id \in Ids /\ p.n \in Nodes /\ p.list[p.n] \in NodeRows \cup {None}
       /\ p.row \in Rows \cup {None} /\ p.port \in Ports \cup {None} /\ p.file \in Files
       /\ p.answer \in Answers \cup {None} /\ p.creds \in Creds \cup {None}
       /\ NewNode(p) \in NodeRows \cup {None} /\ Holds(p)
  BY <1>0, RequestFields DEF Requests
<1>000. StoreTypes
  BY DEF RegistryTypeOK, StoreTypes
<1>1. ASSUME AllocateID(o) PROVE StoreTypes'
  BY <1>1, <1>000, AllocateDoes DEF store, memory, StoreTypes
<1>2. ASSUME CommitRow(o) PROVE StoreTypes'
  <2>1. p.row \in Rows
    BY <1>0, <1>00, <1>2, CommitRowDoes DEF Holds
  <2> QED
    BY <1>0, <1>00, <1>000, <1>2, <2>1, CommitRowDoes DEF memory, StoreTypes
<1>3. ASSUME CommitNode(o) PROVE StoreTypes'
  <2>1. nodes' \in [Ids -> NodeLists]
    <3>1. [nodes EXCEPT ![p.id][p.n] = p.list[p.n]] \in [Ids -> NodeLists]
      BY <1>00, <1>000, NodesType
    <3> QED
      BY <1>0, <1>000, <1>3, <3>1, CommitNodeDoes DEF StoreTypes
  <2> QED
    BY <1>000, <1>3, <2>1, CommitNodeDoes DEF memory, StoreTypes
<1>4. ASSUME CommitCreds(o) PROVE StoreTypes'
  BY <1>0, <1>00, <1>000, <1>4, CommitCredsDoes, Constants DEF store, memory, StoreTypes, Files
<1>5. ASSUME SaveSsh(o) PROVE StoreTypes'
  BY <1>0, <1>00, <1>000, <1>5, SaveSshDoes, Constants DEF store, memory, StoreTypes, Files
<1>6. ASSUME ForgetSsh(o) PROVE StoreTypes'
  BY <1>0, <1>00, <1>000, <1>6, ForgetSshDoes, Constants DEF store, memory, StoreTypes, Files
<1>7. ASSUME RememberSsh(o) PROVE StoreTypes'
  BY <1>0, <1>00, <1>000, <1>7, RememberSshDoes, Constants DEF store, memory, StoreTypes, Files
<1>8. ASSUME ReadPort(o) PROVE StoreTypes'
  BY <1>8, <1>000, ReadPortDoes DEF store, memory, StoreTypes
<1>9. ASSUME WritePort(o) PROVE StoreTypes'
  <2>1. p.list[p.n] \in NodeRows
    BY <1>0, <1>00, <1>9, WritePortDoes DEF Holds
  <2>2. [p.list[p.n] EXCEPT !.port = p.port] \in NodeRows
    BY <1>00, <2>1 DEF NodeRows
  <2>3. nodes' \in [Ids -> NodeLists]
    <3>1. [nodes EXCEPT ![p.id][p.n] = [p.list[p.n] EXCEPT !.port = p.port]]
            \in [Ids -> NodeLists]
      BY <1>00, <1>000, <2>2, NodesType
    <3> QED
      BY <1>0, <1>9, <3>1, WritePortDoes
  <2> QED
    BY <1>000, <1>9, <2>3, WritePortDoes DEF memory, StoreTypes
<1>10. ASSUME SyncView(o) PROVE StoreTypes'
  BY <1>10, <1>000, SyncViewDoes DEF store, memory, StoreTypes
<1>11. ASSUME SyncEntry(o) PROVE StoreTypes'
  BY <1>11, <1>000, SyncEntryDoes DEF store, memory, StoreTypes
<1>12. ASSUME SyncPublish(o) PROVE StoreTypes'
  BY <1>0, <1>00, <1>000, <1>12, SyncPublishDoes, Constants DEF store, memory, StoreTypes, Files
<1>13. ASSUME DeleteCascade(o) PROVE StoreTypes'
  BY <1>0, <1>00, <1>000, <1>13, DeleteDoes, Constants DEF store, memory, StoreTypes, Files
<1>14. ASSUME DropClient(o) PROVE StoreTypes'
  BY <1>0, <1>00, <1>000, <1>14, DropClientDoes, Constants DEF store, memory, StoreTypes, Files
<1>15. ASSUME PutCreds(o) PROVE StoreTypes'
  BY <1>0, <1>00, <1>000, <1>15, PutCredsDoes, Constants DEF store, memory, StoreTypes, Files
<1>16. ASSUME GetRow(o) PROVE StoreTypes'
  BY <1>16, <1>000, GetRowDoes DEF store, memory, StoreTypes
<1>17. ASSUME OperationPut(o) PROVE StoreTypes'
  <2>1. p.row \in Rows
    BY <1>0, <1>00, <1>17, OperationPutDoes DEF Holds
  <2>2. \E row \in Rows : clusters' = [clusters EXCEPT ![p.id] = row]
    BY <1>0, <1>17, <2>1, OperationPutDoes, RowTypes
  <2> QED
    BY <1>0, <1>00, <1>000, <1>17, <2>2, OperationPutDoes DEF memory, StoreTypes
<1>18. ASSUME OperationList(o) PROVE StoreTypes'
  BY <1>18, <1>000, OperationListDoes DEF store, memory, StoreTypes
<1>19. ASSUME OperationRefresh(o) PROVE StoreTypes'
  <2>1. p.row \in Rows /\ p.answer \in Answers
    BY <1>0, <1>00, <1>19, OperationRefreshDoes DEF Holds
  <2>2. Refreshed(o) \in Rows
    BY <1>0, <2>1, RefreshedType
  <2> QED
    BY <1>0, <1>00, <1>000, <1>19, <2>2, OperationRefreshDoes DEF memory, StoreTypes
<1>20. ASSUME LoadCreds(o) PROVE StoreTypes'
  BY <1>20, <1>000, LoadCredsDoes DEF store, memory, StoreTypes
<1>21. ASSUME FindClient(o) PROVE StoreTypes'
  BY <1>21, <1>000, FindClientDoes DEF store, memory, StoreTypes
<1>22. ASSUME InsertClient(o) PROVE StoreTypes'
  BY <1>0, <1>00, <1>000, <1>22, InsertClientDoes, Constants DEF store, memory, StoreTypes, Files
<1>23. ASSUME CallServer(o) PROVE StoreTypes'
  BY <1>23, <1>000, CallServerDoes DEF store, memory, StoreTypes
<1>24. ASSUME MarkUnreachable(o) PROVE StoreTypes'
  <2>1. p.row \in Rows
    BY <1>0, <1>00, <1>24, MarkUnreachableDoes DEF Holds
  <2>2. Down(p.row) \in Rows
    BY <2>1, RowTypes
  <2> QED
    BY <1>0, <1>00, <1>000, <1>24, <2>2, MarkUnreachableDoes DEF memory, StoreTypes
<1>25. ASSUME ListNodes(o) PROVE StoreTypes'
  BY <1>25, <1>000, ListNodesDoes DEF store, memory, StoreTypes
<1>26. ASSUME RefreshNode(o) PROVE StoreTypes'
  <2>1. nodes' \in [Ids -> NodeLists]
    <3>1. [nodes EXCEPT ![p.id][p.n] = NewNode(p)] \in [Ids -> NodeLists]
      BY <1>00, <1>000, NodesType
    <3> QED
      BY <1>0, <1>000, <1>26, <3>1, RefreshNodeDoes DEF StoreTypes
  <2> QED
    BY <1>000, <1>26, <2>1, RefreshNodeDoes DEF memory, StoreTypes
<1>27. ASSUME RefreshRow(o) PROVE StoreTypes'
  <2>1. p.row \in Rows /\ p.answer \in Answers
    BY <1>0, <1>00, <1>27, RefreshRowDoes DEF Holds
  <2>2. Refreshed(o) \in Rows
    BY <1>0, <2>1, RefreshedType
  <2> QED
    BY <1>0, <1>00, <1>000, <1>27, <2>2, RefreshRowDoes DEF memory, StoreTypes
<1>28. ASSUME ProbeNode(o) PROVE StoreTypes'
  <2>1. nodes' \in [Ids -> NodeLists]
    <3>1. [nodes EXCEPT ![p.id][p.n] = p.list[p.n]] \in [Ids -> NodeLists]
      BY <1>00, <1>000, NodesType
    <3> QED
      BY <1>0, <1>000, <1>28, <3>1, ProbeNodeDoes DEF StoreTypes
  <2> QED
    BY <1>000, <1>28, <2>1, ProbeNodeDoes DEF memory, StoreTypes
<1>29. ASSUME NoProbes(o) PROVE StoreTypes'
  BY <1>29, <1>000, NoProbesDoes DEF store, memory, StoreTypes
<1>30. ASSUME GiveUp(o) PROVE StoreTypes'
  BY <1>30, <1>000, GiveUpDoes DEF store, memory, StoreTypes
<1> QED
  BY <1>1, <1>2, <1>3, <1>4, <1>5, <1>6, <1>7, <1>8, <1>9, <1>10, <1>11, <1>12, <1>13, <1>14, <1>15, <1>16, <1>17, <1>18, <1>19, <1>20, <1>21, <1>22, <1>23, <1>24, <1>25, <1>26, <1>27, <1>28, <1>29, <1>30
     DEF Step, Commit, Ssh, Sync, Refresh

(* A request begins, and what the others learn of it.                       *)
LEMMA BeginDoes ==
  ASSUME RegistryTypeOK, NEW s \in Slots, NEW q, Starting(q), Begin(s, q)
  PROVE  /\ UNCHANGED <<store, memory, alias>> /\ ~Busy(s)
         /\ Alike(q, req'[s], {"met"})
         /\ req'[s].met = {Encounter("with", req[o]) : o \in {o \in Slots \ {s} : Busy(o)}}
         /\ \A r \in Slots \ {s} :
              /\ Alike(req[r], req'[r], {"met"})
              /\ req'[r].met = req[r].met \cup
                   {Encounter(IF Busy(r) THEN "with" ELSE "after", q)}
         /\ begun' \in 0..MaxEvents
<1>1. UNCHANGED <<store, memory, alias>> /\ ~Busy(s)
  BY DEF Begin
<1>2. begun' \in 0..MaxEvents
  BY RegistryAssumption DEF Begin, RegistryTypeOK
<1>3. /\ Alike(q, req'[s], {"met"})
      /\ req'[s].met = {Encounter("with", req[o]) : o \in {o \in Slots \ {s} : Busy(o)}}
  BY DEF Begin, Starting, Requests, Alike, Fields
<1>4. ASSUME NEW r \in Slots \ {s}
      PROVE  /\ Alike(req[r], req'[r], {"met"})
             /\ req'[r].met = req[r].met \cup {Encounter(IF Busy(r) THEN "with" ELSE "after", q)}
  <2>1. req'[r] = [req[r] EXCEPT !.met = @ \cup
                                  {Encounter(IF Busy(r) THEN "with" ELSE "after", q)}]
    BY DEF Begin
  <2> QED
    BY <2>1, ZenonT(60) DEF RegistryTypeOK, Requests, Alike, Fields
<1> QED
  BY <1>1, <1>2, <1>3, <1>4

LEMMA RestartDoes ==
  ASSUME RegistryTypeOK, Restart
  PROVE  /\ UNCHANGED store /\ alias' = Listed
         /\ sshMemory' = [i \in Ids |-> None] /\ pool' = [i \in Ids |-> None]
         /\ \A r \in Slots :
              /\ Busy(r) => req'[r] = Idle
              /\ ~Busy(r) => /\ Alike(req[r], req'[r], {"met"})
                             /\ req'[r].met = req[r].met \cup {AfterRestart}
         /\ begun' \in 0..MaxEvents
<1>1. /\ UNCHANGED store /\ alias' = Listed
      /\ sshMemory' = [i \in Ids |-> None] /\ pool' = [i \in Ids |-> None]
  BY DEF Restart, KeepStore
<1>2. begun' \in 0..MaxEvents
  BY RegistryAssumption DEF Restart, RegistryTypeOK
<1>3. ASSUME NEW r \in Slots
      PROVE  /\ Busy(r) => req'[r] = Idle
             /\ ~Busy(r) => /\ Alike(req[r], req'[r], {"met"})
                            /\ req'[r].met = req[r].met \cup {AfterRestart}
  BY DEF Restart, RegistryTypeOK, Requests, Alike, Fields
<1> QED
  BY <1>1, <1>2, <1>3

LEMMA Remet ==
  ASSUME NEW p \in Requests, Holds(p), NEW q, Alike(p, q, {"met"}), q.met \in SUBSET Events
  PROVE  q \in Requests /\ Holds(q)
<1>1. q \in Requests
  BY DEF Alike, Fields, Requests
<1>2. /\ q.kind = p.kind /\ q.at = p.at /\ q.row = p.row /\ q.answer = p.answer /\ q.n = p.n
      /\ q.creds = p.creds /\ q.port = p.port /\ q.list = p.list /\ q.file = p.file
      /\ q.persist = p.persist
  BY DEF Alike, Fields
<1>3. Holds(q)
  BY ONLY <1>2, Holds(p) DEF Holds
<1> QED
  BY <1>1, <1>3

LEMMA EventTypes ==
  ASSUME NEW q \in Requests, NEW when \in {"with", "after"}
  PROVE  Encounter(when, q) \in Events /\ AfterRestart \in Events
BY DEF Encounter, AfterRestart, Events, Requests

LEMMA TypesKept ==
  ASSUME RegistryTypeOK, [Next]_vars
  PROVE  RegistryTypeOK'
<1>1. ASSUME NEW o \in Slots, Step(o) \/ GiveUp(o)
      PROVE  RegistryTypeOK'
  <2>1. req'[o] \in Requests /\ req' = [req EXCEPT ![o] = req'[o]] /\ Holds(req'[o])
    BY <1>1, RequestTypes, HoldsKept
  <2>2. req' \in [Slots -> Requests] /\ \A r \in Slots : Holds(req'[r])
    BY <2>1 DEF RegistryTypeOK
  <2>3. StoreTypes'
    BY <1>1, StoreTypesKept
  <2> QED
    BY <2>2, <2>3 DEF RegistryTypeOK, StoreTypes
<1>2. ASSUME NEW s \in Slots, Receive(s)
      PROVE  RegistryTypeOK'
  <2>1. PICK q : Starting(q) /\ Begin(s, q)
    BY <1>2, Received
  <2>2. \A r \in Slots : req[r] \in Requests /\ Holds(req[r]) /\ req[r].met \in SUBSET Events
    BY DEF RegistryTypeOK, Requests
  <2>3. q \in Requests /\ Holds(q)
    BY <2>1 DEF Starting
  <2>4. req'[s] \in Requests /\ Holds(req'[s])
    <3>1. req'[s].met \in SUBSET Events
      BY <2>1, <2>2, EventTypes, BeginDoes
    <3> QED
      BY <2>1, <2>3, <3>1, BeginDoes, Remet
  <2>5. ASSUME NEW r \in Slots \ {s} PROVE req'[r] \in Requests /\ Holds(req'[r])
    <3>1. req'[r].met \in SUBSET Events
      BY <2>1, <2>2, <2>3, EventTypes, BeginDoes
    <3> QED
      BY <2>1, <2>2, <3>1, BeginDoes, Remet
  <2>6. req' \in [Slots -> Requests] /\ \A r \in Slots : Holds(req'[r])
    <3>1. \A r \in Slots : req'[r] \in Requests /\ Holds(req'[r])
      BY <2>4, <2>5
    <3>2. req' = [r \in Slots |-> req'[r]]
      BY <2>1 DEF Begin
    <3> QED
      BY <3>1, <3>2
  <2> QED
    BY <2>1, <2>6, BeginDoes DEF RegistryTypeOK, store, memory
<1>3. CASE Restart
  <2>1. ASSUME NEW r \in Slots PROVE req'[r] \in Requests /\ Holds(req'[r])
    <3>1. req[r] \in Requests /\ Holds(req[r]) /\ req[r].met \in SUBSET Events
      BY DEF RegistryTypeOK, Requests
    <3>2. CASE Busy(r)
      BY <1>3, <3>2, RestartDoes, Constants
    <3>3. CASE ~Busy(r)
      <4>1. req'[r].met \in SUBSET Events
        BY <1>3, <3>1, <3>3, RestartDoes, EventTypes
      <4> QED
        BY <1>3, <3>1, <3>3, <4>1, RestartDoes, Remet
    <3> QED
      BY <3>2, <3>3
  <2>2. req' \in [Slots -> Requests] /\ \A r \in Slots : Holds(req'[r])
    <3>1. req' = [r \in Slots |-> req'[r]]
      BY <1>3 DEF Restart
    <3> QED
      BY <2>1, <3>1
  <2>3. Listed \in Files
    BY DEF Listed, Files, RegistryTypeOK
  <2> QED
    BY <1>3, <2>2, <2>3, RestartDoes DEF RegistryTypeOK, store, Files
<1>4. CASE UNCHANGED vars
  BY <1>4 DEF vars, store, memory, RegistryTypeOK
<1> QED
  BY <1>1, <1>2, <1>3, <1>4 DEF Next

(* The registry's state is well-formed, and requests hold at each point what *)
(* the next one needs of them.                                              *)
THEOREM RegistryTypes == Spec => []RegistryTypeOK
<1>1. RegistryTypeOK /\ [Next]_vars => RegistryTypeOK'
  BY TypesKept
<1> QED
  BY InitialTypes, <1>1, PTL DEF Spec

-----------------------------------------------------------------------------
(* What a step leaves alone, whichever it is.                               *)
Intact(i) ==
  /\ clusters'[i] = clusters[i] /\ nodes'[i] = nodes[i] /\ admin'[i] = admin[i]
  /\ sshDisk'[i] = sshDisk[i] /\ sshMemory'[i] = sshMemory[i] /\ pool'[i] = pool[i]

Became(p, q) ==
  \/ q = Idle
  \/ /\ q.met = p.met
     /\ q.id = p.id \/ p.kind \in Commits
     /\ \/ q.kind = p.kind
        \/ p.kind = "refresh" /\ q.kind = "probe"

LEMMA TurnDoes ==
  ASSUME RegistryTypeOK, NEW o \in Slots, Step(o) \/ GiveUp(o)
  PROVE  /\ Busy(o) /\ Became(req[o], req'[o])
         /\ \A r \in Slots \ {o} : req'[r] = req[r]
<1>1. \A r \in Slots \ {o} : req'[r] = req[r]
  BY RequestTypes DEF RegistryTypeOK
<1> USE DEF Busy, Became, Goes, Ends
<1>2. AllocateID(o) => Busy(o) /\ Became(req[o], req'[o])
  BY AllocateDoes, Unchanged
<1>3. CommitRow(o) => Busy(o) /\ Became(req[o], req'[o])
  BY CommitRowDoes, Unchanged
<1>4. ASSUME CommitNode(o) PROVE Busy(o) /\ Became(req[o], req'[o])
  <2>1. req[o].at \notin {"done", "unsynced"} /\ Alike(req[o], req'[o], {"n", "at"})
    BY <1>4, CommitNodeDoes
  <2> QED
    BY ONLY <2>1, Unchanged DEF Busy, Became
<1>5. CommitCreds(o) => Busy(o) /\ Became(req[o], req'[o])
  BY CommitCredsDoes, Unchanged
<1>6. SaveSsh(o) => Busy(o) /\ Became(req[o], req'[o])
  BY SaveSshDoes, Unchanged
<1>7. ForgetSsh(o) => Busy(o) /\ Became(req[o], req'[o])
  BY ForgetSshDoes, Unchanged
<1>8. RememberSsh(o) => Busy(o) /\ Became(req[o], req'[o])
  BY RememberSshDoes, Unchanged
<1>9. ASSUME ReadPort(o) PROVE Busy(o) /\ Became(req[o], req'[o])
  <2>1. req[o].at \notin {"done", "unsynced"} /\ Alike(req[o], req'[o], {"n", "at", "list"})
    BY <1>9, ReadPortDoes
  <2> QED
    BY ONLY <2>1, Unchanged DEF Busy, Became
<1>10. ASSUME WritePort(o) PROVE Busy(o) /\ Became(req[o], req'[o])
  <2>1. req[o].at \notin {"done", "unsynced"} /\ Alike(req[o], req'[o], {"n", "at", "list"})
    BY <1>10, WritePortDoes
  <2> QED
    BY ONLY <2>1, Unchanged DEF Busy, Became
<1>11. SyncView(o) => Busy(o) /\ Became(req[o], req'[o])
  BY SyncViewDoes, Unchanged
<1>12. SyncEntry(o) => Busy(o) /\ Became(req[o], req'[o])
  BY SyncEntryDoes, Unchanged
<1>13. SyncPublish(o) => Busy(o) /\ Became(req[o], req'[o])
  BY SyncPublishDoes, Unchanged
<1>14. DeleteCascade(o) => Busy(o) /\ Became(req[o], req'[o])
  BY DeleteDoes, Unchanged
<1>15. DropClient(o) => Busy(o) /\ Became(req[o], req'[o])
  BY DropClientDoes, Unchanged
<1>16. PutCreds(o) => Busy(o) /\ Became(req[o], req'[o])
  BY PutCredsDoes, Unchanged
<1>17. GetRow(o) => Busy(o) /\ Became(req[o], req'[o])
  BY GetRowDoes, Unchanged
<1>18. OperationPut(o) => Busy(o) /\ Became(req[o], req'[o])
  BY OperationPutDoes, Unchanged
<1>19. OperationList(o) => Busy(o) /\ Became(req[o], req'[o])
  BY OperationListDoes, Unchanged
<1>20. OperationRefresh(o) => Busy(o) /\ Became(req[o], req'[o])
  BY OperationRefreshDoes, Unchanged
<1>21. LoadCreds(o) => Busy(o) /\ Became(req[o], req'[o])
  BY LoadCredsDoes, Unchanged
<1>22. FindClient(o) => Busy(o) /\ Became(req[o], req'[o])
  BY FindClientDoes, Unchanged
<1>23. InsertClient(o) => Busy(o) /\ Became(req[o], req'[o])
  BY InsertClientDoes, Unchanged
<1>24. CallServer(o) => Busy(o) /\ Became(req[o], req'[o])
  BY CallServerDoes, Unchanged
<1>25. MarkUnreachable(o) => Busy(o) /\ Became(req[o], req'[o])
  BY MarkUnreachableDoes, Unchanged
<1>26. ListNodes(o) => Busy(o) /\ Became(req[o], req'[o])
  BY ListNodesDoes, Unchanged
<1>27. ASSUME RefreshNode(o) PROVE Busy(o) /\ Became(req[o], req'[o])
  <2>1. req[o].at \notin {"done", "unsynced"} /\ Alike(req[o], req'[o], {"n", "at", "list"})
    BY <1>27, RefreshNodeDoes
  <2> QED
    BY ONLY <2>1, Unchanged DEF Busy, Became
<1>28. RefreshRow(o) => Busy(o) /\ Became(req[o], req'[o])
  BY RefreshRowDoes, Unchanged
<1>29. ASSUME ProbeNode(o) PROVE Busy(o) /\ Became(req[o], req'[o])
  <2>1. req[o].at \notin {"done", "unsynced"} /\ Alike(req[o], req'[o], {"n", "at", "list"})
    BY <1>29, ProbeNodeDoes
  <2> QED
    BY ONLY <2>1, Unchanged DEF Busy, Became
<1>30. NoProbes(o) => Busy(o) /\ Became(req[o], req'[o])
  BY NoProbesDoes, Unchanged
<1>31. GiveUp(o) => Busy(o) /\ Became(req[o], req'[o])
  BY GiveUpDoes, Unchanged
<1> QED
  BY <1>1, <1>2, <1>3, <1>4, <1>5, <1>6, <1>7, <1>8, <1>9, <1>10, <1>11, <1>12, <1>13, <1>14, <1>15, <1>16, <1>17, <1>18, <1>19, <1>20, <1>21, <1>22, <1>23, <1>24, <1>25, <1>26, <1>27, <1>28, <1>29, <1>30, <1>31
     DEF Step, Commit, Ssh, Sync, Refresh

LEMMA TurnKeeps ==
  ASSUME RegistryTypeOK, NEW o \in Slots, Step(o) \/ GiveUp(o), NEW i \in Ids, i # req[o].id
  PROVE  Intact(i)
<1> USE DEF Intact, store, memory, RegistryTypeOK, Files
<1>0. req[o].id \in Ids
  BY RequestFields
<1>1. AllocateID(o) => Intact(i)
  BY <1>0, AllocateDoes
<1>2. CommitRow(o) => Intact(i)
  BY <1>0, CommitRowDoes
<1>3. CommitNode(o) => Intact(i)
  BY <1>0, CommitNodeDoes
<1>4. CommitCreds(o) => Intact(i)
  BY <1>0, CommitCredsDoes
<1>5. SaveSsh(o) => Intact(i)
  BY <1>0, SaveSshDoes
<1>6. ForgetSsh(o) => Intact(i)
  BY <1>0, ForgetSshDoes
<1>7. RememberSsh(o) => Intact(i)
  BY <1>0, RememberSshDoes
<1>8. ReadPort(o) => Intact(i)
  BY <1>0, ReadPortDoes
<1>9. WritePort(o) => Intact(i)
  BY <1>0, WritePortDoes
<1>10. SyncView(o) => Intact(i)
  BY <1>0, SyncViewDoes
<1>11. SyncEntry(o) => Intact(i)
  BY <1>0, SyncEntryDoes
<1>12. SyncPublish(o) => Intact(i)
  BY <1>0, SyncPublishDoes
<1>13. DeleteCascade(o) => Intact(i)
  BY <1>0, DeleteDoes
<1>14. DropClient(o) => Intact(i)
  BY <1>0, DropClientDoes
<1>15. PutCreds(o) => Intact(i)
  BY <1>0, PutCredsDoes
<1>16. GetRow(o) => Intact(i)
  BY <1>0, GetRowDoes
<1>17. OperationPut(o) => Intact(i)
  BY <1>0, OperationPutDoes
<1>18. OperationList(o) => Intact(i)
  BY <1>0, OperationListDoes
<1>19. OperationRefresh(o) => Intact(i)
  BY <1>0, OperationRefreshDoes
<1>20. LoadCreds(o) => Intact(i)
  BY <1>0, LoadCredsDoes
<1>21. FindClient(o) => Intact(i)
  BY <1>0, FindClientDoes
<1>22. InsertClient(o) => Intact(i)
  BY <1>0, InsertClientDoes
<1>23. CallServer(o) => Intact(i)
  BY <1>0, CallServerDoes
<1>24. MarkUnreachable(o) => Intact(i)
  BY <1>0, MarkUnreachableDoes
<1>25. ListNodes(o) => Intact(i)
  BY <1>0, ListNodesDoes
<1>26. RefreshNode(o) => Intact(i)
  BY <1>0, RefreshNodeDoes
<1>27. RefreshRow(o) => Intact(i)
  BY <1>0, RefreshRowDoes
<1>28. ProbeNode(o) => Intact(i)
  BY <1>0, ProbeNodeDoes
<1>29. NoProbes(o) => Intact(i)
  BY <1>0, NoProbesDoes
<1>30. GiveUp(o) => Intact(i)
  BY <1>0, GiveUpDoes
<1> QED
  BY <1>1, <1>2, <1>3, <1>4, <1>5, <1>6, <1>7, <1>8, <1>9, <1>10, <1>11, <1>12, <1>13, <1>14, <1>15, <1>16, <1>17, <1>18, <1>19, <1>20, <1>21, <1>22, <1>23, <1>24, <1>25, <1>26, <1>27, <1>28, <1>29, <1>30
     DEF Step, Commit, Ssh, Sync, Refresh

(* The steps that write; and which steps the requests of each kind take.    *)
LEMMA Writers ==
  ASSUME RegistryTypeOK, NEW o \in Slots, Step(o) \/ GiveUp(o)
  PROVE  \/ UNCHANGED <<store, memory, alias>>
         \/ CommitRow(o) \/ CommitNode(o) \/ CommitCreds(o) \/ SaveSsh(o) \/ ForgetSsh(o)
         \/ RememberSsh(o) \/ WritePort(o) \/ SyncPublish(o) \/ DeleteCascade(o) \/ DropClient(o)
         \/ PutCreds(o) \/ OperationPut(o) \/ OperationRefresh(o) \/ InsertClient(o) \/ MarkUnreachable(o)
         \/ RefreshNode(o) \/ RefreshRow(o) \/ ProbeNode(o)
<1>1. ASSUME AllocateID(o) \/ ReadPort(o) \/ SyncView(o) \/ SyncEntry(o) \/ GetRow(o)
             \/ OperationList(o) \/ LoadCreds(o) \/ FindClient(o) \/ CallServer(o) \/ ListNodes(o)
             \/ NoProbes(o) \/ GiveUp(o)
      PROVE  UNCHANGED <<store, memory, alias>>
  BY <1>1, AllocateDoes, ReadPortDoes, SyncViewDoes, SyncEntryDoes, GetRowDoes, OperationListDoes,
     LoadCredsDoes, FindClientDoes, CallServerDoes, ListNodesDoes, NoProbesDoes, GiveUpDoes
<1> QED
  BY <1>1 DEF Step, Commit, Ssh, Sync, Refresh

LEMMA StepOfKind ==
  ASSUME RegistryTypeOK, NEW o \in Slots, Step(o) \/ GiveUp(o)
  PROVE  /\ req[o].kind # "none"
         /\ req[o].kind \in Commits =>
              \/ AllocateID(o) \/ CommitRow(o) \/ CommitNode(o) \/ CommitCreds(o) \/ SaveSsh(o)
              \/ ForgetSsh(o) \/ SyncView(o) \/ SyncEntry(o) \/ SyncPublish(o) \/ GiveUp(o)
         /\ req[o].kind = "delete" =>
              \/ DeleteCascade(o) \/ DropClient(o) \/ SyncView(o) \/ SyncEntry(o) \/ SyncPublish(o)
              \/ GiveUp(o)
         /\ req[o].kind = "operation" =>
              \/ GetRow(o) \/ OperationPut(o) \/ OperationList(o) \/ OperationRefresh(o) \/ GiveUp(o)
         /\ req[o].kind = "refresh" =>
              \/ GetRow(o) \/ LoadCreds(o) \/ FindClient(o) \/ InsertClient(o) \/ CallServer(o)
              \/ MarkUnreachable(o) \/ ListNodes(o) \/ RefreshNode(o) \/ RefreshRow(o) \/ ProbeNode(o)
              \/ NoProbes(o) \/ GiveUp(o)
         /\ req[o].kind = "probe" =>
              \/ ProbeNode(o) \/ GiveUp(o)
         /\ req[o].kind = "credsEdit" =>
              \/ DropClient(o) \/ PutCreds(o) \/ GiveUp(o)
         /\ req[o].kind = "sshEdit" =>
              \/ SaveSsh(o) \/ ForgetSsh(o) \/ RememberSsh(o) \/ ReadPort(o) \/ WritePort(o)
              \/ GiveUp(o)
<1>1. Holds(req[o]) /\ req[o].kind \in Kinds
  BY RequestFields
<1>2. GiveUp(o) => req[o].kind # "none"
  BY <1>1, GiveUpDoes DEF Busy, Holds, PointsOf
<1>3. AllocateID(o) => req[o].kind \in Commits
  BY AllocateDoes
<1>4. CommitRow(o) => req[o].kind \in Commits
  BY CommitRowDoes
<1>5. CommitNode(o) => req[o].kind \in Commits
  BY CommitNodeDoes
<1>6. CommitCreds(o) => req[o].kind \in Commits
  BY CommitCredsDoes
<1>7. SaveSsh(o) => req[o].kind \in {"deploy", "sshEdit"}
  BY SaveSshDoes
<1>8. ForgetSsh(o) => req[o].kind \in {"deploy", "sshEdit"}
  BY ForgetSshDoes
<1>9. RememberSsh(o) => req[o].kind \in {"sshEdit"}
  BY RememberSshDoes
<1>10. ReadPort(o) => req[o].kind \in {"sshEdit"}
  BY ReadPortDoes
<1>11. WritePort(o) => req[o].kind \in {"sshEdit"}
  BY WritePortDoes
<1>12. SyncView(o) => req[o].kind \in Commits \cup {"delete"}
  BY <1>1, SyncViewDoes DEF Holds, PointsOf, Syncing, Kinds, Commits
<1>13. SyncEntry(o) => req[o].kind \in Commits \cup {"delete"}
  BY <1>1, SyncEntryDoes DEF Holds, PointsOf, Syncing, Kinds, Commits
<1>14. SyncPublish(o) => req[o].kind \in Commits \cup {"delete"}
  BY <1>1, SyncPublishDoes DEF Holds, PointsOf, Syncing, Kinds, Commits
<1>15. DeleteCascade(o) => req[o].kind \in {"delete"}
  BY DeleteDoes
<1>16. DropClient(o) => req[o].kind \in {"delete", "credsEdit"}
  BY DropClientDoes
<1>17. PutCreds(o) => req[o].kind \in {"credsEdit"}
  BY PutCredsDoes
<1>18. GetRow(o) => req[o].kind \in {"operation", "refresh"}
  BY GetRowDoes
<1>19. OperationPut(o) => req[o].kind \in {"operation"}
  BY OperationPutDoes
<1>20. OperationList(o) => req[o].kind \in {"operation"}
  BY OperationListDoes
<1>21. OperationRefresh(o) => req[o].kind \in {"operation"}
  BY OperationRefreshDoes
<1>22. LoadCreds(o) => req[o].kind \in {"refresh"}
  BY LoadCredsDoes
<1>23. FindClient(o) => req[o].kind \in {"refresh"}
  BY FindClientDoes
<1>24. InsertClient(o) => req[o].kind \in {"refresh"}
  BY InsertClientDoes
<1>25. CallServer(o) => req[o].kind \in {"refresh"}
  BY CallServerDoes
<1>26. MarkUnreachable(o) => req[o].kind \in {"refresh"}
  BY MarkUnreachableDoes
<1>27. ListNodes(o) => req[o].kind \in {"refresh"}
  BY ListNodesDoes
<1>28. RefreshNode(o) => req[o].kind \in {"refresh"}
  BY RefreshNodeDoes
<1>29. RefreshRow(o) => req[o].kind \in {"refresh"}
  BY RefreshRowDoes
<1>30. ProbeNode(o) => req[o].kind \in {"refresh", "probe"}
  BY ProbeNodeDoes
<1>31. NoProbes(o) => req[o].kind \in {"refresh"}
  BY NoProbesDoes
<1> QED
  BY <1>2, <1>3, <1>4, <1>5, <1>6, <1>7, <1>8, <1>9, <1>10, <1>11, <1>12, <1>13, <1>14, <1>15, <1>16, <1>17, <1>18, <1>19, <1>20, <1>21, <1>22, <1>23, <1>24, <1>25, <1>26, <1>27, <1>28, <1>29, <1>30, <1>31
     DEF Step, Commit, Ssh, Sync, Refresh, Commits

-----------------------------------------------------------------------------
(* The history.                                                             *)
LEMMA MetKept ==
  ASSUME RegistryTypeOK, Met, [Next]_vars
  PROVE  Met'
<1> SUFFICES ASSUME NEW r \in Slots, NEW o \in Slots, r # o, Busy(o)', req'[r].kind # "none"
             PROVE  Known(r, o)'
  BY DEF Met
<1>0. Idle.kind = "none" /\ Idle.at = "done"
  BY DEF Idle
<1>1. ASSUME NEW s \in Slots, Step(s) \/ GiveUp(s)
      PROVE  Known(r, o)'
  <2>1. /\ Busy(s) /\ Became(req[s], req'[s])
        /\ \A t \in Slots \ {s} : req'[t] = req[t]
    BY <1>1, TurnDoes
  <2>2. CASE s = o
    <3>1. Busy(o) /\ req[r] = req'[r] /\ Known(r, o)
      BY <2>1, <2>2 DEF Met
    <3>2. \/ req'[o].id = req[o].id
          \/ req[o].kind \in Commits
      BY <1>0, <2>1, <2>2 DEF Became, Busy
    <3>3. \/ req'[o].kind = req[o].kind
          \/ req[o].kind = "refresh" /\ req'[o].kind = "probe"
      BY <1>0, <2>1, <2>2 DEF Became, Busy
    <3> QED
      BY <3>1, <3>2, <3>3 DEF Known, Busy, Commits
  <2>3. CASE s = r
    <3>1. req'[o] = req[o] /\ Busy(o) /\ req'[r].met = req[r].met
      BY <1>0, <2>1, <2>3 DEF Became, Busy
    <3>2. req[r].kind # "none"
      BY <1>1, <2>3, StepOfKind
    <3>3. Known(r, o)
      BY <3>1, <3>2 DEF Met
    <3> QED
      BY <2>1, <2>3, <3>1, <3>3 DEF Known
  <2>4. CASE s \notin {r, o}
    <3>1. req'[o] = req[o] /\ req'[r] = req[r]
      BY <2>1, <2>4
    <3> QED
      BY <3>1 DEF Known, Busy, Met
  <2> QED
    BY <2>2, <2>3, <2>4
<1>2. ASSUME NEW s \in Slots, Receive(s)
      PROVE  Known(r, o)'
  <2>1. PICK q : Starting(q) /\ Begin(s, q)
    BY <1>2, Received
  <2>2. CASE s = r
    <3>1. Alike(req[o], req'[o], {"met"})
      BY <2>1, <2>2, BeginDoes
    <3>2. req'[o].kind = req[o].kind /\ req'[o].id = req[o].id /\ req'[o].at = req[o].at
      BY <3>1 DEF Alike, Fields
    <3>3. Encounter("with", req[o]) \in req'[r].met
      BY <2>1, <2>2, <3>2, BeginDoes DEF Busy
    <3> QED
      BY <3>2, <3>3 DEF Known, Encounter
  <2>3. CASE s = o
    <3>1. Alike(q, req'[o], {"met"}) /\ Alike(req[r], req'[r], {"met"})
      BY <2>1, <2>3, BeginDoes
    <3>2. req'[o].kind = q.kind /\ req'[o].id = q.id /\ req'[r].at = req[r].at
      BY <3>1 DEF Alike, Fields
    <3>3. Encounter(IF Busy(r) THEN "with" ELSE "after", q) \in req'[r].met
      BY <2>1, <2>3, BeginDoes
    <3> QED
      BY <3>2, <3>3 DEF Known, Encounter, Busy
  <2>4. CASE s \notin {r, o}
    <3>1. Alike(req[o], req'[o], {"met"}) /\ Alike(req[r], req'[r], {"met"})
      BY <2>1, <2>4, BeginDoes
    <3>2. /\ req'[o].kind = req[o].kind /\ req'[o].id = req[o].id /\ req'[o].at = req[o].at
          /\ req'[r].kind = req[r].kind /\ req'[r].at = req[r].at
      BY <3>1 DEF Alike, Fields
    <3>3. req[r].met \subseteq req'[r].met
      BY <2>1, <2>4, BeginDoes
    <3>4. Known(r, o)
      BY <3>2 DEF Busy, Met
    <3> QED
      BY <3>2, <3>3, <3>4 DEF Known, Busy
  <2> QED
    BY <2>2, <2>3, <2>4
<1>3. CASE Restart
  <2>1. /\ Busy(o) => req'[o] = Idle
        /\ ~Busy(o) => Alike(req[o], req'[o], {"met"})
    BY <1>3, RestartDoes
  <2>2. CASE Busy(o)
    BY <1>0, <2>1, <2>2 DEF Busy
  <2>3. CASE ~Busy(o)
    BY <2>1, <2>3 DEF Busy, Alike, Fields
  <2> QED
    BY <2>2, <2>3
<1>4. CASE UNCHANGED vars
  BY <1>4 DEF vars, Known, Busy, Met
<1> QED
  BY <1>1, <1>2, <1>3, <1>4 DEF Next

(* Who works on the cluster of r was met.                                   *)
LEMMA Excluded ==
  ASSUME NEW r \in Slots, NEW o \in Slots, r # o, RegistryTypeOK, Met, Busy(o),
         req[r].kind # "none",
         NEW kinds, req[o].kind \in kinds, req[o].kind = "probe" => "refresh" \in kinds,
         req[o].id = req[r].id \/ req[o].kind \in Commits
  PROVE  Overlapped(r, kinds) \/ (~Busy(r) /\ Followed(r, kinds))
<1>1. Known(r, o)
  BY DEF Met
<1>2. PICK e \in req[r].met :
        /\ e.id = IF req[o].kind \in Commits THEN None ELSE req[o].id
        /\ e.kind = req[o].kind \/ (e.kind = "refresh" /\ req[o].kind = "probe")
        /\ Busy(r) => e.when = "with"
        /\ e.when \in {"with", "after"}
  <2>1. \A e \in req[r].met : e.when \in {"with", "after"}
    BY DEF RegistryTypeOK, Requests, Events
  <2> QED
    BY <1>1, <2>1 DEF Known
<1>3. Same(r, e) /\ e.kind \in kinds
  BY <1>2 DEF Same
<1> QED
  BY <1>2, <1>3 DEF Overlapped, Followed

(* What was met is remembered.                                              *)
LEMMA Remembered ==
  ASSUME NEW r, NEW kinds, req[r].met \subseteq req'[r].met, req'[r].id = req[r].id
  PROVE  /\ Overlapped(r, kinds) => Overlapped(r, kinds)'
         /\ Followed(r, kinds) => Followed(r, kinds)'
BY DEF Overlapped, Followed, Same

-----------------------------------------------------------------------------
(* CommitIsUsable: only a delete takes rows away.                           *)
LEMMA Survives ==
  ASSUME RegistryTypeOK, NEW o \in Slots, Step(o) \/ GiveUp(o), NEW i \in Ids,
         req[o].kind = "delete" => req[o].id # i
  PROVE  /\ clusters[i] # None => clusters'[i] # None
         /\ admin[i] # None => admin'[i] # None
         /\ \A k \in Nodes : nodes[i][k] # None => nodes'[i][k] # None
<1>0. /\ clusters \in [Ids -> Rows \cup {None}] /\ nodes \in [Ids -> NodeLists]
      /\ admin \in [Ids -> Creds \cup {None}]
      /\ None \notin Rows /\ None \notin Creds /\ None \notin NodeRows
  BY RegistryAssumption DEF RegistryTypeOK, Files
<1>1. PICK p : /\ p = req[o] /\ p.id \in Ids /\ p.n \in Nodes /\ Holds(p)
               /\ p.row \in Rows \cup {None} /\ p.answer \in Answers \cup {None}
               /\ p.list[p.n] \in NodeRows \cup {None} /\ p.port \in Ports \cup {None}
  BY RequestFields DEF Requests
<1>2. CASE CommitRow(o)
  BY <1>0, <1>1, <1>2, CommitRowDoes DEF Holds
<1>3. CASE CommitNode(o)
  <2>1. /\ clusters' = clusters /\ admin' = admin
        /\ \/ nodes' = nodes
           \/ p.list[p.n] # None /\ nodes' = [nodes EXCEPT ![p.id][p.n] = p.list[p.n]]
    BY <1>1, <1>3, CommitNodeDoes
  <2> QED
    BY <1>0, <1>1, <2>1 DEF NodeLists
<1>4. CASE CommitCreds(o)
  BY <1>0, <1>1, <1>4, CommitCredsDoes
<1>5. CASE SaveSsh(o) \/ ForgetSsh(o) \/ RememberSsh(o) \/ SyncPublish(o) \/ DropClient(o) \/ InsertClient(o)
  BY <1>5, SaveSshDoes, ForgetSshDoes, RememberSshDoes, SyncPublishDoes, DropClientDoes, InsertClientDoes
     DEF store
<1>6. CASE WritePort(o)
  <2>1. p.list[p.n] \in NodeRows
    BY <1>1, <1>6, WritePortDoes DEF Holds
  <2>2. PICK m \in NodeRows : m = [p.list[p.n] EXCEPT !.port = p.port]
    BY <1>1, <2>1 DEF NodeRows
  <2>3. clusters' = clusters /\ admin' = admin /\ nodes' = [nodes EXCEPT ![p.id][p.n] = m]
    BY <1>1, <1>6, <2>2, WritePortDoes
  <2> QED
    BY <1>0, <1>1, <2>3 DEF NodeLists
<1>7. CASE DeleteCascade(o)
  BY <1>0, <1>1, <1>7, DeleteDoes
<1>8. CASE PutCreds(o)
  BY <1>0, <1>1, <1>8, PutCredsDoes
<1>9. CASE OperationPut(o)
  <2>1. p.row \in Rows
    BY <1>1, <1>9, OperationPutDoes DEF Holds
  <2>2. nodes' = nodes /\ admin' = admin /\ \E row \in Rows : clusters' = [clusters EXCEPT ![p.id] = row]
    BY <1>1, <1>9, <2>1, OperationPutDoes, RowTypes
  <2> QED
    BY <1>0, <1>1, <2>2
<1>10. CASE OperationRefresh(o) \/ RefreshRow(o)
  <2>1. p.row \in Rows /\ p.answer \in Answers
    BY <1>1, <1>10, OperationRefreshDoes, RefreshRowDoes DEF Holds
  <2>2. Refreshed(o) \in Rows
    BY <1>1, <2>1, RefreshedType
  <2> QED
    BY <1>0, <1>1, <1>10, <2>2, OperationRefreshDoes, RefreshRowDoes
<1>11. CASE MarkUnreachable(o)
  <2>1. Down(p.row) \in Rows
    BY <1>1, <1>11, MarkUnreachableDoes, RowTypes DEF Holds
  <2> QED
    BY <1>0, <1>1, <1>11, <2>1, MarkUnreachableDoes
<1>12. CASE RefreshNode(o)
  <2>1. /\ clusters' = clusters /\ admin' = admin
        /\ \/ nodes' = nodes
           \/ NewNode(p) # None /\ nodes' = [nodes EXCEPT ![p.id][p.n] = NewNode(p)]
    BY <1>1, <1>12, RefreshNodeDoes
  <2> QED
    BY <1>0, <1>1, <2>1 DEF NodeLists
<1>13. CASE ProbeNode(o)
  <2>1. /\ clusters' = clusters /\ admin' = admin
        /\ \/ nodes' = nodes
           \/ p.list[p.n] # None /\ nodes' = [nodes EXCEPT ![p.id][p.n] = p.list[p.n]]
    BY <1>1, <1>13, ProbeNodeDoes
  <2> QED
    BY <1>0, <1>1, <2>1 DEF NodeLists
<1> QED
  BY <1>2, <1>3, <1>4, <1>5, <1>6, <1>7, <1>8, <1>9, <1>10, <1>11, <1>12, <1>13, Writers DEF store

LEMMA CommitGoesOn ==
  ASSUME RegistryTypeOK, NEW r \in Slots, req[r].kind \in Commits, CommitWrote(req[r]),
         Step(r) \/ GiveUp(r)
  PROVE  req'[r] = Idle \/ CommitWrote(req[r])'
<1>1. PICK p, q : p = req[r] /\ q = req'[r]
  OBVIOUS
<1>2. /\ p.id \in Ids /\ p.n \in Nodes /\ Holds(p) /\ p.row \in Rows \cup {None}
      /\ p.list[p.n] \in NodeRows \cup {None} /\ p.kind \in Commits /\ CommitWrote(p)
      /\ clusters \in [Ids -> Rows \cup {None}] /\ nodes \in [Ids -> NodeLists]
      /\ admin \in [Ids -> Creds \cup {None}] /\ None \notin Creds
  BY <1>1, RequestFields, RegistryAssumption DEF Requests, RegistryTypeOK, Files
<1> SUFFICES ASSUME q # Idle
             PROVE  /\ q.at \notin {"alloc", "row"} => clusters'[q.id] # None
                    /\ \A k \in Nodes :
                         q.at \notin {"alloc", "row"} /\ (q.at = "nodes" => k < q.n) /\ q.list[k] # None =>
                           nodes'[q.id][k] # None
                    /\ q.at \notin {"alloc", "row", "nodes", "creds"} => admin'[q.id] # None
  BY <1>1 DEF CommitWrote
<1>3. CASE AllocateID(r)
  BY <1>1, <1>3, AllocateDoes DEF Ends
<1>4. CASE CommitRow(r)
  <2>1. /\ clusters' = [clusters EXCEPT ![p.id] = p.row] /\ p.row # None /\ p.n = 1
        /\ Alike(p, q, {"at", "row"}) /\ q.at = "nodes"
    BY <1>1, <1>2, <1>4, CommitRowDoes DEF Goes, Holds
  <2>2. q.n = 1 /\ q.id = p.id
    BY <2>1, Unchanged
  <2> QED
    BY <1>2, <2>1, <2>2 DEF Nodes
<1>5. CASE CommitNode(r)
  <2>1. /\ clusters' = clusters /\ admin' = admin /\ p.at = "nodes" /\ Alike(p, q, {"n", "at"})
        /\ \/ nodes' = nodes /\ p.list[p.n] = None
           \/ p.list[p.n] # None /\ nodes' = [nodes EXCEPT ![p.id][p.n] = p.list[p.n]]
        /\ \/ q.at = "nodes" /\ q.n = p.n + 1
           \/ q.at = "creds" /\ p.n = NodeCount
    BY <1>1, <1>5, CommitNodeDoes DEF Goes
  <2>2. q.id = p.id /\ q.list = p.list
    BY <2>1, Unchanged
  <2>3. /\ clusters[p.id] # None
        /\ \A k \in Nodes : k < p.n /\ p.list[k] # None => nodes[p.id][k] # None
    BY <1>2, <2>1 DEF CommitWrote
  <2>4. \A k \in Nodes : (q.at = "nodes" => k < q.n) => k < p.n \/ k = p.n
    BY <1>2, <2>1, RegistryAssumption DEF Nodes
  <2> QED
    BY <1>2, <2>1, <2>2, <2>3, <2>4 DEF NodeLists
<1>6. CASE CommitCreds(r)
  <2>1. /\ clusters' = clusters /\ nodes' = nodes /\ p.at = "creds" /\ Alike(p, q, {"at"})
        /\ q.at \in {"view", "ssh"} /\ \E c \in Creds : admin' = [admin EXCEPT ![p.id] = c]
    BY <1>1, <1>6, CommitCredsDoes DEF Goes
  <2>2. q.id = p.id /\ q.list = p.list
    BY <2>1, Unchanged
  <2> QED
    BY <1>2, <2>1, <2>2 DEF CommitWrote
<1>7. CASE SaveSsh(r) \/ ForgetSsh(r) \/ SyncView(r) \/ SyncEntry(r) \/ SyncPublish(r) \/ GiveUp(r)
  <2>1. clusters' = clusters /\ nodes' = nodes /\ admin' = admin
    BY <1>7, SaveSshDoes, ForgetSshDoes, SyncViewDoes, SyncEntryDoes, SyncPublishDoes, GiveUpDoes
       DEF store
  <2>2. q.id = p.id /\ q.list = p.list /\ p.at \notin {"alloc", "row", "nodes", "creds"}
    <3>1. CASE SaveSsh(r)
      BY <1>1, <1>2, <3>1, SaveSshDoes, Unchanged DEF Goes, Commits
    <3>2. CASE ForgetSsh(r)
      BY <1>1, <3>2, ForgetSshDoes, Unchanged DEF Goes
    <3>3. CASE SyncView(r)
      BY <1>1, <3>3, SyncViewDoes, Unchanged DEF Goes
    <3>4. CASE SyncEntry(r)
      BY <1>1, <3>4, SyncEntryDoes, Unchanged DEF Goes
    <3>5. CASE SyncPublish(r)
      BY <1>1, <3>5, SyncPublishDoes, Unchanged DEF Goes
    <3>6. CASE GiveUp(r)
      <4>1. p.kind # "refresh" /\ ~Ends(r)
        BY <1>1, <1>2 DEF Ends, Commits
      <4> QED
        BY <1>1, <3>6, <4>1, GiveUpDoes, Unchanged DEF Goes
    <3> QED
      BY <1>7, <3>1, <3>2, <3>3, <3>4, <3>5, <3>6
  <2> QED
    BY <1>2, <2>1, <2>2 DEF CommitWrote
<1> QED
  BY <1>1, <1>2, <1>3, <1>4, <1>5, <1>6, <1>7, StepOfKind

LEMMA OnlyAllocate ==
  ASSUME RegistryTypeOK, NEW r \in Slots, req[r].kind \in Commits, Step(r) \/ GiveUp(r),
         req'[r] # Idle, req'[r].id # req[r].id
  PROVE  AllocateID(r)
<1>1. CASE CommitRow(r) \/ CommitNode(r) \/ CommitCreds(r) \/ SaveSsh(r) \/ ForgetSsh(r)
  <2>1. \E changed : "id" \notin changed /\ Alike(req[r], req'[r], changed)
    BY <1>1, CommitRowDoes, CommitNodeDoes, CommitCredsDoes, SaveSshDoes, ForgetSshDoes DEF Goes
  <2> QED
    BY <2>1, Unchanged
<1>2. CASE SyncView(r) \/ SyncEntry(r) \/ SyncPublish(r) \/ GiveUp(r)
  <2>1. \E changed : "id" \notin changed /\ Alike(req[r], req'[r], changed)
    BY <1>2, SyncViewDoes, SyncEntryDoes, SyncPublishDoes, GiveUpDoes DEF Goes, Ends
  <2> QED
    BY <2>1, Unchanged
<1> QED
  BY <1>1, <1>2, StepOfKind

LEMMA AlikeCommit ==
  ASSUME NEW r, Committing(r), Alike(req[r], req'[r], {"met"}), req[r].met \subseteq req'[r].met,
         UNCHANGED store
  PROVE  Committing(r)'
<1>1. PICK p, q : p = req[r] /\ q = req'[r]
  OBVIOUS
<1>2. /\ q.kind = p.kind /\ q.at = p.at /\ q.id = p.id /\ q.n = p.n /\ q.list = p.list
      /\ clusters' = clusters /\ nodes' = nodes /\ admin' = admin
  BY <1>1 DEF Alike, Fields, store
<1>3. Overlapped(r, {"delete"}) => Overlapped(r, {"delete"})'
  BY <1>1, <1>2, Remembered
<1>4. Followed(r, {"delete"}) => Followed(r, {"delete"})'
  BY <1>1, <1>2, Remembered
<1> QED
  BY <1>1, <1>2, <1>3, <1>4 DEF Committing, CommitWrote

LEMMA CommittingKept ==
  ASSUME RegistryTypeOK, Met, NEW r \in Slots, Committing(r), [Next]_vars
  PROVE  Committing(r)'
<1>0. /\ Idle.kind \notin Commits /\ \A q : Starting(q) /\ q.kind \in Commits => q.at = "alloc"
  BY DEF Idle, Commits, Starting
<1>1. ASSUME NEW o \in Slots, Step(o) \/ GiveUp(o)
      PROVE  Committing(r)'
  <2> SUFFICES ASSUME req'[r].kind \in Commits, ~Overlapped(r, {"delete"})',
                      ~Followed(r, {"delete"})'
               PROVE  CommitWrote(req[r])'
    BY DEF Committing
  <2>1. /\ Busy(o) /\ Became(req[o], req'[o])
        /\ \A t \in Slots \ {o} : req'[t] = req[t]
    BY <1>1, TurnDoes
  <2>2. CASE o = r
    <3>1. req'[r] # Idle
      BY <1>0
    <3>2. req'[r].met = req[r].met /\ req[r].kind \in Commits
      BY <2>1, <2>2, <3>1 DEF Became, Commits
    <3>3. CASE req'[r].id = req[r].id
      <4>1. CommitWrote(req[r])
        BY <3>2, <3>3, Remembered DEF Committing
      <4> QED
        BY <1>1, <2>2, <3>1, <3>2, <4>1, CommitGoesOn
    <3>4. CASE req'[r].id # req[r].id
      <4>1. AllocateID(r)
        BY <1>1, <2>2, <3>1, <3>2, <3>4, OnlyAllocate
      <4> QED
        BY <3>1, <4>1, AllocateDoes DEF Ends, CommitWrote
    <3> QED
      BY <3>3, <3>4
  <2>3. CASE o # r
    <3>1. req'[r] = req[r] /\ req[r].id \in Ids
      BY <2>1, <2>3, RequestFields
    <3>2. ~Overlapped(r, {"delete"}) /\ ~Followed(r, {"delete"})
      BY <3>1, Remembered
    <3>3. CommitWrote(req[r])
      BY <3>1, <3>2 DEF Committing
    <3>4. req[o].kind = "delete" => req[o].id # req[r].id
      BY <2>1, <2>3, <3>1, <3>2, Excluded DEF Commits
    <3> QED
      BY <1>1, <3>1, <3>3, <3>4, Survives DEF CommitWrote
  <2> QED
    BY <2>2, <2>3
<1>2. ASSUME NEW s \in Slots, Receive(s)
      PROVE  Committing(r)'
  <2>1. PICK q : Starting(q) /\ Begin(s, q)
    BY <1>2, Received
  <2>2. CASE s = r
    <3>1. Alike(q, req'[r], {"met"})
      BY <2>1, <2>2, BeginDoes
    <3>2. req'[r].kind = q.kind /\ req'[r].at = q.at
      BY <3>1 DEF Alike, Fields
    <3> QED
      BY <1>0, <2>1, <3>2 DEF Committing, CommitWrote
  <2>3. CASE s # r
    <3>1. /\ Alike(req[r], req'[r], {"met"}) /\ req[r].met \subseteq req'[r].met
          /\ UNCHANGED store
      BY <2>1, <2>3, BeginDoes
    <3> QED
      BY <3>1, AlikeCommit
  <2> QED
    BY <2>2, <2>3
<1>3. CASE Restart
  <2>1. CASE Busy(r)
    BY <1>0, <1>3, <2>1, RestartDoes DEF Committing
  <2>2. CASE ~Busy(r)
    <3>1. /\ Alike(req[r], req'[r], {"met"}) /\ req[r].met \subseteq req'[r].met
          /\ UNCHANGED store
      BY <1>3, <2>2, RestartDoes
    <3> QED
      BY <3>1, AlikeCommit
  <2> QED
    BY <2>1, <2>2
<1>4. CASE UNCHANGED vars
  <2>1. Alike(req[r], req'[r], {"met"}) /\ req[r].met \subseteq req'[r].met /\ UNCHANGED store
    BY <1>4 DEF vars, RegistryTypeOK, Requests, Alike, Fields
  <2> QED
    BY <2>1, AlikeCommit
<1> QED
  BY <1>1, <1>2, <1>3, <1>4 DEF Next

-----------------------------------------------------------------------------
(* Requests that begin, restarts, and steps that change nothing.            *)
Anew(t) ==
  \E q : Starting(q) /\ Alike(q, req'[t], {"met"})

Stays(t) == Alike(req[t], req'[t], {"met"}) /\ req[t].met \subseteq req'[t].met

Begins(t) ==
  /\ Anew(t)
  /\ \A o \in Slots \ {t} : Busy(o) => Stays(o) /\ Encounter("with", req[o]) \in req'[t].met

LEMMA Between ==
  ASSUME RegistryTypeOK, Restart \/ (\E s \in Slots : Receive(s)) \/ UNCHANGED vars
  PROVE  /\ UNCHANGED store
         /\ \A t \in Slots : req'[t] = Idle \/ Begins(t) \/ Stays(t)
         /\ \/ UNCHANGED <<memory, alias>>
            \/ /\ sshMemory' = [i \in Ids |-> None] /\ pool' = [i \in Ids |-> None]
               /\ alias' = Listed
               /\ \A t \in Slots : req'[t] = Idle \/ (Stays(t) /\ ~Busy(t) /\ AfterRestart \in req'[t].met)
<1>1. CASE Restart
  <2>1. \A t \in Slots : req'[t] = Idle \/ (Stays(t) /\ ~Busy(t) /\ AfterRestart \in req'[t].met)
    BY <1>1, RestartDoes DEF Stays
  <2> QED
    BY <1>1, <2>1, RestartDoes
<1>2. ASSUME NEW s \in Slots, Receive(s)
      PROVE  UNCHANGED <<store, memory, alias>> /\ \A t \in Slots : Begins(t) \/ Stays(t)
  <2>1. PICK q : Starting(q) /\ Begin(s, q)
    BY <1>2, Received
  <2>2. ASSUME NEW t \in Slots \ {s} PROVE Stays(t)
    BY <2>1, BeginDoes DEF Stays
  <2>3. Begins(s)
    BY <2>1, <2>2, BeginDoes DEF Begins, Anew
  <2> QED
    BY <2>1, <2>2, <2>3, BeginDoes
<1>3. CASE UNCHANGED vars
  BY <1>3 DEF vars, Stays, RegistryTypeOK, Requests, Alike, Fields
<1> QED
  BY <1>1, <1>2, <1>3

-----------------------------------------------------------------------------
(* DeleteIsFinal: a later request for the cluster finds no row.             *)
LEMMA DeleteGoesOn ==
  ASSUME RegistryTypeOK, NEW r \in Slots, req[r].kind = "delete", DeleteLeft(req[r]),
         Step(r) \/ GiveUp(r)
  PROVE  req'[r] = Idle \/ (DeleteLeft(req[r])' /\ req'[r].id = req[r].id)
<1>1. PICK p, q : p = req[r] /\ q = req'[r]
  OBVIOUS
<1>2. /\ p.id \in Ids /\ Holds(p) /\ p.kind = "delete" /\ DeleteLeft(p)
      /\ clusters \in [Ids -> Rows \cup {None}] /\ nodes \in [Ids -> NodeLists]
      /\ admin \in [Ids -> Creds \cup {None}] /\ pool \in [Ids -> Creds \cup {None}]
      /\ sshDisk \in [Ids -> Ports \cup {None}]
  BY <1>1, RequestFields DEF RegistryTypeOK, Files
<1> SUFFICES ASSUME q # Idle
             PROVE  /\ q.id = p.id
                    /\ q.at # "tx" =>
                         /\ clusters'[q.id] = None /\ nodes'[q.id] = NoNodes
                         /\ admin'[q.id] = None /\ sshDisk'[q.id] = None
                    /\ q.at \notin {"tx", "drop"} => pool'[q.id] = None
  BY <1>1 DEF DeleteLeft
<1>3. CASE DeleteCascade(r)
  BY <1>1, <1>2, <1>3, DeleteDoes, Unchanged DEF Goes, memory
<1>4. CASE DropClient(r)
  BY <1>1, <1>2, <1>4, DropClientDoes, Unchanged DEF Goes, store, DeleteLeft
<1>5. CASE SyncView(r) \/ SyncEntry(r) \/ SyncPublish(r) \/ GiveUp(r)
  <2>1. p.kind # "refresh" /\ ~Ends(r)
    BY <1>1, <1>2 DEF Ends
  <2>2. q.id = p.id
    BY <1>1, <1>5, <2>1, SyncViewDoes, SyncEntryDoes, SyncPublishDoes, GiveUpDoes, Unchanged DEF Goes
  <2>3. p.at \notin {"tx", "drop"}
    BY <1>1, <1>5, <2>1, SyncViewDoes, SyncEntryDoes, SyncPublishDoes, GiveUpDoes
  <2>4. UNCHANGED <<store, memory>>
    BY <1>5, SyncViewDoes, SyncEntryDoes, SyncPublishDoes, GiveUpDoes
  <2> QED
    BY <1>2, <2>2, <2>3, <2>4 DEF DeleteLeft, store, memory
<1> QED
  BY <1>1, <1>2, <1>3, <1>4, <1>5, StepOfKind

LEMMA EndsAtGet ==
  ASSUME RegistryTypeOK, NEW o \in Slots, Step(o) \/ GiveUp(o), req[o].at = "get",
         req[o].kind \in {"operation", "refresh"}
  PROVE  /\ UNCHANGED <<store, memory, alias>>
         /\ clusters[req[o].id] = None => Ends(o)
         /\ \/ Ends(o)
            \/ GetRow(o)
<1>1. CASE GetRow(o)
  BY <1>1, GetRowDoes
<1>2. CASE GiveUp(o)
  BY <1>2, GiveUpDoes
<1>3. CASE req[o].kind = "operation"
  BY <1>1, <1>2, <1>3, StepOfKind, OperationPutDoes, OperationListDoes, OperationRefreshDoes
<1>4. CASE req[o].kind = "refresh"
  <2>1. ~LoadCreds(o) /\ ~FindClient(o) /\ ~InsertClient(o) /\ ~CallServer(o)
    BY LoadCredsDoes, FindClientDoes, InsertClientDoes, CallServerDoes
  <2>2. ~MarkUnreachable(o) /\ ~ListNodes(o) /\ ~RefreshNode(o) /\ ~RefreshRow(o)
    BY MarkUnreachableDoes, ListNodesDoes, RefreshNodeDoes, RefreshRowDoes
  <2>3. ~ProbeNode(o) /\ ~NoProbes(o)
    BY ProbeNodeDoes, NoProbesDoes
  <2> QED
    BY <1>1, <1>2, <1>4, <2>1, <2>2, <2>3, StepOfKind
<1> QED
  BY <1>3, <1>4

LEMMA DeleteTakes ==
  ASSUME RegistryTypeOK, NEW o \in Slots, Step(o) \/ GiveUp(o), req[o].kind = "delete"
  PROVE  LET i == req[o].id IN
         /\ clusters[i] = None => clusters'[i] = None
         /\ nodes[i] = NoNodes => nodes'[i] = NoNodes
         /\ admin[i] = None => admin'[i] = None
         /\ sshDisk[i] = None => sshDisk'[i] = None
         /\ pool[i] = None => pool'[i] = None
<1>0. /\ req[o].id \in Ids
      /\ clusters \in [Ids -> Rows \cup {None}] /\ nodes \in [Ids -> NodeLists]
      /\ admin \in [Ids -> Creds \cup {None}] /\ pool \in [Ids -> Creds \cup {None}]
      /\ sshDisk \in [Ids -> Ports \cup {None}]
  BY RequestFields DEF RegistryTypeOK, Files
<1>1. CASE DeleteCascade(o)
  BY <1>0, <1>1, DeleteDoes DEF memory
<1>2. CASE DropClient(o)
  BY <1>0, <1>2, DropClientDoes DEF store
<1>3. CASE SyncView(o) \/ SyncEntry(o) \/ SyncPublish(o) \/ GiveUp(o)
  BY <1>3, SyncViewDoes, SyncEntryDoes, SyncPublishDoes, GiveUpDoes DEF store, memory
<1> QED
  BY <1>1, <1>2, <1>3, StepOfKind

LEMMA KindNames ==
  ASSUME RegistryTypeOK, NEW o \in Slots, Busy(o)
  PROVE  req[o].kind \in Commits \cup {"operation", "delete", "refresh", "probe", "credsEdit", "sshEdit"}
<1>1. Holds(req[o]) /\ req[o].kind \in Kinds
  BY RequestFields
<1> QED
  BY <1>1 DEF Kinds, Commits, Holds, PointsOf, Busy

LEMMA DeletingKept ==
  ASSUME RegistryTypeOK, Met, NEW r \in Slots, Deleting(r), [Next]_vars
  PROVE  Deleting(r)'
<1> DEFINE later == Commits \cup {"credsEdit", "sshEdit"}
<1> SUFFICES ASSUME req'[r].kind = "delete", ~Overlapped(r, Kinds)', ~Followed(r, later)'
             PROVE  /\ DeleteLeft(req[r])'
                    /\ \A o \in Slots \ {r} : Busy(o)' /\ req'[o].id = req'[r].id =>
                         /\ req'[o].kind # "probe"
                         /\ req'[o].kind \in {"operation", "refresh"} => req'[o].at = "get"
  BY DEF Deleting, Undisturbed, Others
<1> HIDE DEF later
<1>0. Idle.kind = "none" /\ Idle.at = "done" /\ later \subseteq Kinds /\ "refresh" \in Kinds
  BY DEF Idle, later, Kinds, Commits
<1>1. ASSUME NEW o \in Slots, Step(o) \/ GiveUp(o)
      PROVE  /\ DeleteLeft(req[r])'
             /\ \A t \in Slots \ {r} : Busy(t)' /\ req'[t].id = req'[r].id =>
                  /\ req'[t].kind # "probe"
                  /\ req'[t].kind \in {"operation", "refresh"} => req'[t].at = "get"
  <2>1. /\ Busy(o) /\ Became(req[o], req'[o])
        /\ \A t \in Slots \ {o} : req'[t] = req[t]
    BY <1>1, TurnDoes
  <2>2. CASE o = r
    <3>1. req'[r] # Idle
      BY <1>0
    <3>2. req'[r].met = req[r].met /\ req[r].kind = "delete" /\ req'[r].id = req[r].id
      BY <2>1, <2>2, <3>1 DEF Became, Commits
    <3>3. ~Overlapped(r, Kinds) /\ ~Followed(r, later)
      BY <3>2, Remembered
    <3>4. DeleteLeft(req[r])
      BY <3>2, <3>3 DEF Deleting, Undisturbed, later
    <3>5. ASSUME NEW t \in Slots \ {r}, Busy(t)', req'[t].id = req'[r].id
          PROVE  FALSE
      <4>1. req'[t] = req[t] /\ Busy(t) /\ req[t].kind \in Kinds
        BY <2>1, <2>2, <3>5, RequestFields DEF Busy
      <4> QED
        BY <1>0, <2>1, <2>2, <3>2, <3>3, <3>5, <4>1, Excluded
    <3> QED
      BY <1>1, <2>2, <3>1, <3>2, <3>4, <3>5, DeleteGoesOn
  <2>3. CASE o # r
    <3>1. req'[r] = req[r] /\ req[r].id \in Ids /\ req[o].kind \in Kinds
      BY <2>1, <2>3, RequestFields
    <3>2. ~Overlapped(r, Kinds) /\ ~Followed(r, later)
      BY <3>1, Remembered
    <3>3. /\ DeleteLeft(req[r])
          /\ \A t \in Slots \ {r} : Busy(t) /\ req[t].id = req[r].id =>
               /\ req[t].kind # "probe"
               /\ req[t].kind \in {"operation", "refresh"} => req[t].at = "get"
      BY <3>1, <3>2 DEF Deleting, Undisturbed, Others, later
    <3>4. req[o].kind \notin Commits
      <4>1. ASSUME req[o].kind \in later, req[o].id = req[r].id \/ req[o].kind \in Commits
            PROVE  FALSE
        <5>1. Overlapped(r, later) \/ Followed(r, later)
          BY <2>1, <2>3, <3>1, <4>1, Excluded DEF later, Commits
        <5> QED
          BY <1>0, <3>2, <5>1 DEF Overlapped
      <4> QED
        BY <4>1 DEF later
    <3>5. CASE req[o].id # req[r].id
      <4>1. Intact(req[r].id)
        BY <1>1, <3>1, <3>5, TurnKeeps
      <4>2. \/ req'[o] = Idle
            \/ req'[o].id = req[o].id
        BY <2>1, <3>4 DEF Became
      <4> QED
        BY <1>0, <2>1, <3>1, <3>3, <3>5, <4>1, <4>2 DEF Intact, DeleteLeft, Busy
    <3>6. CASE req[o].id = req[r].id
      <4>1. ~Busy(r) /\ req[o].kind \notin later
        <5>1. ~Busy(r)
          BY <1>0, <2>1, <2>3, <3>1, <3>2, <3>6, Excluded
        <5>2. ASSUME req[o].kind \in later PROVE FALSE
          <6>1. Overlapped(r, later) \/ Followed(r, later)
            BY <2>1, <2>3, <3>1, <3>6, <5>2, Excluded DEF later, Commits
          <6> QED
            BY <1>0, <3>2, <6>1 DEF Overlapped
        <5> QED
          BY <5>1, <5>2
      <4>2. req[r].at \notin {"tx", "drop"}
        BY <4>1 DEF Busy
      <4>3. CASE req[o].kind \in {"operation", "refresh"}
        <5>1. req[o].at = "get" /\ clusters[req[o].id] = None
          BY <2>1, <2>3, <3>3, <3>6, <4>2, <4>3 DEF DeleteLeft
        <5>2. Ends(o) /\ UNCHANGED <<store, memory>>
          BY <1>1, <4>3, <5>1, EndsAtGet
        <5> QED
          BY <1>0, <2>1, <3>1, <3>3, <5>2 DEF Ends, DeleteLeft, store, memory, Busy
      <4>4. CASE req[o].kind = "delete"
        <5>1. DeleteLeft(req[r])'
          <6>1. /\ clusters[req[r].id] = None /\ nodes[req[r].id] = NoNodes
                /\ admin[req[r].id] = None /\ sshDisk[req[r].id] = None /\ pool[req[r].id] = None
            BY <3>3, <4>2 DEF DeleteLeft
          <6>2. /\ clusters'[req[r].id] = None /\ nodes'[req[r].id] = NoNodes
                /\ admin'[req[r].id] = None /\ sshDisk'[req[r].id] = None /\ pool'[req[r].id] = None
            BY <1>1, <3>6, <4>4, <6>1, DeleteTakes
          <6> QED
            BY <3>1, <6>2 DEF DeleteLeft
        <5>2. req'[o].kind \in {"none", "delete"}
          BY <1>0, <2>1, <4>4 DEF Became
        <5> QED
          BY <2>1, <3>1, <3>3, <5>1, <5>2 DEF Busy
      <4> QED
        BY <2>1, <2>3, <3>1, <3>3, <3>6, <4>1, <4>3, <4>4, KindNames DEF later
    <3> QED
      BY <3>5, <3>6
  <2> QED
    BY <2>2, <2>3
<1>2. ASSUME Restart \/ (\E s \in Slots : Receive(s)) \/ UNCHANGED vars
      PROVE  /\ DeleteLeft(req[r])'
             /\ \A t \in Slots \ {r} : Busy(t)' /\ req'[t].id = req'[r].id =>
                  /\ req'[t].kind # "probe"
                  /\ req'[t].kind \in {"operation", "refresh"} => req'[t].at = "get"
  <2>1. Begins(r) \/ Stays(r)
    BY <1>0, <1>2, Between
  <2>2. CASE Begins(r)
    <3>1. req'[r].at = "tx"
      BY <2>2 DEF Begins, Anew, Alike, Fields, Starting, Commits
    <3>2. ASSUME NEW t \in Slots \ {r}, Busy(t)', req'[t].id = req'[r].id, ~Begins(t)
          PROVE  FALSE
      <4>1. Stays(t)
        BY <1>0, <1>2, <3>2, Between DEF Busy
      <4>2. req'[t].id = req[t].id /\ req'[t].kind = req[t].kind /\ Busy(t)
        BY <3>2, <4>1 DEF Stays, Alike, Fields, Busy
      <4>3. Encounter("with", req[t]) \in req'[r].met /\ req[t].kind \in Kinds
        BY <2>2, <4>2, RequestFields DEF Begins
      <4> QED
        BY <3>2, <4>2, <4>3 DEF Overlapped, Same, Encounter
    <3>3. ASSUME NEW t \in Slots \ {r}, Begins(t)
          PROVE  /\ req'[t].kind # "probe"
                 /\ req'[t].kind \in {"operation", "refresh"} => req'[t].at = "get"
      BY <3>3 DEF Begins, Anew, Alike, Fields, Starting, Commits
    <3> QED
      BY <3>1, <3>2, <3>3 DEF DeleteLeft
  <2>3. CASE Stays(r)
    <3>1. /\ req'[r].id = req[r].id /\ req'[r].kind = req[r].kind /\ req'[r].at = req[r].at
          /\ req[r].met \subseteq req'[r].met /\ req[r].id \in Ids
      BY <2>3, RequestFields DEF Stays, Alike, Fields
    <3>2. ~Overlapped(r, Kinds) /\ ~Followed(r, later)
      BY <3>1, Remembered
    <3>3. /\ DeleteLeft(req[r])
          /\ \A t \in Slots \ {r} : Busy(t) /\ req[t].id = req[r].id =>
               /\ req[t].kind # "probe"
               /\ req[t].kind \in {"operation", "refresh"} => req[t].at = "get"
      BY <3>1, <3>2 DEF Deleting, Undisturbed, Others, later
    <3>4. DeleteLeft(req[r])'
      BY <1>2, <3>1, <3>3, Between DEF DeleteLeft, store, memory
    <3>5. ASSUME NEW t \in Slots \ {r}, Busy(t)', req'[t].id = req'[r].id
          PROVE  /\ req'[t].kind # "probe"
                 /\ req'[t].kind \in {"operation", "refresh"} => req'[t].at = "get"
      <4>1. Begins(t) \/ Stays(t)
        BY <1>0, <1>2, <3>5, Between DEF Busy
      <4>2. CASE Begins(t)
        BY <4>2 DEF Begins, Anew, Alike, Fields, Starting, Commits
      <4>3. CASE Stays(t)
        <5>1. req'[t].id = req[t].id /\ req'[t].kind = req[t].kind /\ req'[t].at = req[t].at
          BY <4>3 DEF Stays, Alike, Fields
        <5> QED
          BY <3>1, <3>3, <3>5, <5>1 DEF Busy
      <4> QED
        BY <4>1, <4>2, <4>3
    <3> QED
      BY <3>4, <3>5
  <2> QED
    BY <2>1, <2>2, <2>3
<1> QED
  BY <1>1, <1>2 DEF Next

-----------------------------------------------------------------------------
(* Who may be under way on the cluster of a request that met nobody there.  *)
LEMMA MetNobody ==
  ASSUME RegistryTypeOK, Met, NEW r \in Slots, NEW o \in Slots, r # o, Busy(o),
         req[r].kind # "none", NEW later \in SUBSET Kinds, Commits \subseteq later,
         ~Overlapped(r, Kinds), ~Followed(r, later)
  PROVE  /\ req[o].kind \notin Commits
         /\ req[o].id = req[r].id =>
              ~Busy(r) /\ (req[o].kind \notin later \/ (req[o].kind = "probe" /\ "refresh" \notin later))
<1>0. Kinds \subseteq Kinds /\ "refresh" \in Kinds /\ req[o].kind \in Kinds /\ "probe" \notin Commits
  BY RequestFields DEF Kinds, Commits
<1>1. \A kinds : Overlapped(r, kinds) /\ kinds \subseteq Kinds => Overlapped(r, Kinds)
  BY DEF Overlapped
<1>2. ~Overlapped(r, later)
  BY <1>1
<1>3. req[o].kind \notin Commits
  BY <1>0, <1>2, Excluded
<1>4. ASSUME req[o].id = req[r].id
      PROVE  ~Busy(r)
  BY <1>0, <1>4, Excluded
<1>5. ASSUME req[o].id = req[r].id, req[o].kind \in later, "refresh" \in later \/ req[o].kind # "probe"
      PROVE  FALSE
  BY <1>0, <1>2, <1>5, Excluded
<1> QED
  BY <1>3, <1>4, <1>5

LEMMA BeginsAlone ==
  ASSUME RegistryTypeOK, Restart \/ (\E s \in Slots : Receive(s)) \/ UNCHANGED vars,
         NEW r \in Slots, Begins(r), ~Overlapped(r, Kinds)',
         NEW t \in Slots \ {r}, Busy(t)', req'[t].id = req'[r].id
  PROVE  Begins(t)
<1> SUFFICES ASSUME ~Begins(t) PROVE FALSE
  OBVIOUS
<1>1. Stays(t)
  BY Between DEF Busy, Idle
<1>2. req'[t].id = req[t].id /\ req'[t].kind = req[t].kind /\ Busy(t)
  BY <1>1 DEF Stays, Alike, Fields, Busy
<1>3. Encounter("with", req[t]) \in req'[r].met /\ req[t].kind \in Kinds
  BY <1>2, RequestFields DEF Begins
<1> QED
  BY <1>2, <1>3 DEF Overlapped, Same, Encounter

-----------------------------------------------------------------------------
(* RefreshIsExact: a node row takes over what the server said of it once.   *)
Lost(m) == m = None \/ (m.state = "unreachable" /\ m.drive \in {"none", "unknown"})
Told(m, f) == m = None \/ f = None \/ (m.state = f.state /\ m.drive = f.drive)

LEMMA Settled ==
  ASSUME NEW m \in NodeRows \cup {None}, NEW f \in Facts \cup {None}
  PROVE  /\ LostNode(m) = m <=> Lost(m)
         /\ MergeNode(m, f) = m <=> Told(m, f)
         /\ Lost(LostNode(m)) /\ Told(MergeNode(m, f), f)
         /\ LostNode(m) = None => m = None
         /\ MergeNode(m, f) = None => m = None
<1>0. None \notin NodeRows
  BY RegistryAssumption
<1>1. CASE m = None
  BY <1>1 DEF LostNode, MergeNode, Lost, Told
<1>2. CASE m # None
  <2>1. m \in NodeRows
    BY <1>2
  <2>2. LostNode(m) = m <=> Lost(m)
    BY <1>2, <2>1 DEF LostNode, Lost, NodeRows
  <2>3. LostNode(m) \in NodeRows /\ MergeNode(m, f) \in NodeRows
    BY <1>2, <2>1 DEF LostNode, MergeNode, NodeRows, NodeStates, DriveStates, Facts
  <2>4. Lost(LostNode(m))
    BY <1>2, <2>1 DEF LostNode, Lost, NodeRows
  <2>5. MergeNode(m, f) = m <=> Told(m, f)
    BY <1>2, <2>1 DEF MergeNode, Told, NodeRows
  <2>6. Told(MergeNode(m, f), f)
    BY <1>2, <2>1 DEF MergeNode, Told, NodeRows
  <2> QED
    BY <1>0, <2>2, <2>3, <2>4, <2>5, <2>6
<1> QED
  BY <1>1, <1>2

LEMMA NewNodeSettles ==
  ASSUME NEW p \in Requests
  PROVE  /\ NewNode(p) = None => p.list[p.n] = None
         /\ IF p.answer = None THEN LostNode(NewNode(p)) = NewNode(p)
            ELSE MergeNode(NewNode(p), p.answer.facts[p.n]) = NewNode(p)
<1>1. p.list[p.n] \in NodeRows \cup {None} /\ NewNode(p) \in NodeRows \cup {None}
  BY NewNodeType DEF Requests, NodeLists
<1>2. p.answer # None => p.answer.facts[p.n] \in Facts \cup {None}
  BY RegistryAssumption DEF Requests
<1>3. CASE p.answer = None
  <2>1. NewNode(p) = LostNode(p.list[p.n])
    BY <1>3 DEF NewNode
  <2> QED
    BY <1>1, <1>3, <2>1, Settled
<1>4. CASE p.answer # None
  <2>1. NewNode(p) = MergeNode(p.list[p.n], p.answer.facts[p.n])
    BY <1>4 DEF NewNode
  <2>2. Told(NewNode(p), p.answer.facts[p.n]) /\ (NewNode(p) = None => p.list[p.n] = None)
    BY <1>1, <1>2, <1>4, <2>1, Settled, SMTT(30)
  <2> QED
    BY <1>1, <1>2, <1>4, <2>2, Settled
<1> QED
  BY <1>3, <1>4

(* What a refresh wrote does not depend on the ports of the nodes.          *)
LikeList(list, other) ==
  \A k \in Nodes : (list[k] = None /\ other[k] = None) \/ LikeNode(list[k], other[k])

LEMMA HealthAlike ==
  ASSUME NEW list \in NodeLists, NEW other \in NodeLists, LikeList(list, other)
  PROVE  Health(list) = Health(other)
<1>1. {i \in Nodes : list[i] # None /\ list[i].state = "online"} =
      {i \in Nodes : other[i] # None /\ other[i].state = "online"}
  BY DEF LikeList, LikeNode
<1>2. {i \in Nodes : list[i] # None /\ list[i].state = "degraded"} =
      {i \in Nodes : other[i] # None /\ other[i].state = "degraded"}
  BY DEF LikeList, LikeNode
<1>3. {i \in Nodes : list[i] # None /\ list[i].state \notin {"online", "degraded"}} =
      {i \in Nodes : other[i] # None /\ other[i].state \notin {"online", "degraded"}}
  BY DEF LikeList, LikeNode
<1>4. {i \in Nodes : list[i] # None /\ list[i].drive = "healing"} =
      {i \in Nodes : other[i] # None /\ other[i].drive = "healing"}
  BY DEF LikeList, LikeNode
<1>5. {i \in Nodes : list[i] # None /\ list[i].drive = "failed"} =
      {i \in Nodes : other[i] # None /\ other[i].drive = "failed"}
  BY DEF LikeList, LikeNode
<1>6. Summarize(list) = Summarize(other)
  BY <1>1, <1>2, <1>3, <1>4, <1>5, Zenon DEF Summarize, Count
<1> QED
  BY <1>6 DEF Health

LEMMA MergedAlike ==
  ASSUME NEW list \in NodeLists, NEW other \in NodeLists, LikeList(list, other),
         NEW q \in Requests, NEW k \in Nodes, Merged(q, other, k)
  PROVE  Merged(q, list, k)
<1>1. list[k] \in NodeRows \cup {None} /\ other[k] \in NodeRows \cup {None}
  BY DEF NodeLists
<1>2. q.answer # None => q.answer.facts[k] \in Facts \cup {None}
  BY RegistryAssumption DEF Requests
<1>3. (list[k] = None /\ other[k] = None) \/ LikeNode(list[k], other[k])
  BY DEF LikeList
<1>4. CASE q.answer = None
  <2>1. Lost(other[k])
    BY <1>1, <1>4, Settled DEF Merged
  <2>2. Lost(list[k])
    BY <1>3, <2>1 DEF Lost, LikeNode
  <2> QED
    BY <1>1, <1>4, <2>2, Settled DEF Merged
<1>5. CASE q.answer # None
  <2>1. Told(other[k], q.answer.facts[k])
    BY <1>1, <1>2, <1>5, Settled DEF Merged
  <2>2. Told(list[k], q.answer.facts[k])
    BY <1>3, <2>1 DEF Told, LikeNode
  <2> QED
    BY <1>1, <1>2, <1>5, <2>2, Settled DEF Merged
<1> QED
  BY <1>4, <1>5

LEMMA RefreshGoesOn ==
  ASSUME RegistryTypeOK, NEW r \in Slots, req[r].kind = "refresh", Step(r) \/ GiveUp(r),
         RefreshWrote(req[r], clusters[req[r].id], nodes[req[r].id]), req'[r].kind = "refresh"
  PROVE  /\ req'[r].id = req[r].id
         /\ RefreshWrote(req'[r], clusters'[req'[r].id], nodes'[req'[r].id])
<1>1. PICK p, q : p = req[r] /\ q = req'[r]
  OBVIOUS
<1>2. /\ p \in Requests /\ p.id \in Ids /\ p.n \in Nodes /\ p.list \in NodeLists
      /\ NewNode(p) \in NodeRows \cup {None}
      /\ clusters \in [Ids -> Rows \cup {None}] /\ nodes \in [Ids -> NodeLists]
      /\ p.row \in Rows \cup {None} /\ p.answer \in Answers \cup {None} /\ None \notin Rows
  BY <1>1, RequestFields, RegistryAssumption DEF RegistryTypeOK, Requests
<1>3. PICK row, list : row = clusters[p.id] /\ list = nodes[p.id] /\ list \in NodeLists
  BY <1>2
<1>4. Holds(p) /\ RefreshWrote(p, row, list) /\ p.kind = "refresh"
  BY <1>1, <1>3, RequestFields
<1> SUFFICES q.id = p.id /\ RefreshWrote(q, clusters'[p.id], nodes'[p.id])
  BY <1>1
<1>5. ~Ends(r)
  BY DEF Ends, Idle
<1>6. CASE GetRow(r)
  <2>1. /\ UNCHANGED store /\ Alike(p, q, {"at", "row"}) /\ q.row = row /\ q.at = "load"
    BY <1>1, <1>3, <1>4, <1>5, <1>6, GetRowDoes DEF Goes
  <2> QED
    BY <1>3, <2>1, Unchanged DEF store, RefreshWrote
<1>7. CASE LoadCreds(r) \/ FindClient(r) \/ InsertClient(r)
  <2>1. /\ clusters' = clusters /\ p.at \in {"load", "client", "insert"}
        /\ Alike(p, q, {"at", "creds"}) /\ q.at \in {"down", "client", "insert", "call"}
    BY <1>1, <1>7, LoadCredsDoes, FindClientDoes, InsertClientDoes DEF Goes, store
  <2>2. q.row = p.row /\ q.id = p.id
    BY <2>1, Unchanged
  <2> QED
    BY <1>3, <1>4, <2>1, <2>2 DEF RefreshWrote
<1>8. CASE CallServer(r)
  <2>1. /\ clusters' = clusters /\ p.at = "call"
        /\ Alike(p, q, {"at", "answer"}) /\ q.at = IF q.answer = None THEN "down" ELSE "list"
    BY <1>1, <1>8, CallServerDoes DEF Goes, store
  <2>2. q.row = p.row /\ q.id = p.id
    BY <2>1, Unchanged
  <2> QED
    BY <1>3, <1>4, <2>1, <2>2 DEF RefreshWrote
<1>9. CASE MarkUnreachable(r)
  <2>1. /\ clusters' = [clusters EXCEPT ![p.id] = Down(p.row)] /\ p.at = "down"
        /\ Alike(p, q, {"at", "row"}) /\ q.at = IF p.creds = None THEN "done" ELSE "list"
    BY <1>1, <1>9, MarkUnreachableDoes DEF Goes
  <2>2. q.creds = p.creds /\ q.id = p.id /\ q.answer = None /\ p.row \in Rows
    BY <1>2, <1>4, <2>1, Unchanged DEF Holds
  <2>3. clusters'[p.id] = Down(p.row) /\ Down(p.row) \in Rows
    BY <1>2, <2>1, <2>2, RowTypes
  <2>4. ~Down(p.row).reachable /\ Down(p.row).health = "unknown"
    BY <2>2 DEF Down, Rows
  <2>5. \A other : RowSays(q, clusters'[p.id], other)
    BY <1>2, <2>2, <2>3, <2>4 DEF RowSays
  <2> QED
    BY <2>1, <2>2, <2>5 DEF RefreshWrote
<1>10. CASE ListNodes(r)
  <2>1. /\ UNCHANGED store /\ p.at = "list" /\ Alike(p, q, {"at", "list"})
        /\ q.at = "nodes" /\ q.list = list
    BY <1>1, <1>3, <1>10, ListNodesDoes DEF Goes
  <2>2. q.row = p.row /\ q.id = p.id /\ q.answer = p.answer /\ q.n = 1
    BY <1>4, <2>1, Unchanged DEF Holds
  <2>3. \A k \in Nodes : ~(k < q.n)
    BY <2>2 DEF Nodes
  <2>4. IF q.answer = None THEN RowSays(q, row, q.list) ELSE row = q.row
    BY <1>4, <2>1, <2>2 DEF RefreshWrote, RowSays
  <2> QED
    BY <1>3, <2>1, <2>2, <2>3, <2>4 DEF RefreshWrote, store
<1>11. CASE RefreshNode(r)
  <2>1. /\ clusters' = clusters /\ p.at = "nodes" /\ Alike(p, q, {"n", "at", "list"})
        /\ \/ nodes' = [nodes EXCEPT ![p.id][p.n] = NewNode(p)]
           \/ nodes' = nodes /\ (NewNode(p) = p.list[p.n] \/ NewNode(p) = None)
        /\ q.list = [p.list EXCEPT ![p.n] = NewNode(p)]
    BY <1>1, <1>11, RefreshNodeDoes DEF Goes
  <2>2. \/ q.at = "nodes" /\ q.n = p.n + 1
        \/ p.n = NodeCount /\ q.at = IF p.answer = None THEN "probe" ELSE "row"
    BY <1>1, <1>11, RefreshNodeDoes
  <2>3. q.row = p.row /\ q.id = p.id /\ q.answer = p.answer
    BY <2>1, Unchanged
  <2>4. list = p.list /\ \A k \in Nodes : k < p.n => Merged(p, p.list, k)
    BY <1>4, <2>1 DEF RefreshWrote
  <2>5. nodes'[p.id] = q.list
    <3>1. CASE nodes' = [nodes EXCEPT ![p.id][p.n] = NewNode(p)]
      BY <1>2, <1>3, <2>1, <2>4, <3>1
    <3>2. CASE nodes' = nodes /\ (NewNode(p) = p.list[p.n] \/ NewNode(p) = None)
      <4>1. NewNode(p) = p.list[p.n]
        BY <1>2, <3>2, NewNodeSettles
      <4>2. q.list = p.list
        BY <1>2, <2>1, <4>1 DEF NodeLists
      <4> QED
        BY <1>3, <2>4, <3>2, <4>2
    <3> QED
      BY <2>1, <3>1, <3>2
  <2>6. ASSUME NEW k \in Nodes, k < p.n \/ k = p.n PROVE Merged(q, q.list, k)
    <3>1. CASE k = p.n
      <4>1. q.list[k] = NewNode(p)
        BY <1>2, <2>1, <3>1 DEF NodeLists
      <4> QED
        BY <1>2, <2>3, <3>1, <4>1, NewNodeSettles DEF Merged
    <3>2. CASE k < p.n
      <4>1. q.list[k] = p.list[k] /\ Merged(p, p.list, k)
        BY <1>2, <2>1, <2>4, <3>2 DEF NodeLists, Nodes
      <4> QED
        BY <2>3, <4>1 DEF Merged
    <3> QED
      BY <2>6, <3>1, <3>2
  <2>7. \A k \in Nodes : (q.at = "nodes" => k < q.n) => k < p.n \/ k = p.n
    BY <1>2, <2>2, RegistryAssumption DEF Nodes
  <2>8. IF q.answer = None THEN RowSays(q, row, q.list) ELSE row = q.row
    BY <1>4, <2>1, <2>3 DEF RefreshWrote, RowSays
  <2>9. q.at \in {"nodes", "row"} \/ (q.at = "probe" /\ q.answer = None)
    BY <2>2, <2>3
  <2> QED
    BY <1>3, <2>1, <2>3, <2>5, <2>6, <2>7, <2>8, <2>9 DEF RefreshWrote
<1>12. CASE RefreshRow(r)
  <2>1. /\ clusters' = [clusters EXCEPT ![p.id] = Refreshed(r)] /\ p.at = "row" /\ nodes' = nodes
        /\ Alike(p, q, {"at", "row"}) /\ q.at = "probe"
    BY <1>1, <1>12, RefreshRowDoes DEF Goes
  <2>2. q.list = p.list /\ q.id = p.id /\ q.answer = p.answer
    BY <2>1, Unchanged
  <2>3. p.row \in Rows /\ p.answer \in Answers
    BY <1>2, <1>4, <2>1 DEF Holds
  <2>4. clusters'[p.id] = Refreshed(r) /\ Refreshed(r) \in Rows
    BY <1>1, <1>2, <2>1, <2>3, RefreshedType
  <2>5. Refreshed(r).reachable /\ Refreshed(r).engine = p.answer.engine
        /\ Refreshed(r).health = Health(p.list)
    BY <1>1, <2>3 DEF Refreshed, Rows
  <2>6. RowSays(q, clusters'[p.id], q.list)
    BY <1>2, <2>2, <2>3, <2>4, <2>5, RegistryAssumption DEF RowSays
  <2>7. list = p.list /\ \A k \in Nodes : Merged(p, p.list, k)
    BY <1>4, <2>1 DEF RefreshWrote
  <2>8. \A k \in Nodes : Merged(q, q.list, k)
    BY <2>2, <2>7 DEF Merged
  <2> QED
    BY <1>3, <2>1, <2>2, <2>6, <2>7, <2>8 DEF RefreshWrote
<1>13. CASE ProbeNode(r) \/ NoProbes(r)
  <2>1. /\ clusters' = clusters /\ p.at = "probe"
        /\ nodes' = nodes \/ nodes' = [nodes EXCEPT ![p.id][p.n] = p.list[p.n]]
    BY <1>1, <1>13, ProbeNodeDoes, NoProbesDoes DEF store
  <2>2. /\ list = p.list /\ (\A k \in Nodes : Merged(p, p.list, k)) /\ RowSays(p, row, p.list)
    BY <1>4, <2>1 DEF RefreshWrote
  <2>3. nodes'[p.id] = list
    <3>1. [list EXCEPT ![p.n] = list[p.n]] = list
      BY <1>3 DEF NodeLists
    <3>2. nodes' = nodes \/ nodes' = [nodes EXCEPT ![p.id] = [list EXCEPT ![p.n] = list[p.n]]]
      BY <1>3, <2>1, <2>2
    <3> QED
      BY <1>2, <1>3, <3>1, <3>2
  <2>4. q.id = p.id /\ q.answer = p.answer /\ q.creds = p.creds
        /\ (q.at = "done" \/ (q.at = "probe" /\ q.list = p.list))
    <3>1. CASE ProbeNode(r)
      <4>1. Alike(p, q, {"n", "at", "list"}) /\ (q.at = "done" \/ (q.at = "probe" /\ q.list = p.list))
        BY <1>1, <3>1, ProbeNodeDoes DEF Goes
      <4> QED
        BY <4>1, Unchanged
    <3>2. CASE NoProbes(r)
      <4>1. Alike(p, q, {"at", "list"}) /\ q.at = "done"
        BY <1>1, <3>2, NoProbesDoes DEF Goes
      <4> QED
        BY <4>1, Unchanged
    <3> QED
      BY <1>13, <3>1, <3>2
  <2>5. RowSays(q, row, list) /\ \A k \in Nodes : Merged(q, list, k)
    BY <2>2, <2>4 DEF RowSays, Merged
  <2> QED
    BY <1>3, <2>1, <2>2, <2>3, <2>4, <2>5 DEF RefreshWrote
<1>14. CASE GiveUp(r)
  BY <1>1, <1>4, <1>5, <1>14, GiveUpDoes DEF Holds, PointsOf
<1> QED
  BY <1>4, <1>1, <1>6, <1>7, <1>8, <1>9, <1>10, <1>11, <1>12, <1>13, <1>14, StepOfKind

LEMMA EditBeside ==
  ASSUME RegistryTypeOK, NEW o \in Slots, Step(o) \/ GiveUp(o),
         req[o].kind \in {"credsEdit", "sshEdit"},
         req[o].at = "port" => LikeNode(nodes[req[o].id][req[o].n], req[o].list[req[o].n])
  PROVE  /\ clusters' = clusters /\ LikeList(nodes'[req[o].id], nodes[req[o].id])
         /\ req'[o].kind = "sshEdit" /\ req'[o].at = "port" =>
              LikeNode(nodes'[req'[o].id][req'[o].n], req'[o].list[req'[o].n])
<1>1. PICK p, q : p = req[o] /\ q = req'[o]
  OBVIOUS
<1>2. /\ p.id \in Ids /\ p.n \in Nodes /\ p.list \in NodeLists /\ Holds(p)
      /\ nodes \in [Ids -> NodeLists] /\ nodes[p.id] \in NodeLists
  BY <1>1, RequestFields DEF RegistryTypeOK
<1>3. LikeList(nodes[p.id], nodes[p.id])
  BY DEF LikeList, LikeNode
<1> SUFFICES /\ clusters' = clusters /\ LikeList(nodes'[p.id], nodes[p.id])
             /\ q.kind = "sshEdit" /\ q.at = "port" => LikeNode(nodes'[q.id][q.n], q.list[q.n])
  BY <1>1
<1>4. CASE PutCreds(o) \/ DropClient(o)
  <2>1. clusters' = clusters /\ nodes' = nodes /\ q.at # "port"
    BY <1>1, <1>4, PutCredsDoes, DropClientDoes DEF store
  <2> QED
    BY <1>3, <2>1
<1>5. CASE SaveSsh(o) \/ ForgetSsh(o) \/ RememberSsh(o)
  <2>1. clusters' = clusters /\ nodes' = nodes /\ q.at # "port"
    BY <1>1, <1>5, SaveSshDoes, ForgetSshDoes, RememberSshDoes DEF store
  <2> QED
    BY <1>3, <2>1
<1>6. CASE GiveUp(o)
  <2>1. clusters' = clusters /\ nodes' = nodes /\ (q.kind # "sshEdit" \/ q.at # "port")
    BY <1>1, <1>6, GiveUpDoes DEF store, Ends, Idle
  <2> QED
    BY <1>3, <2>1
<1>7. CASE ReadPort(o)
  <2>1. PICK m : m = nodes[p.id][p.n]
    OBVIOUS
  <2>2. /\ clusters' = clusters /\ nodes' = nodes /\ Alike(p, q, {"n", "at", "list"})
        /\ q.at = "port" => m # None /\ q.n = p.n /\ q.list = [p.list EXCEPT ![p.n] = m]
    BY <1>1, <1>7, <2>1, ReadPortDoes DEF store, Goes
  <2>3. q.id = p.id
    BY <2>2, Unchanged
  <2>4. q.at = "port" => LikeNode(nodes[p.id][p.n], q.list[p.n])
    BY <1>2, <2>1, <2>2 DEF NodeLists, LikeNode
  <2> QED
    BY <1>3, <2>2, <2>3, <2>4
<1>8. CASE WritePort(o)
  <2>1. PICK m : m = p.list[p.n]
    OBVIOUS
  <2>2. /\ clusters' = clusters /\ p.at = "port" /\ q.at # "port"
        /\ nodes' = [nodes EXCEPT ![p.id][p.n] = [m EXCEPT !.port = p.port]]
    BY <1>1, <1>8, <2>1, WritePortDoes
  <2>3. m \in NodeRows /\ LikeNode(nodes[p.id][p.n], m)
    BY <1>1, <1>2, <2>1, <2>2 DEF Holds, NodeLists
  <2>4. PICK k : k = [m EXCEPT !.port = p.port] /\ LikeNode(k, nodes[p.id][p.n])
    <3>1. /\ [m EXCEPT !.port = p.port].state = m.state /\ [m EXCEPT !.port = p.port].drive = m.drive
          /\ [m EXCEPT !.port = p.port] \in NodeRows
      BY <1>1, <2>3, RequestFields DEF NodeRows, Requests
    <3> QED
      BY <2>3, <3>1, RegistryAssumption DEF LikeNode
  <2>5. nodes'[p.id] = [nodes[p.id] EXCEPT ![p.n] = k]
    BY <1>2, <2>2, <2>4
  <2> QED
    BY <1>2, <1>3, <2>2, <2>4, <2>5 DEF LikeList, NodeLists
<1> QED
  BY <1>1, <1>4, <1>5, <1>6, <1>7, <1>8, StepOfKind

LEMMA RefreshingKept ==
  ASSUME RegistryTypeOK, Met, NEW r \in Slots, Refreshing(r), [Next]_vars
  PROVE  Refreshing(r)'
<1> DEFINE later == Kinds \ {"credsEdit", "sshEdit"}
           fine == /\ RefreshWrote(req'[r], clusters'[req'[r].id], nodes'[req'[r].id])
                   /\ \A t \in Slots \ {r} :
                        /\ req'[t].at \notin {"done", "unsynced"} /\ req'[t].kind = "sshEdit"
                        /\ req'[t].id = req'[r].id /\ req'[t].at = "port"
                        => LikeNode(nodes'[req'[r].id][req'[t].n], req'[t].list[req'[t].n])
<1> SUFFICES ASSUME req'[r].kind = "refresh", ~Overlapped(r, Kinds)', ~Followed(r, later)'
             PROVE  fine
  BY DEF Refreshing, Undisturbed, Others, Busy
<1> HIDE DEF later
<1>0. /\ Idle.kind = "none" /\ Idle.at = "done" /\ later \subseteq Kinds /\ Commits \subseteq later
      /\ later \in SUBSET Kinds /\ Kinds \ later = {"credsEdit", "sshEdit"} /\ "refresh" \in later
  BY DEF Idle, later, Kinds, Commits
<1>00. RegistryTypeOK'
  BY TypesKept
<1>1. ASSUME NEW o \in Slots, Step(o) \/ GiveUp(o)
      PROVE  fine
  <2>1. /\ Busy(o) /\ Became(req[o], req'[o])
        /\ \A t \in Slots \ {o} : req'[t] = req[t]
    BY <1>1, TurnDoes
  <2>2. CASE o = r
    <3>1. req'[r] # Idle
      BY <1>0
    <3>2. req'[r].met = req[r].met /\ req[r].kind = "refresh" /\ req'[r].id = req[r].id
      BY <2>1, <2>2, <3>1 DEF Became, Commits
    <3>3. ~Overlapped(r, Kinds) /\ ~Followed(r, later)
      BY <3>2, Remembered
    <3>4. RefreshWrote(req[r], clusters[req[r].id], nodes[req[r].id])
      BY <3>2, <3>3 DEF Refreshing, Undisturbed, later
    <3>5. RefreshWrote(req'[r], clusters'[req'[r].id], nodes'[req'[r].id])
      BY <1>1, <2>2, <3>2, <3>4, RefreshGoesOn
    <3>6. ASSUME NEW t \in Slots \ {r}, req'[t].at \notin {"done", "unsynced"}, req'[t].id = req'[r].id
          PROVE  FALSE
      <4>1. req'[t] = req[t] /\ Busy(t)
        BY <2>1, <2>2, <3>6 DEF Busy
      <4> QED
        BY <1>0, <2>1, <2>2, <3>2, <3>3, <3>6, <4>1, MetNobody
    <3> QED
      BY <3>5, <3>6
  <2>3. CASE o # r
    <3>1. /\ req'[r] = req[r] /\ req[r].id \in Ids /\ req[o].kind \in Kinds /\ req[r] \in Requests
      BY <2>1, <2>3, RequestFields
    <3>2. ~Overlapped(r, Kinds) /\ ~Followed(r, later)
      BY <3>1, Remembered
    <3>3. /\ RefreshWrote(req[r], clusters[req[r].id], nodes[req[r].id])
          /\ \A t \in Slots \ {r} :
               Busy(t) /\ req[t].kind = "sshEdit" /\ req[t].id = req[r].id /\ req[t].at = "port" =>
                 LikeNode(nodes[req[r].id][req[t].n], req[t].list[req[t].n])
      BY <3>1, <3>2 DEF Refreshing, Undisturbed, Others, later
    <3>4. /\ req[o].kind \notin Commits
          /\ req[o].id = req[r].id => ~Busy(r) /\ req[o].kind \in {"credsEdit", "sshEdit"}
      BY <1>0, <2>1, <2>3, <3>1, <3>2, MetNobody
    <3>5. CASE req[o].id # req[r].id
      <4>1. Intact(req[r].id)
        BY <1>1, <3>1, <3>5, TurnKeeps
      <4>2. \/ req'[o] = Idle
            \/ req'[o].id = req[o].id
        BY <2>1, <3>4 DEF Became
      <4> QED
        BY <1>0, <2>1, <3>1, <3>3, <3>5, <4>1, <4>2 DEF Intact, Busy
    <3>6. CASE req[o].id = req[r].id
      <4>1. PICK i, before, now : i = req[r].id /\ before = nodes[i] /\ now = nodes'[i]
        OBVIOUS
      <4>2. before \in NodeLists /\ now \in NodeLists
        BY <1>00, <3>1, <4>1 DEF RegistryTypeOK
      <4>3. req[o].at = "port" => LikeNode(nodes[req[o].id][req[o].n], req[o].list[req[o].n])
        <5>1. req[o].at = "port" => req[o].kind = "sshEdit"
          BY <3>4, <3>6, RequestFields DEF Holds, PointsOf
        <5> QED
          BY <2>1, <2>3, <3>3, <3>6, <5>1
      <4>4. /\ clusters' = clusters /\ LikeList(now, before)
            /\ req'[o].kind = "sshEdit" /\ req'[o].at = "port" =>
                 LikeNode(nodes'[req'[o].id][req'[o].n], req'[o].list[req'[o].n])
        BY <1>1, <3>4, <3>6, <4>1, <4>3, EditBeside
      <4>5. RefreshWrote(req[r], clusters'[i], now)
        <5>1. req[r].at = "done"
          BY <3>1, <3>4, <3>6, RequestFields DEF Busy, Holds, PointsOf
        <5>2. RowSays(req[r], clusters[i], before)
          BY <3>3, <4>1, <5>1 DEF RefreshWrote
        <5>3. RowSays(req[r], clusters[i], now)
          BY <4>2, <4>4, <5>2, HealthAlike DEF RowSays
        <5>4. \A k \in Nodes : Merged(req[r], before, k) => Merged(req[r], now, k)
          BY <3>1, <4>2, <4>4, MergedAlike
        <5> QED
          BY <3>3, <4>1, <4>4, <5>1, <5>3, <5>4 DEF RefreshWrote
      <4>6. ASSUME NEW t \in Slots \ {r}, t # o, Busy(t), req[t].kind = "sshEdit", req[t].id = i,
                   req[t].at = "port"
            PROVE  LikeNode(now[req[t].n], req[t].list[req[t].n])
        <5>1. LikeNode(before[req[t].n], req[t].list[req[t].n]) /\ req[t].n \in Nodes
          BY <3>3, <4>1, <4>6, RequestFields
        <5> QED
          BY <4>4, <5>1 DEF LikeList, LikeNode
      <4> QED
        BY <2>1, <3>1, <4>1, <4>4, <4>5, <4>6 DEF Busy
    <3> QED
      BY <3>5, <3>6
  <2> QED
    BY <2>2, <2>3
<1>2. ASSUME Restart \/ (\E s \in Slots : Receive(s)) \/ UNCHANGED vars
      PROVE  fine
  <2>1. Begins(r) \/ Stays(r)
    BY <1>0, <1>2, Between
  <2>2. ASSUME NEW t \in Slots, Begins(t) PROVE req'[t].at # "port"
    BY <2>2 DEF Begins, Anew, Alike, Fields, Starting, Commits
  <2>3. CASE Begins(r)
    <3>1. req'[r].at = "get"
      BY <2>3 DEF Begins, Anew, Alike, Fields, Starting, Commits
    <3>2. ASSUME NEW t \in Slots \ {r}, req'[t].at \notin {"done", "unsynced"}, req'[t].id = req'[r].id
          PROVE  Begins(t)
      BY <1>2, <2>3, <3>2, BeginsAlone DEF Busy
    <3> QED
      BY <2>2, <3>1, <3>2 DEF RefreshWrote
  <2>4. CASE Stays(r)
    <3>1. /\ req'[r].id = req[r].id /\ req'[r].kind = req[r].kind
          /\ req[r].met \subseteq req'[r].met /\ req[r].id \in Ids
      BY <2>4, RequestFields DEF Stays, Alike, Fields
    <3>2. ~Overlapped(r, Kinds) /\ ~Followed(r, later)
      BY <3>1, Remembered
    <3>3. /\ RefreshWrote(req[r], clusters[req[r].id], nodes[req[r].id])
          /\ \A t \in Slots \ {r} :
               Busy(t) /\ req[t].kind = "sshEdit" /\ req[t].id = req[r].id /\ req[t].at = "port" =>
                 LikeNode(nodes[req[r].id][req[t].n], req[t].list[req[t].n])
      BY <3>1, <3>2 DEF Refreshing, Undisturbed, Others, later
    <3>4. UNCHANGED <<clusters, nodes>>
      BY <1>2, Between DEF store
    <3>5. RefreshWrote(req'[r], clusters[req[r].id], nodes[req[r].id])
      <4>1. PICK p, q : p = req[r] /\ q = req'[r] /\ Alike(p, q, {"met"})
        BY <2>4 DEF Stays
      <4>2. /\ q.at = p.at /\ q.row = p.row /\ q.answer = p.answer /\ q.n = p.n
            /\ q.creds = p.creds /\ q.list = p.list
        BY <4>1 DEF Alike, Fields
      <4> QED
        BY <3>3, <4>1, <4>2 DEF RefreshWrote, RowSays, Merged
    <3>6. ASSUME NEW t \in Slots \ {r}, req'[t].at \notin {"done", "unsynced"}, req'[t].kind = "sshEdit",
                 req'[t].id = req'[r].id, req'[t].at = "port"
          PROVE  LikeNode(nodes'[req'[r].id][req'[t].n], req'[t].list[req'[t].n])
      <4>1. Stays(t)
        BY <1>0, <1>2, <2>2, <3>6, Between
      <4>2. /\ req'[t].id = req[t].id /\ req'[t].kind = req[t].kind /\ req'[t].at = req[t].at
            /\ req'[t].n = req[t].n /\ req'[t].list = req[t].list
        BY <4>1 DEF Stays, Alike, Fields
      <4> QED
        BY <3>1, <3>3, <3>4, <3>6, <4>2 DEF Busy
    <3> QED
      BY <3>1, <3>4, <3>5, <3>6
  <2> QED
    BY <2>1, <2>3, <2>4
<1> QED
  BY <1>1, <1>2 DEF Next

-----------------------------------------------------------------------------
(* CredsEditSticks: clients are built from what is stored.                  *)
LEMMA ClientsBeside ==
  ASSUME RegistryTypeOK, NEW o \in Slots, Step(o) \/ GiveUp(o), NEW i \in Ids, NEW c,
         req[o].id = i, req[o].kind \in {"operation", "refresh", "probe", "sshEdit"},
         admin[i] = c, pool[i] \in {None, c},
         req[o].kind = "refresh" /\ req[o].at \in {"client", "insert"} => req[o].creds = c
  PROVE  /\ admin'[i] = c /\ pool'[i] \in {None, c}
         /\ req'[o].kind = "refresh" /\ req'[o].at \in {"client", "insert"} => req'[o].creds = c
<1>1. PICK p, q : p = req[o] /\ q = req'[o]
  OBVIOUS
<1>0. Idle.kind # "refresh" /\ pool \in [Ids -> Creds \cup {None}]
  BY DEF Idle, RegistryTypeOK, Files
<1>2. CASE p.kind # "refresh"
  <2>1. UNCHANGED <<admin, pool>>
    BY <1>1, <1>2, StepOfKind, GetRowDoes, OperationPutDoes, OperationListDoes, OperationRefreshDoes,
       ProbeNodeDoes, SaveSshDoes, ForgetSshDoes, RememberSshDoes, ReadPortDoes, WritePortDoes,
       GiveUpDoes DEF store, memory
  <2>2. q.kind # "refresh"
    BY <1>0, <1>1, <1>2, TurnDoes DEF Became
  <2> QED
    BY <1>1, <2>1, <2>2
<1>3. CASE LoadCreds(o)
  BY <1>1, <1>3, LoadCredsDoes DEF store, memory
<1>4. CASE FindClient(o)
  BY <1>1, <1>4, FindClientDoes DEF store, memory
<1>5. CASE InsertClient(o)
  <2>1. /\ p.kind = "refresh" /\ p.at = "insert" /\ admin' = admin /\ q.at = "call"
        /\ q.creds = IF pool[p.id] = None THEN p.creds ELSE pool[p.id]
        /\ pool' = [pool EXCEPT ![p.id] = q.creds]
    BY <1>1, <1>5, InsertClientDoes DEF store
  <2>2. q.creds = c /\ p.id = i
    BY <1>1, <2>1
  <2> QED
    BY <1>0, <1>1, <2>1, <2>2
<1>6. CASE GetRow(o) \/ CallServer(o) \/ MarkUnreachable(o) \/ ListNodes(o) \/ RefreshNode(o)
           \/ RefreshRow(o) \/ ProbeNode(o) \/ NoProbes(o) \/ GiveUp(o)
  <2>1. UNCHANGED <<admin, pool>>
    BY <1>6, GetRowDoes, CallServerDoes, MarkUnreachableDoes, ListNodesDoes, RefreshNodeDoes,
       RefreshRowDoes, ProbeNodeDoes, NoProbesDoes, GiveUpDoes DEF store, memory
  <2>2. ~(q.kind = "refresh" /\ q.at \in {"client", "insert"})
    <3>1. CASE GetRow(o)
      <4>1. Ends(o) \/ q.at \in {"load", "put"}
        BY <1>1, <3>1, GetRowDoes
      <4> QED
        BY <1>0, <1>1, <4>1 DEF Ends
    <3>2. CASE CallServer(o) \/ MarkUnreachable(o) \/ ListNodes(o) \/ RefreshRow(o) \/ NoProbes(o)
      BY <1>1, <3>2, CallServerDoes, MarkUnreachableDoes, ListNodesDoes, RefreshRowDoes, NoProbesDoes
    <3>3. CASE RefreshNode(o)
      <4>1. q.at \in {"probe", "row", "nodes"}
        BY <1>1, <3>3, RefreshNodeDoes
      <4> QED
        BY <4>1
    <3>4. CASE ProbeNode(o)
      <4>1. q.at \in {"probe", "done"}
        BY <1>1, <3>4, ProbeNodeDoes
      <4> QED
        BY <4>1
    <3>5. CASE GiveUp(o)
      BY <1>0, <1>1, <3>5, GiveUpDoes DEF Ends
    <3> QED
      BY <1>6, <3>1, <3>2, <3>3, <3>4, <3>5
  <2> QED
    BY <1>1, <2>1, <2>2
<1> QED
  BY <1>1, <1>2, <1>3, <1>4, <1>5, <1>6, StepOfKind

LEMMA CredsEditGoesOn ==
  ASSUME RegistryTypeOK, NEW r \in Slots, req[r].kind = "credsEdit", Step(r) \/ GiveUp(r),
         req[r].at # "put" => admin[req[r].id] = req[r].creds, req'[r].kind = "credsEdit"
  PROVE  LET q == req'[r] IN
         /\ q.id = req[r].id /\ admin'[q.id] = q.creds
         /\ q.at = "done" => pool'[q.id] = None
<1>1. PICK p, q : p = req[r] /\ q = req'[r]
  OBVIOUS
<1>2. /\ p.id \in Ids /\ Holds(p) /\ admin \in [Ids -> Creds \cup {None}]
      /\ pool \in [Ids -> Creds \cup {None}]
  BY <1>1, RequestFields DEF RegistryTypeOK, Files
<1>3. CASE PutCreds(r)
  <2>1. Alike(p, q, {"at", "creds"}) /\ q.at = "drop" /\ admin' = [admin EXCEPT ![p.id] = q.creds]
    BY <1>1, <1>3, PutCredsDoes DEF Goes
  <2> QED
    BY <1>1, <1>2, <2>1, Unchanged
<1>4. CASE DropClient(r)
  <2>1. Alike(p, q, {"at"}) /\ admin' = admin /\ p.at = "drop" /\ pool' = [pool EXCEPT ![p.id] = None]
    BY <1>1, <1>4, DropClientDoes DEF Goes, store
  <2>2. q.id = p.id /\ q.creds = p.creds
    BY <2>1, Unchanged
  <2> QED
    BY <1>1, <1>2, <2>1, <2>2
<1>5. CASE GiveUp(r)
  <2>1. ~Ends(r) /\ p.at \notin {"view", "entries", "publish"}
    BY <1>1, <1>2 DEF Ends, Idle, Holds, PointsOf
  <2> QED
    BY <1>1, <1>5, <2>1, GiveUpDoes
<1> QED
  BY <1>1, <1>3, <1>4, <1>5, StepOfKind

LEMMA CredsEditingKept ==
  ASSUME RegistryTypeOK, Met, NEW r \in Slots, CredsEditing(r), [Next]_vars
  PROVE  CredsEditing(r)'
<1> DEFINE later == Commits \cup {"delete", "credsEdit"}
           fine == /\ req'[r].at # "put" => admin'[req'[r].id] = req'[r].creds
                   /\ req'[r].at = "done" =>
                        /\ pool'[req'[r].id] \in {None, req'[r].creds}
                        /\ \A t \in Slots \ {r} :
                             /\ req'[t].at \notin {"done", "unsynced"} /\ req'[t].kind = "refresh"
                             /\ req'[t].id = req'[r].id /\ req'[t].at \in {"client", "insert"}
                             => req'[t].creds = req'[r].creds
<1> SUFFICES ASSUME req'[r].kind = "credsEdit", ~Overlapped(r, Kinds)', ~Followed(r, later)'
             PROVE  fine
  BY DEF CredsEditing, Undisturbed, Others, Busy
<1> HIDE DEF later
<1>0. /\ Idle.kind = "none" /\ Idle.at = "done" /\ later \subseteq Kinds /\ Commits \subseteq later
      /\ later \in SUBSET Kinds /\ "probe" \notin Commits
      /\ Kinds \ later = {"operation", "refresh", "probe", "sshEdit", "none"}
  BY DEF Idle, later, Kinds, Commits
<1>1. ASSUME NEW o \in Slots, Step(o) \/ GiveUp(o)
      PROVE  fine
  <2>1. /\ Busy(o) /\ Became(req[o], req'[o])
        /\ \A t \in Slots \ {o} : req'[t] = req[t]
    BY <1>1, TurnDoes
  <2>2. CASE o = r
    <3>1. req'[r] # Idle
      BY <1>0
    <3>2. req'[r].met = req[r].met /\ req[r].kind = "credsEdit" /\ req'[r].id = req[r].id
      BY <2>1, <2>2, <3>1 DEF Became, Commits
    <3>3. ~Overlapped(r, Kinds) /\ ~Followed(r, later)
      BY <3>2, Remembered
    <3>4. req[r].at # "put" => admin[req[r].id] = req[r].creds
      BY <3>2, <3>3 DEF CredsEditing, Undisturbed, later
    <3>5. /\ admin'[req'[r].id] = req'[r].creds
          /\ req'[r].at = "done" => pool'[req'[r].id] = None
      BY <1>1, <2>2, <3>2, <3>4, CredsEditGoesOn
    <3>6. ASSUME NEW t \in Slots \ {r}, req'[t].at \notin {"done", "unsynced"}, req'[t].id = req'[r].id
          PROVE  FALSE
      <4>1. req'[t] = req[t] /\ Busy(t)
        BY <2>1, <2>2, <3>6 DEF Busy
      <4> QED
        BY <1>0, <2>1, <2>2, <3>2, <3>3, <3>6, <4>1, MetNobody
    <3> QED
      BY <3>5, <3>6
  <2>3. CASE o # r
    <3>1. /\ req'[r] = req[r] /\ req[r].id \in Ids /\ req[o].kind \in Kinds /\ Holds(req[r])
      BY <2>1, <2>3, RequestFields
    <3>2. ~Overlapped(r, Kinds) /\ ~Followed(r, later)
      BY <3>1, Remembered
    <3>3. /\ req[r].at # "put" => admin[req[r].id] = req[r].creds
          /\ req[r].at = "done" =>
               /\ pool[req[r].id] \in {None, req[r].creds}
               /\ \A t \in Slots \ {r} :
                    /\ Busy(t) /\ req[t].kind = "refresh" /\ req[t].id = req[r].id
                    /\ req[t].at \in {"client", "insert"}
                    => req[t].creds = req[r].creds
      BY <3>1, <3>2 DEF CredsEditing, Undisturbed, Others, later
    <3>4. /\ req[o].kind \notin Commits
          /\ req[o].id = req[r].id =>
               ~Busy(r) /\ req[o].kind \in {"operation", "refresh", "probe", "sshEdit"}
      BY <1>0, <1>1, <2>1, <2>3, <3>1, <3>2, MetNobody, StepOfKind
    <3>5. CASE req[o].id # req[r].id
      <4>1. Intact(req[r].id)
        BY <1>1, <3>1, <3>5, TurnKeeps
      <4>2. \/ req'[o] = Idle
            \/ req'[o].id = req[o].id
        BY <2>1, <3>4 DEF Became
      <4> QED
        BY <1>0, <2>1, <3>1, <3>3, <3>5, <4>1, <4>2 DEF Intact, Busy
    <3>6. CASE req[o].id = req[r].id
      <4>1. PICK i, c : i = req[r].id /\ c = req[r].creds
        OBVIOUS
      <4>2. req[r].at = "done" /\ req[r].kind = "credsEdit"
        BY <3>1, <3>4, <3>6 DEF Busy, Holds, PointsOf
      <4>3. /\ admin'[i] = c /\ pool'[i] \in {None, c}
            /\ req'[o].kind = "refresh" /\ req'[o].at \in {"client", "insert"} => req'[o].creds = c
        BY <1>1, <2>1, <2>3, <3>1, <3>3, <3>4, <3>6, <4>1, <4>2, ClientsBeside
      <4> QED
        BY <2>1, <3>1, <3>3, <4>1, <4>2, <4>3 DEF Busy
    <3> QED
      BY <3>5, <3>6
  <2> QED
    BY <2>2, <2>3
<1>2. ASSUME Restart \/ (\E s \in Slots : Receive(s)) \/ UNCHANGED vars
      PROVE  fine
  <2>1. Begins(r) \/ Stays(r)
    BY <1>0, <1>2, Between
  <2>2. ASSUME NEW t \in Slots, Begins(t) PROVE req'[t].at \notin {"client", "insert"}
    BY <2>2 DEF Begins, Anew, Alike, Fields, Starting, Commits
  <2>3. CASE Begins(r)
    <3>1. req'[r].at = "put"
      BY <2>3 DEF Begins, Anew, Alike, Fields, Starting, Commits
    <3> QED
      BY <3>1
  <2>4. CASE Stays(r)
    <3>1. /\ req'[r].id = req[r].id /\ req'[r].kind = req[r].kind /\ req'[r].at = req[r].at
          /\ req'[r].creds = req[r].creds /\ req[r].met \subseteq req'[r].met /\ req[r].id \in Ids
      BY <2>4, RequestFields DEF Stays, Alike, Fields
    <3>2. ~Overlapped(r, Kinds) /\ ~Followed(r, later)
      BY <3>1, Remembered
    <3>3. /\ req[r].at # "put" => admin[req[r].id] = req[r].creds
          /\ req[r].at = "done" =>
               /\ pool[req[r].id] \in {None, req[r].creds}
               /\ \A t \in Slots \ {r} :
                    /\ Busy(t) /\ req[t].kind = "refresh" /\ req[t].id = req[r].id
                    /\ req[t].at \in {"client", "insert"}
                    => req[t].creds = req[r].creds
      BY <3>1, <3>2 DEF CredsEditing, Undisturbed, Others, later
    <3>4. admin' = admin /\ pool'[req[r].id] \in {None, pool[req[r].id]}
      BY <1>2, <3>1, Between DEF store, memory
    <3>5. ASSUME NEW t \in Slots \ {r}, req'[t].at \notin {"done", "unsynced"}, req'[t].kind = "refresh",
                 req'[t].id = req'[r].id, req'[t].at \in {"client", "insert"}, req'[r].at = "done"
          PROVE  req'[t].creds = req'[r].creds
      <4>1. Stays(t)
        BY <1>0, <1>2, <2>2, <3>5, Between
      <4>2. /\ req'[t].id = req[t].id /\ req'[t].kind = req[t].kind /\ req'[t].at = req[t].at
            /\ req'[t].creds = req[t].creds
        BY <4>1 DEF Stays, Alike, Fields
      <4> QED
        BY <3>1, <3>3, <3>5, <4>2 DEF Busy
    <3> QED
      BY <3>1, <3>3, <3>4, <3>5
  <2> QED
    BY <2>1, <2>3, <2>4
<1> QED
  BY <1>1, <1>2 DEF Next

-----------------------------------------------------------------------------
(* SshEditSticks: refreshes and probes write the ports they read.           *)
PortsAre(list, w) == \A k \in Nodes : list[k] # None => list[k].port = w

LEMMA PortsBeside ==
  ASSUME RegistryTypeOK, NEW o \in Slots, Step(o) \/ GiveUp(o), NEW i \in Ids, NEW w,
         req[o].id = i, req[o].kind \in {"operation", "refresh", "probe", "credsEdit"},
         PortsAre(nodes[i], w),
         /\ req[o].kind \in {"refresh", "probe"} /\ req[o].at \in {"nodes", "row", "probe"}
         => PortsAre(req[o].list, w)
  PROVE  /\ UNCHANGED <<sshDisk, sshMemory>> /\ PortsAre(nodes'[i], w)
         /\ /\ req'[o].kind \in {"refresh", "probe"} /\ req'[o].at \in {"nodes", "row", "probe"}
            => PortsAre(req'[o].list, w)
<1>1. PICK p, q : p = req[o] /\ q = req'[o]
  OBVIOUS
<1>0. /\ Idle.kind = "none" /\ nodes \in [Ids -> NodeLists] /\ p.list \in NodeLists /\ p.n \in Nodes
      /\ p \in Requests /\ NewNode(p) \in NodeRows \cup {None} /\ p.list[p.n] \in NodeRows \cup {None}
      /\ nodes[i] \in NodeLists
  BY <1>1, RequestFields DEF Idle, RegistryTypeOK
<1>2. CASE p.kind \notin {"refresh", "probe"}
  <2>1. UNCHANGED <<nodes, sshDisk, sshMemory>>
    BY <1>1, <1>2, StepOfKind, GetRowDoes, OperationPutDoes, OperationListDoes, OperationRefreshDoes,
       PutCredsDoes, DropClientDoes, GiveUpDoes DEF store, memory
  <2>2. q.kind \notin {"refresh", "probe"}
    BY <1>0, <1>1, <1>2, TurnDoes DEF Became
  <2> QED
    BY <1>1, <2>1, <2>2
<1>3. CASE GetRow(o) \/ LoadCreds(o) \/ FindClient(o) \/ InsertClient(o) \/ CallServer(o)
           \/ MarkUnreachable(o) \/ NoProbes(o)
  <2>1. UNCHANGED <<nodes, sshDisk, sshMemory>>
    BY <1>3, GetRowDoes, LoadCredsDoes, FindClientDoes, InsertClientDoes, CallServerDoes,
       MarkUnreachableDoes, NoProbesDoes DEF store, memory
  <2>2. ~(q.kind \in {"refresh", "probe"} /\ q.at \in {"nodes", "row", "probe"})
    BY <1>0, <1>1, <1>3, GetRowDoes, LoadCredsDoes, FindClientDoes, InsertClientDoes, CallServerDoes,
       MarkUnreachableDoes, NoProbesDoes DEF Ends
  <2> QED
    BY <1>1, <2>1, <2>2
<1>4. CASE ListNodes(o)
  BY <1>1, <1>4, ListNodesDoes DEF store, memory
<1>5. CASE RefreshNode(o)
  <2>1. /\ UNCHANGED <<sshDisk, sshMemory>> /\ p.at = "nodes" /\ p.kind = "refresh"
        /\ \/ nodes' = [nodes EXCEPT ![p.id][p.n] = NewNode(p)]
           \/ nodes' = nodes
        /\ q.list = [p.list EXCEPT ![p.n] = NewNode(p)]
    BY <1>1, <1>5, RefreshNodeDoes DEF memory
  <2>2. PortsAre(p.list, w) /\ p.id = i
    BY <1>1, <2>1
  <2>3. NewNode(p) # None => NewNode(p).port = w
    <3>1. CASE p.list[p.n] = None
      BY <3>1 DEF NewNode, LostNode, MergeNode
    <3>2. CASE p.list[p.n] # None
      <4>1. p.list[p.n] \in NodeRows /\ p.list[p.n].port = w
        BY <1>0, <2>2, <3>2 DEF PortsAre
      <4> QED
        BY <3>2, <4>1 DEF NewNode, LostNode, MergeNode, NodeRows
    <3> QED
      BY <3>1, <3>2
  <2>4. PortsAre(q.list, w)
    BY <1>0, <2>1, <2>2, <2>3 DEF PortsAre, NodeLists
  <2>5. PortsAre(nodes'[i], w)
    BY <1>0, <2>1, <2>2, <2>3 DEF PortsAre, NodeLists
  <2> QED
    BY <1>1, <2>1, <2>4, <2>5
<1>6. CASE RefreshRow(o)
  <2>1. UNCHANGED <<nodes, sshDisk, sshMemory>> /\ p.at = "row" /\ p.kind = "refresh"
        /\ Alike(p, q, {"at", "row"})
    BY <1>1, <1>6, RefreshRowDoes DEF Goes, memory
  <2> QED
    BY <1>1, <2>1, Unchanged
<1>7. CASE ProbeNode(o)
  <2>1. /\ UNCHANGED <<sshDisk, sshMemory>> /\ p.at = "probe" /\ p.kind \in {"refresh", "probe"}
        /\ \/ nodes' = [nodes EXCEPT ![p.id][p.n] = p.list[p.n]]
           \/ nodes' = nodes
        /\ q.at = "done" \/ q.list = p.list
    BY <1>1, <1>7, ProbeNodeDoes DEF memory
  <2>2. PortsAre(p.list, w) /\ p.id = i
    BY <1>1, <2>1
  <2>3. PortsAre(nodes'[i], w)
    BY <1>0, <2>1, <2>2 DEF PortsAre, NodeLists
  <2> QED
    BY <1>1, <2>1, <2>2, <2>3
<1>8. CASE GiveUp(o)
  <2>1. UNCHANGED <<nodes, sshDisk, sshMemory>>
    BY <1>8, GiveUpDoes DEF store, memory
  <2>2. \/ q.kind \notin {"refresh", "probe"} \/ q.at \notin {"nodes", "row", "probe"}
        \/ p.kind = "refresh" /\ p.at \in {"nodes", "row"} /\ q.list = p.list
    BY <1>0, <1>1, <1>8, GiveUpDoes, Unchanged DEF Ends, Goes
  <2> QED
    BY <1>1, <2>1, <2>2
<1> QED
  BY <1>1, <1>2, <1>3, <1>4, <1>5, <1>6, <1>7, <1>8, StepOfKind

LEMMA SshEditGoesOn ==
  ASSUME RegistryTypeOK, NEW r \in Slots, req[r].kind = "sshEdit", Step(r) \/ GiveUp(r),
         NEW forgotten \in BOOLEAN, SshWrote(req[r], forgotten), req'[r].kind = "sshEdit"
  PROVE  req'[r].id = req[r].id /\ SshWrote(req[r], forgotten)'
<1>1. PICK p, q : p = req[r] /\ q = req'[r]
  OBVIOUS
<1>2. /\ p.id \in Ids /\ p.n \in Nodes /\ Holds(p) /\ SshWrote(p, forgotten) /\ p.kind = "sshEdit"
      /\ p.list \in NodeLists /\ p.list[p.n] \in NodeRows \cup {None} /\ p.persist \in BOOLEAN
      /\ nodes \in [Ids -> NodeLists] /\ sshDisk \in [Ids -> Ports \cup {None}]
      /\ sshMemory \in [Ids -> Ports \cup {None}]
  BY <1>1, RequestFields DEF RegistryTypeOK, Requests
<1>3. PICK list : list = nodes[p.id] /\ list \in NodeLists
  BY <1>2
<1> SUFFICES /\ q.id = p.id
             /\ q.at = "forget" => sshDisk'[p.id] = q.port /\ q.persist
             /\ q.at \in {"ports", "port", "done"} =>
                  /\ q.persist => sshDisk'[p.id] = q.port /\ sshMemory'[p.id] = None
                  /\ ~q.persist /\ ~forgotten => sshMemory'[p.id] = q.port
                  /\ \A k \in Nodes :
                       (q.at # "done" => k < q.n) /\ nodes'[p.id][k] # None =>
                         nodes'[p.id][k].port = q.port
  BY <1>1 DEF SshWrote
<1>4. CASE SaveSsh(r)
  <2>1. /\ Alike(p, q, {"at", "persist"}) /\ sshDisk' = [sshDisk EXCEPT ![p.id] = p.port]
        /\ q.at = "forget" /\ q.persist
    BY <1>1, <1>2, <1>4, SaveSshDoes DEF Goes
  <2> QED
    BY <1>2, <2>1, Unchanged
<1>5. CASE ForgetSsh(r)
  <2>1. /\ Alike(p, q, {"at"}) /\ sshMemory' = [sshMemory EXCEPT ![p.id] = None]
        /\ sshDisk' = sshDisk /\ nodes' = nodes /\ q.at = "ports" /\ p.at = "forget"
    BY <1>1, <1>2, <1>5, ForgetSshDoes DEF Goes, store
  <2>2. q.id = p.id /\ q.port = p.port /\ q.persist = p.persist /\ q.n = 1
    BY <1>2, <2>1, Unchanged DEF Holds
  <2> QED
    BY <1>2, <2>1, <2>2 DEF SshWrote, Nodes
<1>6. CASE RememberSsh(r)
  <2>1. /\ Alike(p, q, {"at"}) /\ sshMemory' = [sshMemory EXCEPT ![p.id] = p.port]
        /\ q.at = "ports" /\ p.at = "save"
    BY <1>1, <1>2, <1>6, RememberSshDoes DEF Goes, store
  <2>2. q.id = p.id /\ q.port = p.port /\ ~q.persist /\ q.n = 1
    BY <1>2, <2>1, Unchanged DEF Holds
  <2> QED
    BY <1>2, <2>1, <2>2 DEF Nodes
<1>7. ASSUME p.at \in {"ports", "port"}, UNCHANGED <<sshDisk, sshMemory>>,
             q.id = p.id, q.port = p.port, q.persist = p.persist, q.at \in {"ports", "port", "done"},
             NEW seen \in SUBSET Nodes,
             \A k \in Nodes : nodes'[p.id][k] = list[k] \/ k \in seen,
             \A k \in seen : nodes'[p.id][k] # None => nodes'[p.id][k].port = p.port,
             \A k \in Nodes : (q.at # "done" => k < q.n) => k < p.n \/ k \in seen
      PROVE  /\ q.persist => sshDisk'[p.id] = q.port /\ sshMemory'[p.id] = None
             /\ ~q.persist /\ ~forgotten => sshMemory'[p.id] = q.port
             /\ \A k \in Nodes :
                  (q.at # "done" => k < q.n) /\ nodes'[p.id][k] # None =>
                    nodes'[p.id][k].port = q.port
  <2>1. /\ p.persist => sshDisk[p.id] = p.port /\ sshMemory[p.id] = None
        /\ ~p.persist /\ ~forgotten => sshMemory[p.id] = p.port
        /\ \A k \in Nodes : k < p.n /\ list[k] # None => list[k].port = p.port
    BY <1>2, <1>3, <1>7 DEF SshWrote
  <2>2. ASSUME NEW k \in Nodes, q.at # "done" => k < q.n, nodes'[p.id][k] # None
        PROVE  nodes'[p.id][k].port = q.port
    BY <1>7, <2>1, <2>2
  <2> QED
    BY <1>7, <2>1, <2>2
<1>8. CASE ReadPort(r)
  <2>1. PICK m : m = list[p.n]
    OBVIOUS
  <2>2. /\ UNCHANGED <<nodes, sshDisk, sshMemory>> /\ p.at = "ports" /\ Alike(p, q, {"n", "at", "list"})
        /\ \/ /\ m = None \/ m.port = p.port
              /\ q.n = IF p.n = NodeCount THEN 1 ELSE p.n + 1
              /\ q.at = IF p.n = NodeCount THEN "done" ELSE "ports"
           \/ q.n = p.n /\ q.at = "port"
    BY <1>1, <1>3, <1>8, <2>1, ReadPortDoes DEF store, memory, Goes
  <2>3. q.id = p.id /\ q.port = p.port /\ q.persist = p.persist
    BY <2>2, Unchanged
  <2>4. CASE /\ m = None \/ m.port = p.port
             /\ q.n = IF p.n = NodeCount THEN 1 ELSE p.n + 1
             /\ q.at = IF p.n = NodeCount THEN "done" ELSE "ports"
    <3>1. \A k \in Nodes : (q.at # "done" => k < q.n) => k < p.n \/ k \in {p.n}
      BY <1>2, <2>4, RegistryAssumption DEF Nodes
    <3>2. \A k \in {p.n} : nodes'[p.id][k] # None => nodes'[p.id][k].port = p.port
      BY <1>3, <2>1, <2>2, <2>4
    <3>3. \A k \in Nodes : nodes'[p.id][k] = list[k]
      BY <1>3, <2>2
    <3>4. {p.n} \in SUBSET Nodes /\ q.at \in {"ports", "port", "done"}
      BY <1>2, <2>4
    <3> QED
      BY <1>7, <2>2, <2>3, <3>1, <3>2, <3>3, <3>4
  <2>5. CASE q.n = p.n /\ q.at = "port"
    <3>1. {} \in SUBSET Nodes /\ \A k \in Nodes : nodes'[p.id][k] = list[k]
      BY <1>3, <2>2
    <3> QED
      BY <1>7, <2>2, <2>3, <2>5, <3>1
  <2> QED
    BY <2>2, <2>4, <2>5
<1>9. CASE WritePort(r)
  <2>1. PICK m : m = p.list[p.n]
    OBVIOUS
  <2>2. /\ UNCHANGED <<sshDisk, sshMemory>> /\ p.at = "port" /\ Alike(p, q, {"n", "at", "list"})
        /\ nodes' = [nodes EXCEPT ![p.id][p.n] = [m EXCEPT !.port = p.port]]
        /\ q.n = IF p.n = NodeCount THEN 1 ELSE p.n + 1
        /\ q.at = IF p.n = NodeCount THEN "done" ELSE "ports"
    BY <1>1, <1>9, <2>1, WritePortDoes DEF memory, Goes
  <2>3. q.id = p.id /\ q.port = p.port /\ q.persist = p.persist
    BY <2>2, Unchanged
  <2>4. m \in NodeRows
    BY <1>2, <2>1, <2>2 DEF Holds
  <2>5. PICK k : k = [m EXCEPT !.port = p.port] /\ k.port = p.port
    BY <2>4 DEF NodeRows
  <2>6. nodes'[p.id] = [list EXCEPT ![p.n] = k]
    BY <1>2, <1>3, <2>2, <2>5
  <2>7. \A j \in Nodes : (q.at # "done" => j < q.n) => j < p.n \/ j \in {p.n}
    BY <1>2, <2>2, RegistryAssumption DEF Nodes
  <2>8. \A j \in {p.n} : nodes'[p.id][j] # None => nodes'[p.id][j].port = p.port
    BY <1>2, <1>3, <2>5, <2>6 DEF NodeLists
  <2>9. \A j \in Nodes : nodes'[p.id][j] = list[j] \/ j \in {p.n}
    BY <1>3, <2>6 DEF NodeLists
  <2>10. {p.n} \in SUBSET Nodes /\ q.at \in {"ports", "port", "done"}
    BY <1>2, <2>2
  <2> QED
    BY <1>7, <2>2, <2>3, <2>7, <2>8, <2>9, <2>10
<1>10. CASE GiveUp(r)
  <2>1. ~Ends(r) /\ p.at \notin {"view", "entries", "publish"}
    BY <1>1, <1>2 DEF Ends, Idle, Holds, PointsOf
  <2> QED
    BY <1>1, <1>2, <1>10, <2>1, GiveUpDoes
<1> QED
  BY <1>1, <1>2, <1>4, <1>5, <1>6, <1>8, <1>9, <1>10, StepOfKind

LEMMA SshEditingKept ==
  ASSUME RegistryTypeOK, Met, NEW r \in Slots, SshEditing(r), [Next]_vars
  PROVE  SshEditing(r)'
<1> DEFINE later == Commits \cup {"delete", "sshEdit"}
           fine == /\ SshWrote(req[r], Followed(r, {"restart"}))'
                   /\ req'[r].at = "done" => \A t \in Slots \ {r} :
                        /\ req'[t].at \notin {"done", "unsynced"} /\ req'[t].kind \in {"refresh", "probe"}
                        /\ req'[t].id = req'[r].id /\ req'[t].at \in {"nodes", "row", "probe"}
                        => PortsAre(req'[t].list, req'[r].port)
<1> SUFFICES ASSUME req'[r].kind = "sshEdit", ~Overlapped(r, Kinds)', ~Followed(r, later)'
             PROVE  fine
  BY DEF SshEditing, Undisturbed, Others, Busy, PortsAre
<1> HIDE DEF later
<1>0. /\ Idle.kind = "none" /\ Idle.at = "done" /\ later \subseteq Kinds /\ Commits \subseteq later
      /\ later \in SUBSET Kinds /\ "probe" \notin Commits
      /\ Kinds \ later = {"operation", "refresh", "probe", "credsEdit", "none"}
  BY DEF Idle, later, Kinds, Commits
<1>1. ASSUME NEW o \in Slots, Step(o) \/ GiveUp(o)
      PROVE  fine
  <2>1. /\ Busy(o) /\ Became(req[o], req'[o])
        /\ \A t \in Slots \ {o} : req'[t] = req[t]
    BY <1>1, TurnDoes
  <2>2. CASE o = r
    <3>1. req'[r] # Idle
      BY <1>0
    <3>2. req'[r].met = req[r].met /\ req[r].kind = "sshEdit" /\ req'[r].id = req[r].id
      BY <2>1, <2>2, <3>1 DEF Became, Commits
    <3>3. ~Overlapped(r, Kinds) /\ ~Followed(r, later)
      BY <3>2, Remembered
    <3>4. SshWrote(req[r], Followed(r, {"restart"}))
      BY <3>2, <3>3 DEF SshEditing, Undisturbed, later
    <3>5. Followed(r, {"restart"})' = Followed(r, {"restart"})
      BY <3>2 DEF Followed, Same
    <3>6. PICK gone \in BOOLEAN : gone = Followed(r, {"restart"})
      BY DEF Followed
    <3>7. SshWrote(req[r], gone)'
      BY <1>1, <2>2, <3>2, <3>4, <3>6, SshEditGoesOn
    <3>8. SshWrote(req[r], Followed(r, {"restart"}))'
      BY <3>5, <3>6, <3>7
    <3>9. ASSUME NEW t \in Slots \ {r}, req'[t].at \notin {"done", "unsynced"}, req'[t].id = req'[r].id
          PROVE  FALSE
      <4>1. req'[t] = req[t] /\ Busy(t)
        BY <2>1, <2>2, <3>9 DEF Busy
      <4> QED
        BY <1>0, <2>1, <2>2, <3>2, <3>3, <3>9, <4>1, MetNobody
    <3> QED
      BY <3>8, <3>9
  <2>3. CASE o # r
    <3>1. /\ req'[r] = req[r] /\ req[r].id \in Ids /\ req[o].kind \in Kinds /\ Holds(req[r])
      BY <2>1, <2>3, RequestFields
    <3>2. ~Overlapped(r, Kinds) /\ ~Followed(r, later)
      BY <3>1, Remembered
    <3>3. /\ SshWrote(req[r], Followed(r, {"restart"}))
          /\ req[r].at = "done" => \A t \in Slots \ {r} :
               /\ Busy(t) /\ req[t].kind \in {"refresh", "probe"} /\ req[t].id = req[r].id
               /\ req[t].at \in {"nodes", "row", "probe"}
               => PortsAre(req[t].list, req[r].port)
      BY <3>1, <3>2 DEF SshEditing, Undisturbed, Others, later, PortsAre
    <3>4. /\ req[o].kind \notin Commits
          /\ req[o].id = req[r].id =>
               ~Busy(r) /\ req[o].kind \in {"operation", "refresh", "probe", "credsEdit"}
      BY <1>0, <1>1, <2>1, <2>3, <3>1, <3>2, MetNobody, StepOfKind
    <3>5. Followed(r, {"restart"})' = Followed(r, {"restart"})
      BY <3>1 DEF Followed, Same
    <3>6. CASE req[o].id # req[r].id
      <4>1. Intact(req[r].id)
        BY <1>1, <3>1, <3>6, TurnKeeps
      <4>2. \/ req'[o] = Idle
            \/ req'[o].id = req[o].id
        BY <2>1, <3>4 DEF Became
      <4>3. SshWrote(req[r], Followed(r, {"restart"}))'
        BY <3>1, <3>3, <3>5, <4>1 DEF SshWrote, Intact
      <4> QED
        BY <1>0, <2>1, <3>1, <3>3, <3>6, <4>2, <4>3 DEF Busy
    <3>7. CASE req[o].id = req[r].id
      <4>1. PICK i, w : i = req[r].id /\ w = req[r].port
        OBVIOUS
      <4>2. req[r].at = "done" /\ req[r].kind = "sshEdit"
        BY <3>1, <3>4, <3>7 DEF Busy, Holds, PointsOf
      <4>3. PortsAre(nodes[i], w)
        BY <3>3, <4>1, <4>2 DEF SshWrote, PortsAre
      <4>4. /\ UNCHANGED <<sshDisk, sshMemory>> /\ PortsAre(nodes'[i], w)
            /\ /\ req'[o].kind \in {"refresh", "probe"} /\ req'[o].at \in {"nodes", "row", "probe"}
               => PortsAre(req'[o].list, w)
        BY <1>1, <2>1, <2>3, <3>1, <3>3, <3>4, <3>7, <4>1, <4>2, <4>3, PortsBeside
      <4>5. SshWrote(req[r], Followed(r, {"restart"}))'
        <5>1. nodes'[req[r].id] = nodes'[i] /\ req'[r].at = "done"
          BY <3>1, <4>1, <4>2
        <5> QED
          BY <3>1, <3>3, <3>5, <4>1, <4>2, <4>4, <5>1 DEF SshWrote, PortsAre
      <4> QED
        BY <2>1, <3>1, <3>3, <4>1, <4>2, <4>4, <4>5 DEF Busy
    <3> QED
      BY <3>6, <3>7
  <2> QED
    BY <2>2, <2>3
<1>2. ASSUME Restart \/ (\E s \in Slots : Receive(s)) \/ UNCHANGED vars
      PROVE  fine
  <2>1. Begins(r) \/ Stays(r)
    BY <1>0, <1>2, Between
  <2>2. ASSUME NEW t \in Slots, Begins(t) PROVE req'[t].at \notin {"nodes", "row", "probe"}
    BY <2>2 DEF Begins, Anew, Alike, Fields, Starting, Commits
  <2>3. CASE Begins(r)
    <3>1. req'[r].at = "save"
      BY <2>3 DEF Begins, Anew, Alike, Fields, Starting, Commits
    <3> QED
      BY <3>1 DEF SshWrote
  <2>4. CASE Stays(r)
    <3>1. /\ req'[r].id = req[r].id /\ req'[r].kind = req[r].kind /\ req'[r].at = req[r].at
          /\ req'[r].port = req[r].port /\ req'[r].persist = req[r].persist /\ req'[r].n = req[r].n
          /\ req[r].met \subseteq req'[r].met /\ req[r].id \in Ids
      BY <2>4, RequestFields DEF Stays, Alike, Fields
    <3>2. ~Overlapped(r, Kinds) /\ ~Followed(r, later)
      BY <3>1, Remembered
    <3>3. /\ SshWrote(req[r], Followed(r, {"restart"}))
          /\ req[r].at = "done" => \A t \in Slots \ {r} :
               /\ Busy(t) /\ req[t].kind \in {"refresh", "probe"} /\ req[t].id = req[r].id
               /\ req[t].at \in {"nodes", "row", "probe"}
               => PortsAre(req[t].list, req[r].port)
      BY <3>1, <3>2 DEF SshEditing, Undisturbed, Others, later, PortsAre
    <3>4. Followed(r, {"restart"}) => Followed(r, {"restart"})'
      BY <3>1, Remembered
    <3>5. /\ UNCHANGED <<nodes, sshDisk>>
          /\ \/ sshMemory' = sshMemory
             \/ sshMemory'[req[r].id] = None /\ Followed(r, {"restart"})'
      <4>1. UNCHANGED <<nodes, sshDisk>>
        BY <1>2, Between DEF store
      <4>2. CASE AfterRestart \in req'[r].met
        <5>1. Followed(r, {"restart"})'
          BY <4>2 DEF Followed, Same, AfterRestart
        <5> QED
          BY <1>2, <3>1, <4>1, <5>1, Between DEF memory
      <4>3. CASE AfterRestart \notin req'[r].met
        <5>1. req'[r] # Idle
          BY <1>0
        <5> QED
          BY <1>2, <4>1, <4>3, <5>1, Between DEF memory
      <4> QED
        BY <4>2, <4>3
    <3>6. SshWrote(req[r], Followed(r, {"restart"}))'
      BY <3>1, <3>3, <3>4, <3>5 DEF SshWrote
    <3>7. ASSUME NEW t \in Slots \ {r}, req'[t].at \notin {"done", "unsynced"},
                 req'[t].kind \in {"refresh", "probe"}, req'[t].id = req'[r].id,
                 req'[t].at \in {"nodes", "row", "probe"}, req'[r].at = "done"
          PROVE  PortsAre(req'[t].list, req'[r].port)
      <4>1. Stays(t)
        BY <1>0, <1>2, <2>2, <3>7, Between
      <4>2. /\ req'[t].id = req[t].id /\ req'[t].kind = req[t].kind /\ req'[t].at = req[t].at
            /\ req'[t].list = req[t].list
        BY <4>1 DEF Stays, Alike, Fields
      <4> QED
        BY <3>1, <3>3, <3>7, <4>2 DEF Busy
    <3> QED
      BY <3>6, <3>7
  <2> QED
    BY <2>1, <2>3, <2>4
<1> QED
  BY <1>1, <1>2 DEF Next

-----------------------------------------------------------------------------
(* AliasAgrees: what a sync went past stays as it was.                      *)
LEMMA SyncGoesOn ==
  ASSUME RegistryTypeOK, NEW r \in Slots, req[r].kind \in Commits \cup {"delete"}, SyncWrote(req[r]),
         Step(r) \/ GiveUp(r)
  PROVE  req'[r] = Idle \/ SyncWrote(req[r])'
<1>1. PICK p, q : p = req[r] /\ q = req'[r]
  OBVIOUS
<1>2. /\ Holds(p) /\ SyncWrote(p) /\ p.kind \in Commits \cup {"delete"} /\ p.file \in Files
      /\ p.ids \in SUBSET Ids /\ Idle.file = [i \in Ids |-> None]
  BY <1>1, RequestFields DEF Idle
<1> SUFFICES ASSUME q # Idle
             PROVE  /\ q.at = "entries" => \A i \in Ids :
                         /\ clusters'[i] = None => i \notin q.ids /\ q.file[i] = None
                         /\ clusters'[i] # None => i \in q.ids \/ q.file[i] = admin'[i]
                    /\ q.at = "publish" => q.file = Listed'
                    /\ q.at = "done" => alias' = Listed'
  BY <1>1 DEF SyncWrote
<1>3. CASE SyncView(r)
  <2>1. PICK known : known = {i \in Ids : clusters[i] # None}
    OBVIOUS
  <2>2. /\ UNCHANGED store /\ p.at = "view" /\ Alike(p, q, {"at", "ids"}) /\ q.ids = known
        /\ q.at = IF known = {} THEN "publish" ELSE "entries"
    BY <1>1, <1>3, <2>1, SyncViewDoes DEF Goes
  <2>3. q.file = [i \in Ids |-> None]
    BY <1>2, <2>2, Unchanged DEF Holds
  <2>4. known = {} => Listed = [i \in Ids |-> None]
    BY <2>1 DEF Listed
  <2>5. Listed' = Listed
    BY <2>2 DEF Listed, store
  <2> QED
    BY <2>1, <2>2, <2>3, <2>4, <2>5 DEF store
<1>4. CASE SyncEntry(r)
  <2>1. PICK i \in p.ids :
          /\ q.ids = p.ids \ {i} /\ q.file = [p.file EXCEPT ![i] = admin[i]]
          /\ q.at = IF p.ids = {i} THEN "publish" ELSE "entries"
    BY <1>1, <1>4, SyncEntryDoes
  <2>2. UNCHANGED store /\ p.at = "entries"
    BY <1>1, <1>4, SyncEntryDoes
  <2>3. \A j \in Ids :
          /\ clusters[j] = None => j \notin p.ids /\ p.file[j] = None
          /\ clusters[j] # None => j \in p.ids \/ p.file[j] = admin[j]
    BY <1>2, <2>2 DEF SyncWrote
  <2>4. /\ q.file \in [Ids -> Creds \cup {None}] /\ q.file[i] = admin[i]
        /\ \A j \in Ids \ {i} : q.file[j] = p.file[j]
    <3>1. admin[i] \in Creds \cup {None} /\ i \in Ids
      BY <1>2 DEF RegistryTypeOK, Files
    <3> QED
      BY <1>2, <2>1, <3>1 DEF Files
  <2>5. \A j \in Ids :
          /\ clusters[j] = None => j \notin q.ids /\ q.file[j] = None
          /\ clusters[j] # None => j \in q.ids \/ q.file[j] = admin[j]
    BY <2>1, <2>3, <2>4
  <2>6. q.at = "publish" => q.file = Listed
    <3>1. q.at = "publish" => q.ids = {}
      BY <2>1
    <3>2. q.ids = {} => \A j \in Ids : q.file[j] = IF clusters[j] = None THEN None ELSE admin[j]
      BY <2>5
    <3> QED
      BY <2>4, <3>1, <3>2 DEF Listed
  <2>7. Listed' = Listed
    BY <2>2 DEF Listed, store
  <2> QED
    BY <2>1, <2>2, <2>5, <2>6, <2>7 DEF store
<1>5. CASE SyncPublish(r)
  <2>1. UNCHANGED store /\ p.at = "publish" /\ alias' = p.file /\ q.at = "done"
    BY <1>1, <1>5, SyncPublishDoes
  <2>2. Listed' = Listed /\ p.file = Listed
    BY <1>2, <2>1 DEF Listed, store, SyncWrote
  <2> QED
    BY <2>1, <2>2
<1>6. CASE GiveUp(r)
  <2>1. p.kind # "refresh" /\ ~Ends(r)
    BY <1>1, <1>2 DEF Ends, Commits
  <2> QED
    BY <1>1, <1>6, <2>1, GiveUpDoes
<1>7. CASE AllocateID(r)
  BY <1>1, <1>7, AllocateDoes DEF Ends
<1>8. CASE CommitNode(r)
  <2>1. q.at \in {"creds", "nodes"}
    BY <1>1, <1>8, CommitNodeDoes
  <2> QED
    BY <2>1
<1>9. CASE CommitRow(r) \/ CommitCreds(r) \/ DeleteCascade(r)
  BY <1>1, <1>9, CommitRowDoes, CommitCredsDoes, DeleteDoes
<1>10. CASE SaveSsh(r) \/ ForgetSsh(r) \/ DropClient(r)
  BY <1>1, <1>2, <1>10, SaveSshDoes, ForgetSshDoes, DropClientDoes DEF Commits
<1> QED
  BY <1>1, <1>2, <1>3, <1>4, <1>5, <1>6, <1>7, <1>8, <1>9, <1>10, StepOfKind

(* Rows are written by those who found one: what is listed stays.           *)
LEMMA ListedBeside ==
  ASSUME RegistryTypeOK, NEW o \in Slots, Step(o) \/ GiveUp(o),
         req[o].kind \in {"sshEdit", "operation", "refresh", "probe"},
         req[o].kind \in {"operation", "refresh"} /\ req[o].at # "get" => clusters[req[o].id] # None
  PROVE  /\ UNCHANGED <<admin, alias>> /\ \A i \in Ids : clusters'[i] = None <=> clusters[i] = None
         /\ req'[o].kind \in {"operation", "refresh"} /\ req'[o].at # "get" =>
              clusters'[req'[o].id] # None
<1>1. PICK p, q : p = req[o] /\ q = req'[o]
  OBVIOUS
<1>2. p.id \in Ids /\ Holds(p) /\ clusters \in [Ids -> Rows \cup {None}]
  BY <1>1, RequestFields DEF RegistryTypeOK
<1>3. UNCHANGED <<admin, alias>>
  BY <1>1, StepOfKind, SaveSshDoes, ForgetSshDoes, RememberSshDoes, ReadPortDoes, WritePortDoes,
     GetRowDoes, OperationPutDoes, OperationListDoes, OperationRefreshDoes, LoadCredsDoes,
     FindClientDoes, InsertClientDoes, CallServerDoes, MarkUnreachableDoes, ListNodesDoes,
     RefreshNodeDoes, RefreshRowDoes, ProbeNodeDoes, NoProbesDoes, GiveUpDoes DEF store
<1>4. \A i \in Ids : clusters[i] # None => clusters'[i] # None
  BY <1>1, Survives
<1>5. \A i \in Ids : i # p.id => clusters'[i] = clusters[i]
  BY <1>1, TurnKeeps DEF Intact
<1>6. q = Idle \/ (q.id = p.id /\ (q.kind = p.kind \/ q.kind = "probe"))
  BY <1>1, TurnDoes DEF Became, Commits
<1>7. CASE p.kind \in {"operation", "refresh"} /\ p.at # "get"
  BY <1>1, <1>2, <1>3, <1>4, <1>5, <1>6, <1>7 DEF Idle
<1>8. CASE p.kind \in {"operation", "refresh"} /\ p.at = "get"
  <2>1. UNCHANGED store /\ (clusters[p.id] = None => q = Idle)
    BY <1>1, <1>8, EndsAtGet DEF Ends
  <2> QED
    BY <1>1, <1>3, <1>6, <2>1 DEF Idle, store
<1>9. CASE p.kind \in {"sshEdit", "probe"}
  <2>1. clusters' = clusters
    BY <1>1, <1>9, StepOfKind, SaveSshDoes, ForgetSshDoes, RememberSshDoes, ReadPortDoes,
       WritePortDoes, ProbeNodeDoes, GiveUpDoes DEF store
  <2> QED
    BY <1>1, <1>3, <1>6, <1>9, <2>1 DEF Idle
<1> QED
  BY <1>1, <1>7, <1>8, <1>9

LEMMA Alongside ==
  ASSUME RegistryTypeOK, Met, NEW r \in Slots, NEW o \in Slots, r # o, Busy(o),
         req[r].kind # "none", \A e \in req[r].met : Harmless(e)
  PROVE  /\ req[o].kind \in {"sshEdit", "operation", "refresh", "probe"}
         /\ Busy(r) => req[o].kind = "sshEdit"
<1>1. req[o].kind # "restart"
  BY RequestFields DEF Kinds, Commits
<1>2. PICK e \in req[r].met :
        /\ e.kind = req[o].kind \/ (e.kind = "refresh" /\ req[o].kind = "probe")
        /\ Busy(r) => e.when = "with"
  BY DEF Met, Known
<1> QED
  BY <1>1, <1>2 DEF Harmless

LEMMA AliasingKept ==
  ASSUME RegistryTypeOK, Met, NEW r \in Slots, Aliasing(r), [Next]_vars
  PROVE  Aliasing(r)'
<1> DEFINE fine == /\ SyncWrote(req[r])'
                   /\ req'[r].at = "done" => \A t \in Slots \ {r} :
                        /\ req'[t].at \notin {"done", "unsynced"}
                        /\ req'[t].kind \in {"operation", "refresh"} /\ req'[t].at # "get"
                        => clusters'[req'[t].id] # None
<1> SUFFICES ASSUME req'[r].kind \in Commits \cup {"delete"}, \A e \in req'[r].met : Harmless(e)
             PROVE  fine
  <2>1. (\A e \in req[r].met : Harmless(e))' = (\A e \in req'[r].met : Harmless(e))
    BY DEF Harmless
  <2> QED
    BY <2>1 DEF Aliasing, Busy
<1>0. /\ Idle.kind = "none" /\ Idle.at = "done" /\ "none" \notin Commits \cup {"delete"}
      /\ "probe" \notin Commits \cup {"delete"} /\ "refresh" \notin Commits \cup {"delete"}
  BY DEF Idle, Commits
<1>1. ASSUME NEW o \in Slots, Step(o) \/ GiveUp(o)
      PROVE  fine
  <2>1. /\ Busy(o) /\ Became(req[o], req'[o])
        /\ \A t \in Slots \ {o} : req'[t] = req[t]
    BY <1>1, TurnDoes
  <2>2. CASE o = r
    <3>1. req'[r] # Idle
      BY <1>0
    <3>2. req'[r].met = req[r].met /\ req[r].kind \in Commits \cup {"delete"}
      BY <1>0, <2>1, <2>2, <3>1 DEF Became
    <3>3. SyncWrote(req[r])
      BY <3>2 DEF Aliasing
    <3>4. SyncWrote(req[r])'
      BY <1>1, <2>2, <3>1, <3>2, <3>3, SyncGoesOn
    <3>5. ASSUME NEW t \in Slots \ {r}, req'[t].at \notin {"done", "unsynced"},
                 req'[t].kind \in {"operation", "refresh"}
          PROVE  FALSE
      <4>1. req'[t] = req[t] /\ Busy(t)
        BY <2>1, <2>2, <3>5 DEF Busy
      <4> QED
        BY <1>0, <2>1, <2>2, <3>2, <3>5, <4>1, Alongside
    <3> QED
      BY <3>4, <3>5
  <2>3. CASE o # r
    <3>1. req'[r] = req[r]
      BY <2>1, <2>3
    <3>2. /\ SyncWrote(req[r])
          /\ req[r].at = "done" => \A t \in Slots \ {r} :
               Busy(t) /\ req[t].kind \in {"operation", "refresh"} /\ req[t].at # "get" =>
                 clusters[req[t].id] # None
      BY <3>1 DEF Aliasing
    <3>3. /\ req[o].kind \in {"sshEdit", "operation", "refresh", "probe"}
          /\ Busy(r) => req[o].kind = "sshEdit"
      BY <1>0, <2>1, <2>3, <3>1, Alongside
    <3>4. CASE req[r].at = "unsynced"
      BY <3>1, <3>4 DEF SyncWrote
    <3>5. CASE req[r].at # "unsynced"
      <4>1. /\ UNCHANGED <<admin, alias>> /\ \A i \in Ids : clusters'[i] = None <=> clusters[i] = None
            /\ req'[o].kind \in {"operation", "refresh"} /\ req'[o].at # "get" =>
                 clusters'[req'[o].id] # None
        BY <1>1, <2>1, <2>3, <3>2, <3>3, <3>5, ListedBeside DEF Busy
      <4>2. Listed' = Listed
        BY <4>1 DEF Listed
      <4>3. SyncWrote(req[r])'
        BY <3>1, <3>2, <4>1, <4>2 DEF SyncWrote
      <4>4. ASSUME NEW t \in Slots \ {r}, req'[r].at = "done", req'[t].at \notin {"done", "unsynced"},
                   req'[t].kind \in {"operation", "refresh"}, req'[t].at # "get"
            PROVE  clusters'[req'[t].id] # None
        <5>1. CASE t = o
          BY <4>1, <4>4, <5>1
        <5>2. CASE t # o
          <6>1. req'[t] = req[t] /\ req[t].id \in Ids
            BY <2>1, <5>2, RequestFields
          <6> QED
            BY <3>1, <3>2, <4>1, <4>4, <6>1 DEF Busy
        <5> QED
          BY <5>1, <5>2
      <4> QED
        BY <4>3, <4>4
    <3> QED
      BY <3>4, <3>5
  <2> QED
    BY <2>2, <2>3
<1>2. ASSUME Restart \/ (\E s \in Slots : Receive(s)) \/ UNCHANGED vars
      PROVE  fine
  <2>1. Begins(r) \/ Stays(r)
    BY <1>0, <1>2, Between
  <2>2. ASSUME NEW t \in Slots, Begins(t), req'[t].kind \in {"operation", "refresh"}
        PROVE  req'[t].at = "get"
    BY <2>2 DEF Begins, Anew, Alike, Fields, Starting, Commits
  <2>3. CASE Begins(r)
    <3>1. req'[r].at \in {"alloc", "tx"}
      BY <1>0, <2>3 DEF Begins, Anew, Alike, Fields, Starting, Commits
    <3> QED
      BY <3>1 DEF SyncWrote
  <2>4. CASE Stays(r)
    <3>1. /\ req'[r].kind = req[r].kind /\ req'[r].at = req[r].at /\ req'[r].ids = req[r].ids
          /\ req'[r].file = req[r].file /\ req[r].met \subseteq req'[r].met
      BY <2>4 DEF Stays, Alike, Fields
    <3>2. /\ SyncWrote(req[r])
          /\ req[r].at = "done" => \A t \in Slots \ {r} :
               Busy(t) /\ req[t].kind \in {"operation", "refresh"} /\ req[t].at # "get" =>
                 clusters[req[t].id] # None
      BY <3>1 DEF Aliasing
    <3>3. /\ UNCHANGED <<clusters, admin>> /\ Listed' = Listed
          /\ alias' = alias \/ alias' = Listed
      BY <1>2, Between DEF store, Listed
    <3>4. SyncWrote(req[r])'
      BY <3>1, <3>2, <3>3 DEF SyncWrote
    <3>5. ASSUME NEW t \in Slots \ {r}, req'[r].at = "done", req'[t].at \notin {"done", "unsynced"},
                 req'[t].kind \in {"operation", "refresh"}, req'[t].at # "get"
          PROVE  clusters'[req'[t].id] # None
      <4>1. Stays(t)
        BY <1>0, <1>2, <2>2, <3>5, Between
      <4>2. req'[t].id = req[t].id /\ req'[t].kind = req[t].kind /\ req'[t].at = req[t].at
        BY <4>1 DEF Stays, Alike, Fields
      <4> QED
        BY <3>1, <3>2, <3>3, <3>5, <4>2 DEF Busy
    <3> QED
      BY <3>4, <3>5
  <2> QED
    BY <2>1, <2>3, <2>4
<1> QED
  BY <1>1, <1>2 DEF Next

-----------------------------------------------------------------------------
LEMMA InitialInvariant == Init => IInv
<1> SUFFICES ASSUME Init PROVE IInv
  OBVIOUS
<1>1. RegistryTypeOK
  BY InitialTypes
<1>2. \A r \in Slots : req[r].kind = "none" /\ req[r].at = "done"
  BY DEF Init, Idle
<1>3. Met
  BY <1>2 DEF Met, Busy
<1>4. ASSUME NEW r \in Slots
      PROVE  /\ Committing(r) /\ Deleting(r) /\ Refreshing(r)
             /\ CredsEditing(r) /\ SshEditing(r) /\ Aliasing(r)
  BY <1>2 DEF Committing, Deleting, Refreshing, CredsEditing, SshEditing, Aliasing, Undisturbed, Commits
<1> QED
  BY <1>1, <1>3, <1>4 DEF IInv

(* The inductive invariant: the history is complete, and what each request  *)
(* wrote is there as long as the history has nothing that may undo it.      *)
THEOREM RegistryInvariant == Spec => []IInv
<1>1. IInv /\ [Next]_vars => IInv'
  <2> SUFFICES ASSUME IInv, [Next]_vars PROVE IInv'
    OBVIOUS
  <2>1. RegistryTypeOK /\ Met
    BY DEF IInv
  <2>2. RegistryTypeOK' /\ Met'
    BY <2>1, TypesKept, MetKept
  <2>3. ASSUME NEW r \in Slots
        PROVE  /\ Committing(r)' /\ Deleting(r)' /\ Refreshing(r)'
               /\ CredsEditing(r)' /\ SshEditing(r)' /\ Aliasing(r)'
    <3>1. /\ Committing(r) /\ Deleting(r) /\ Refreshing(r)
          /\ CredsEditing(r) /\ SshEditing(r) /\ Aliasing(r)
      BY DEF IInv
    <3> QED
      BY <2>1, <3>1, CommittingKept, DeletingKept, RefreshingKept, CredsEditingKept, SshEditingKept,
         AliasingKept
  <2> QED
    BY <2>2, <2>3 DEF IInv
<1> QED
  BY InitialInvariant, <1>1, PTL DEF Spec

(* A commit that ended well is a usable cluster, whatever other commits,    *)
(* refreshes, edits, operations and restarts met it (allocateClusterID and  *)
(* the commits of import and deploy), as long as nobody deletes it.         *)
THEOREM CommitStaysUsable == Spec => []CommitIsUsable
<1>1. IInv => CommitIsUsable
  <2> SUFFICES ASSUME IInv, NEW r \in Slots, Done(r, Commits), ~Overlapped(r, {"delete"}),
                      ~Followed(r, {"delete"})
               PROVE  LET i == req[r].id IN
                      /\ clusters[i] # None /\ admin[i] # None
                      /\ \A k \in Nodes : req[r].list[k] # None => nodes[i][k] # None
    BY DEF CommitIsUsable
  <2>1. CommitWrote(req[r]) /\ req[r].at \in {"done", "unsynced"}
    BY DEF IInv, Committing, Done, Busy
  <2> QED
    BY <2>1 DEF CommitWrote
<1> QED
  BY RegistryInvariant, <1>1, PTL

(* The four edits of a cluster leave what they say, and what later requests *)
(* read before or after them does not bring the old state back: a delete is *)
(* final, a refresh exact, new credentials and SSH settings are the ones    *)
(* that are used.                                                           *)
THEOREM EditsAlwaysStick == Spec => []EditsStick
<1>1. IInv => DeleteIsFinal
  <2> SUFFICES ASSUME IInv, NEW r \in Slots, Alone(r, {"delete"}, Commits \cup {"credsEdit", "sshEdit"})
               PROVE  LET i == req[r].id IN
                      /\ clusters[i] = None /\ nodes[i] = NoNodes /\ admin[i] = None
                      /\ sshDisk[i] = None /\ pool[i] = None
    BY DEF DeleteIsFinal
  <2>1. DeleteLeft(req[r]) /\ req[r].at \in {"done", "unsynced"}
    BY DEF IInv, Deleting, Undisturbed, Alone, Done, Busy
  <2> QED
    BY <2>1 DEF DeleteLeft
<1>2. IInv => RefreshIsExact
  <2> SUFFICES ASSUME IInv, NEW r \in Slots, Alone(r, {"refresh"}, Kinds \ {"credsEdit", "sshEdit"})
               PROVE  LET q == req[r]  row == clusters[q.id]  list == nodes[q.id] IN
                      /\ row # None
                      /\ q.answer = None => ~row.reachable /\ row.health = "unknown"
                      /\ q.answer = None /\ q.creds # None => \A k \in Nodes : LostNode(list[k]) = list[k]
                      /\ q.answer # None =>
                           /\ row.reachable /\ row.engine = q.answer.engine /\ row.health = Health(list)
                           /\ \A k \in Nodes : MergeNode(list[k], q.answer.facts[k]) = list[k]
    BY DEF RefreshIsExact
  <2>1. RefreshWrote(req[r], clusters[req[r].id], nodes[req[r].id])
    BY DEF IInv, Refreshing, Undisturbed, Alone, Done
  <2>2. req[r].at = "done"
    BY RequestFields DEF IInv, Alone, Done, Busy, Holds, PointsOf
  <2> QED
    BY <2>1, <2>2 DEF RefreshWrote, RowSays, Merged
<1>3. IInv => CredsEditSticks
  <2> SUFFICES ASSUME IInv, NEW r \in Slots,
                      Alone(r, {"credsEdit"}, Commits \cup {"delete", "credsEdit"})
               PROVE  admin[req[r].id] = req[r].creds /\ pool[req[r].id] \in {None, req[r].creds}
    BY DEF CredsEditSticks
  <2>1. /\ req[r].at # "put" => admin[req[r].id] = req[r].creds
        /\ req[r].at = "done" => pool[req[r].id] \in {None, req[r].creds}
    BY DEF IInv, CredsEditing, Undisturbed, Alone, Done
  <2>2. req[r].at = "done"
    BY RequestFields DEF IInv, Alone, Done, Busy, Holds, PointsOf
  <2> QED
    BY <2>1, <2>2
<1>4. IInv => SshEditSticks
  <2> SUFFICES ASSUME IInv, NEW r \in Slots, Alone(r, {"sshEdit"}, Commits \cup {"delete", "sshEdit"})
               PROVE  LET q == req[r] IN
                      /\ q.persist \/ ~Followed(r, {"restart"}) => SshInForce(q.id) = q.port
                      /\ \A k \in Nodes : nodes[q.id][k] # None => nodes[q.id][k].port = q.port
    BY DEF SshEditSticks
  <2>1. SshWrote(req[r], Followed(r, {"restart"}))
    BY DEF IInv, SshEditing, Undisturbed, Alone, Done
  <2>2. req[r].at = "done" /\ req[r].port # None
    BY RequestFields DEF IInv, Alone, Done, Busy, Holds, PointsOf
  <2> QED
    BY <2>1, <2>2 DEF SshWrote, SshInForce
<1> QED
  BY RegistryInvariant, <1>1, <1>2, <1>3, <1>4, PTL DEF EditsStick

(* The alias file bm-cli reads lists the clusters and credentials of the    *)
(* store when a commit or delete that no other writer met has synced it     *)
(* (alias.Sync), and until the next writer.                                 *)
THEOREM AliasFileAgrees == Spec => []AliasAgrees
<1>1. IInv => AliasAgrees
  <2> SUFFICES ASSUME IInv, NEW r \in Slots, Done(r, Commits \cup {"delete"}), req[r].at = "done",
                      \A e \in req[r].met : Harmless(e)
               PROVE  alias = Listed
    BY DEF AliasAgrees
  <2> QED
    BY DEF IInv, Aliasing, SyncWrote, Done
<1> QED
  BY RegistryInvariant, <1>1, PTL
=============================================================================
