------------------------------- MODULE Deploy -------------------------------
(***************************************************************************)
(* cluster_deploy (internal/deploy: executor.go, install.go, verify.go):   *)
(* one goroutine a host takes it through the installation over SSH, the    *)
(* cluster is verified through its first host, then committed.  A failed   *)
(* deployment leaves the hosts as they are and may be tried again, with    *)
(* another draft.                                                          *)
(*                                                                         *)
(* A remote command takes effect or not, and its answer may be lost; it    *)
(* does nothing once the manager has given it up.  The commit's own writes *)
(* are in ClusterRegistry.  A host is its position in the draft.           *)
(***************************************************************************)
EXTENDS DeployPlan, SshPool

CONSTANTS
  Drafts,       \* drafts the wizard may send, for each attempt
  HostKind,     \* the package format of each host, None: no package manager
  Concurrencies,  \* hosts installed at once, as the environment of the manager says
  MaxAttempts   \* deployments tried (bound)

ASSUME DeployAssumption ==
  /\ Concurrencies \subseteq Nat \ {0}
  /\ MaxAttempts \in Nat
  /\ Hosts \subseteq Callers  \* each host's goroutine asks the pool for its client
  /\ HostKind \in [Hosts -> {"rpm", "deb", None}]
  /\ \A n \in 1..MaxAttempts : \A d \in Drafts[n] :
       /\ {"hosts", "mounts", "ssh"} \subseteq DOMAIN d
       /\ d.hosts \in Seq(Names) /\ d.mounts \in Seq(Names) /\ d.ssh \in Logins
       /\ FromDraft(d) # None

VARIABLES
  concurrency,
  params,     \* the draft being deployed
  task,       \* where the executor is
  cancelled,  \* its context was cancelled
  attempts,
  work,       \* where each host's goroutine is, and the checksum it expects
  disk,       \* each host: files, installed package, running service
  report,     \* the servers that answered the verification
  cluster     \* what was committed

deployVars == <<concurrency, params, task, cancelled, attempts, work, disk, report, cluster>>

\* Hosts installed at once: never more than there are, so that one host is a sequence.
Slots == IF concurrency < Len(params.hosts) THEN concurrency ELSE Len(params.hosts)

Members == IF params = None THEN {} ELSE DOMAIN params.hosts

Resting == {"queued", "healthy", "failed"}
Installed == {"storage", "certs", "secondary", "primary", "start", "timedOut", "redial",
              "stopping", "health", "healthy"}

Fresh == [h \in Hosts |-> [at |-> "queued", sum |-> None]]

DeployInit ==
  /\ concurrency \in Concurrencies
  /\ params = None
  /\ task = "idle"
  /\ cancelled = FALSE
  /\ attempts = 0
  /\ work = Fresh
  /\ disk = [h \in Hosts |-> [file |-> None, pkg |-> None, mounts |-> {}, certs |-> FALSE,
                              secondary |-> None, primary |-> None, live |-> None]]
  /\ report = {}
  /\ cluster = None

\* Validate, when the task is dispatched.
Dispatch ==
  /\ task \in {"idle", "failed"}
  /\ attempts < MaxAttempts
  /\ \E d \in Drafts[attempts + 1], versions \in SupportedVersions :
       /\ Remember(versions)
       /\ Validate(FromDraft(d), versions)
       /\ params' = FromDraft(d)
  /\ task' = "dispatched"
  /\ cancelled' = FALSE
  /\ attempts' = attempts + 1
  /\ work' = Fresh
  /\ UNCHANGED <<disk, report, cluster, asset, sidecar, poolVars>>

\* Execute validates again, against the listing of the day.
Execute ==
  /\ task = "dispatched"
  /\ Members \subseteq Hosts
  /\ \E versions \in SupportedVersions :
       /\ Remember(versions)
       /\ task' = IF Validate(params, versions) THEN "installing" ELSE "failed"
  /\ UNCHANGED <<params, cancelled, attempts, work, disk, report, cluster, asset, sidecar, poolVars>>

Cancel ==
  /\ task \in {"installing", "verifying", "committing"}
  /\ ~cancelled
  /\ cancelled' = TRUE
  /\ UNCHANGED <<params, task, attempts, work, disk, report, cluster, siteVars, poolVars>>

-----------------------------------------------------------------------------
\* Install, one host.

MoveTo(h, at) == work' = [work EXCEPT ![h].at = at]

HostStep == UNCHANGED <<params, task, cancelled, attempts, report, cluster>>

\* One host at a time, the next is taken up only after a success.
Begin(h) ==
  /\ task = "installing"
  /\ h \in Members
  /\ work[h].at = "queued"
  /\ Cardinality({g \in Members : work[g].at \notin Resting}) < Slots
  /\ Slots = 1 => ~cancelled /\ \A g \in 1..(h - 1) : work[g].at = "healthy"
  /\ MoveTo(h, IF cancelled THEN "failed" ELSE "dial")
  /\ UNCHANGED <<disk, siteVars, poolVars>>
  /\ HostStep

\* Pool.Get, from the first lock to its answer.
Acquire(h, from, got, notGot) ==
  /\ work[h].at = from
  /\ Get(h, [host |-> h, login |-> params.ssh]) \/ Dialled(h) \/ DialFails(h)
  /\ MoveTo(h, CASE call'[h].at = "has" -> got [] call'[h].at = "dialing" -> from
                 [] call'[h].at = "idle" -> notGot)
  /\ UNCHANGED <<disk, siteVars>>
  /\ HostStep

DialHost(h) == Acquire(h, "dial", "resolve", "failed")

\* The host's package manager, the file for it, and the checksum to expect.
Resolve(h) ==
  /\ work[h].at = "resolve"
  /\ \/ \E versions \in SupportedVersions :
          /\ Remember(versions)
          /\ LET artifact == ArtifactForKind(params, versions, HostKind[h])
             IN  /\ HostKind[h] # None /\ artifact # None /\ Usable(call[h].client)
                 /\ \E sum \in FetchChecksum(params.version, artifact, versions) \ {None} :
                      work' = [work EXCEPT ![h] = [at |-> "download", sum |-> sum]]
     \/ MoveTo(h, "failed") /\ UNCHANGED listed
  /\ UNCHANGED <<disk, asset, sidecar, poolVars>>
  /\ HostStep

\* A command run on the host: done and answered, done and not answered, or not done.
Command(h, at, next, after) ==
  /\ work[h].at = at
  /\ \/ /\ Usable(call[h].client)
        /\ disk' = [disk EXCEPT ![h] = after]
        /\ \E answer \in {next, "failed"} : MoveTo(h, answer)
     \/ MoveTo(h, "failed") /\ UNCHANGED disk
  /\ UNCHANGED <<siteVars, poolVars>>
  /\ HostStep

\* Of the release's files, what the expected checksum is of.
DownloadPackage(h) ==
  Command(h, "download", "verify",
          [disk[h] EXCEPT !.file = Download(params.version, work[h].sum.file)])

\* Mutant: a file that does not match is installed.
M_VerifyChecksum(h) == Command(h, "verify", "install", disk[h])

VerifyChecksum(h) ==
  Command(h, "verify", IF disk[h].file = work[h].sum THEN "install" ELSE "failed", disk[h])

InstallPackage(h) ==
  Command(h, "install", "storage", [disk[h] EXCEPT !.pkg = disk[h].file])

PrepareStorage(h) ==
  Command(h, "storage", IF params.tls = None THEN "secondary" ELSE "certs",
          [disk[h] EXCEPT !.mounts = ToSet(params.mounts)])

WriteCerts(h) == Command(h, "certs", "secondary", [disk[h] EXCEPT !.certs = TRUE])

\* The file of the root credentials first, so that the other never names a missing one.
WriteSecondary(h) ==
  Command(h, "secondary", "primary", [disk[h] EXCEPT !.secondary = params.creds])

WritePrimary(h) ==
  Command(h, "primary", "start", [disk[h] EXCEPT !.primary = RenderConfigEnv(params)])

\* What the service runs with, from when it starts to when it stops.
Loaded(d) == [env |-> d.primary, creds |-> d.secondary]

\* enable --now starts a service that is stopped and leaves a running one alone.
StartService(h) ==
  LET started == [disk[h] EXCEPT !.live = IF @ = None THEN Loaded(disk[h]) ELSE @]
  IN  /\ \/ Command(h, "start", "health", started)
         \/ Command(h, "start", "timedOut", started)
         \/ /\ work[h].at = "start"
            /\ MoveTo(h, "timedOut")
            /\ UNCHANGED <<disk, siteVars, poolVars>>
            /\ HostStep

\* After the start timed out: a new client, the diagnostics, and a stop that may fail.
DropClient(h) ==
  /\ work[h].at = "timedOut"
  /\ Drop(h)
  /\ MoveTo(h, "redial")
  /\ UNCHANGED <<disk, siteVars>>
  /\ HostStep

Reconnect(h) == Acquire(h, "redial", "stopping", "stopping")

StopBestEffort(h) == Command(h, "stopping", "failed", [disk[h] EXCEPT !.live = None])

\* The probe goes to the port and scheme of the draft.
WaitHealthy(h) ==
  LET live == disk[h].live
  IN  Command(h, "health",
              IF live # None /\ live.env.port = params.port /\ live.env.tls = (params.tls # None)
              THEN "healthy" ELSE "failed",
              disk[h])

InstallStep(h) ==
  \/ Begin(h) \/ DialHost(h) \/ Resolve(h) \/ DownloadPackage(h) \/ VerifyChecksum(h)
  \/ InstallPackage(h) \/ PrepareStorage(h) \/ WriteCerts(h) \/ WriteSecondary(h)
  \/ WritePrimary(h) \/ StartService(h) \/ DropClient(h) \/ Reconnect(h)
  \/ StopBestEffort(h) \/ WaitHealthy(h)

-----------------------------------------------------------------------------
\* The executor.

\* Mutant: a host that failed does not fail the deployment.
M_HostsDone ==
  /\ task = "installing"
  /\ \A h \in Members : work[h].at \in Resting
  /\ \/ \A h \in Members : work[h].at # "queued"
     \/ Slots = 1 /\ (cancelled \/ \E h \in Members : work[h].at = "failed")
  /\ task' = IF cancelled THEN "failed" ELSE "verifying"
  /\ UNCHANGED <<params, cancelled, attempts, work, disk, report, cluster, siteVars, poolVars>>

\* Every host is through; or, one at a time, one failed or the context ended.
HostsDone ==
  /\ task = "installing"
  /\ \A h \in Members : work[h].at \in Resting
  /\ \/ \A h \in Members : work[h].at # "queued"
     \/ Slots = 1 /\ (cancelled \/ \E h \in Members : work[h].at = "failed")
  /\ task' = IF cancelled \/ \E h \in Members : work[h].at # "healthy" THEN "failed" ELSE "verifying"
  /\ UNCHANGED <<params, cancelled, attempts, work, disk, report, cluster, siteVars, poolVars>>

\* The servers the first host knows of: those its own volumes name.
Servers(live) ==
  1..(IF live.env.volumes = {} \/ \E v \in live.env.volumes : v.host = None THEN 1
      ELSE Cardinality(UNION {NamesOf(v.host) : v \in live.env.volumes}))

\* ServerInfo with the draft's credentials, on the draft's port of the first host.
\* Servers whose environment differs do not join one another.
VerifyCluster ==
  LET live == disk[1].live
  IN  /\ task = "verifying"
      /\ \/ /\ live # None
            /\ live.creds = params.creds /\ live.env.port = params.port
            /\ live.env.tls = (params.tls # None)
            /\ \A s \in Servers(live) : disk[s].live = live
            /\ report' = Servers(live)
            /\ task' = "committing"
         \/ task' = "failed" /\ UNCHANGED report
      /\ UNCHANGED <<params, cancelled, attempts, work, disk, cluster, siteVars, poolVars>>

Commit ==
  /\ task = "committing"
  /\ \/ /\ cluster' = [draft |-> params, servers |-> report]
        /\ task' = "done"
     \/ task' = "failed" /\ UNCHANGED cluster
  /\ UNCHANGED <<params, cancelled, attempts, work, disk, report, siteVars, poolVars>>

\* systemd starts a service that ended again, with what is on disk by then.
ServiceRestarts(h) ==
  /\ disk[h].live # None
  /\ disk' = [disk EXCEPT ![h].live = Loaded(disk[h])]
  /\ UNCHANGED <<work, siteVars, poolVars>>
  /\ HostStep

\* Releases move.  (A connection that breaks is a command that fails.)
ReleaseMoves ==
  /\ SiteNext
  /\ UNCHANGED <<params, task, cancelled, attempts, work, disk, report, cluster, poolVars>>

DeployNext ==
  /\ UNCHANGED concurrency
  /\ \/ Dispatch \/ Execute \/ Cancel
     \/ \E h \in Hosts : InstallStep(h) \/ ServiceRestarts(h)
     \/ HostsDone \/ VerifyCluster \/ Commit
     \/ ReleaseMoves

-----------------------------------------------------------------------------
(* What a host installs, and what it has installed from then on, is a      *)
(* package of the host's own format that matched the checksum fetched for  *)
(* it, whatever the release site published in between, and whichever      *)
(* answers were lost (install.go:116-139).                                 *)
DeployedIsVerified ==
  \A h \in Hosts :
    /\ work[h].at = "install" => disk[h].file = work[h].sum
    /\ work[h].at \in Installed => disk[h].pkg = work[h].sum /\ work[h].sum.file.kind = HostKind[h]

(* A cluster is committed only once every host of the draft is ready to    *)
(* run it: its package, its drives, its certificates and both environment  *)
(* files are the draft's, and the servers that answered the verification   *)
(* have the credentials that are stored, after a restart as well as before *)
(* (executor.go:165, verify.go:24).  On the way there, no host's environment *)
(* names a file of credentials that is missing (install.go:164).  A server *)
(* outside the draft may have answered too: an earlier, larger draft left  *)
(* it running, and what it loads next is what the drafts since wrote there. *)
CommitRunsDraft ==
  /\ \A h \in Hosts : disk[h].primary # None => disk[h].secondary # None
  /\ cluster # None =>
       /\ \A h \in DOMAIN cluster.draft.hosts :
            /\ disk[h].pkg # None
            /\ disk[h].mounts = ToSet(cluster.draft.mounts)
            /\ cluster.draft.tls # None => disk[h].certs
            /\ disk[h].primary = RenderConfigEnv(cluster.draft)
            /\ disk[h].secondary = cluster.draft.creds
       /\ \A s \in cluster.servers \cap DOMAIN cluster.draft.hosts :
            disk[s].live # None => disk[s].live.creds = cluster.draft.creds

(* The drafts that get this far are those whose plan is faithful.          *)
DeployPlanIsFaithful == task = "dispatched" => PlanIsFaithful(params)
=============================================================================
