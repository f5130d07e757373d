--------------------------- MODULE InstallsProofs ---------------------------
(* Theorems about Installs, for any hosts, drafts, releases and requests,   *)
(* and any number of attempts, uploads and connections.                     *)
EXTENDS Installs, DeployPlanProofs

-----------------------------------------------------------------------------
(* The pool: a client that was made is counted, and no client is both kept  *)
(* and closed.                                                              *)

Made(client) == client.n <= dials[client.key]

PoolInv ==
  /\ PoolTypeOK
  /\ \A k \in PoolKeys : entries[k] # NoClient =>
       entries[k].key = k /\ Made(entries[k]) /\ entries[k] \notin closed
  /\ \A client \in closed : Made(client)
  /\ \A c \in Callers :
       /\ call[c].at = "dialing" => call[c].key \in PoolKeys
       /\ call[c].at = "has" => call[c].client.key = call[c].key
  /\ shut => \A k \in PoolKeys : entries[k] = NoClient

(* A goroutine that is under way has a draft, which names a login.          *)
DraftInv ==
  /\ params # None => params.ssh \in Logins /\ params.creds # None
  /\ \A h \in Hosts : work[h].at # "queued" => params # None

(* A host has the file it expects from the checksum's comparison on, and    *)
(* its package from the installation on; what it expects is of its format.  *)
(* By each later stage it has what the draft says: its drives, certificates *)
(* and environment.  No environment was ever written before the credentials *)
(* it names.                                                                *)
AfterPrimary == {"start", "timedOut", "redial", "stopping", "health", "healthy"}
AfterStorage == {"certs", "secondary", "primary"} \cup AfterPrimary

HostOK(h, w, d) ==
  /\ DOMAIN w = {"at", "sum"}
  /\ DOMAIN d = {"file", "pkg", "mounts", "certs", "secondary", "primary", "live"}
  /\ w.at \in {"download", "verify", "install"} \cup Installed =>
       w.sum # None /\ w.sum.file.kind = HostKind[h]
  /\ w.at = "install" => d.file = w.sum
  /\ w.at \in Installed => d.pkg = w.sum
  /\ w.at \in AfterStorage => d.mounts = ToSet(params.mounts)
  /\ w.at \in AfterStorage \ {"certs"} /\ params.tls # None => d.certs
  /\ w.at \in {"primary"} \cup AfterPrimary => d.secondary = params.creds
  /\ w.at \in AfterPrimary => d.primary = RenderConfigEnv(params)
  /\ d.primary # None => d.secondary # None

HostInv ==
  /\ DOMAIN work = Hosts /\ DOMAIN disk = Hosts
  /\ \A h \in Hosts : HostOK(h, work[h], disk[h])

(* From the verification on every host of the draft is through and stays as *)
(* it is but for restarts, after which those that answered still run with   *)
(* the draft's credentials; a draft is committed once.                      *)
TaskInv ==
  /\ task # "idle" => params # None
  /\ task \in {"installing", "verifying", "committing", "done"} => Members \subseteq Hosts
  /\ task \in {"verifying", "committing", "done"} => \A h \in Members : work[h].at = "healthy"
  /\ task \in {"committing", "done"} =>
       \A s \in report \cap Members : disk[s].live # None => disk[s].live.creds = params.creds
  /\ cluster # None => task = "done" /\ cluster.draft = params /\ cluster.servers = report

(* A preparation under way has the artifact it was planned with, and the    *)
(* binary in place is the verified one once its checksum was compared.      *)
LocalInv ==
  /\ DOMAIN prepare = {"at", "req", "plan", "versions", "sum"}
  /\ {"binary"} \subseteq DOMAIN fs
  /\ prepare.at \in {"dirs", "checksum"} => LocalArtifact(prepare.req, prepare.versions) # None
  /\ prepare.at \in {"download", "rename", "verify", "certs", "script", "launcher", "ok"} =>
       prepare.sum.file.os = goos
  /\ prepare.at \in {"certs", "script", "launcher", "ok"} => fs.binary = prepare.sum

(* What a preparation has written by each step is of its own request; the   *)
(* directories it made are there to stay.                                   *)
Written(at) ==
  /\ at \in {"checksum", "download", "rename", "verify", "certs", "script", "launcher", "ok"} =>
       ToSet(prepare.plan.paths) \subseteq fs.dirs
  /\ at \in {"script", "launcher", "ok"} /\ prepare.req.tls # None => fs.certs = prepare.req.tls
  /\ at \in {"launcher", "ok"} => fs.script = RenderScript
  /\ at = "ok" /\ goos = "windows" => fs.launcher

(* A plan is one that PreviewPlan accepts: more than one drive are in sets   *)
(* of a legal size, of which at most half the drives are for parity.        *)
SoundPlan(plan) ==
  /\ plan.paths \in Seq(DataPaths)
  /\ Len(plan.paths) > 1 =>
       /\ plan.setSize = ComputeSetSize(Len(plan.paths)) /\ plan.setSize \in SetSizes
       /\ plan.parity \in 0..(plan.setSize \div 2)

WholeInv ==
  /\ DOMAIN fs = {"dirs", "used", "temp", "binary", "certs", "script", "launcher"}
  /\ Written(prepare.at)
  /\ prepare.at \notin {"idle", "error"} => SoundPlan(prepare.plan)

(* The pointer is never older than what an update saw installed before it   *)
(* decided to go on, and signatures only move forward.                      *)
KnownTags == ReleaseTags \cup InitialTags

UpdateInv ==
  /\ uploaded \in [ReleaseTags -> Nat] /\ signed \in [ReleaseTags -> Nat]
  /\ pointer.tag \in ReleaseTags /\ exe.tag \in KnownTags
  /\ DOMAIN update = Updates
  /\ \A u \in Updates :
       /\ DOMAIN update[u] = {"at", "seen", "release", "body"}
       /\ update[u].at # "idle" => update[u].seen \in KnownTags
       /\ update[u].at = "refetch" => ~Newer(update[u].seen, pointer.tag)
       /\ update[u].at \in {"download", "verify", "applied"} =>
            update[u].release.tag \in ReleaseTags /\ ~Newer(update[u].seen, update[u].release.tag)
       /\ update[u].at = "applied" =>
            /\ update[u].body = update[u].release
            /\ update[u].body.upload \in Nat
            /\ signed[update[u].release.tag] >= update[u].body.upload

(* A draft that is dispatched names hosts and mounts, and its sizes were    *)
(* accepted.                                                                *)
PlanInv ==
  task = "dispatched" =>
    /\ params.hosts \in Seq(Names) /\ params.hosts # <<>>
    /\ params.mounts \in Seq(Names) /\ params.mounts # <<>>
    /\ ValidateTopology(params)

IInv ==
  /\ attempts \in Nat
  /\ PoolInv /\ DraftInv /\ HostInv /\ TaskInv /\ PlanInv
  /\ LocalInv /\ WholeInv /\ UpdateInv

LEMMA MinIsIn ==
  ASSUME NEW I, I \subseteq Nat, I # {}
  PROVE  Min(I) \in I
BY Least DEF Min

-----------------------------------------------------------------------------
(* The pool, whoever calls it.                                              *)

LEMMA PoolStep ==
  ASSUME PoolInv, [PoolNext]_poolVars
  PROVE  PoolInv'
<1> USE SshPoolAssumption
<1> USE DEF Made
<1>1. ASSUME NEW c \in Callers, NEW k \in PoolKeys, Get(c, k)
      PROVE  PoolInv'
  <2>1. CASE call' = [call EXCEPT ![c] = Idle] /\ UNCHANGED <<entries, closed>>
    BY <1>1, <2>1 DEF PoolInv, PoolTypeOK, Get, Idle
  <2>2. CASE /\ Usable(entries[k])
             /\ call' = [call EXCEPT ![c] = [at |-> "has", key |-> k, client |-> entries[k]]]
             /\ UNCHANGED <<entries, closed>>
    BY <1>1, <2>2 DEF PoolInv, PoolTypeOK, Get, Usable
  <2>3. CASE /\ closed' = closed \cup ({entries[k]} \ {NoClient})
             /\ entries' = [entries EXCEPT ![k] = NoClient]
             /\ call' = [call EXCEPT ![c] = [at |-> "dialing", key |-> k, client |-> NoClient]]
    <3>1. PoolTypeOK'
      BY <1>1, <2>3 DEF PoolInv, PoolTypeOK, Get
    <3>2. ASSUME NEW j \in PoolKeys, entries'[j] # NoClient
          PROVE  entries'[j].key = j /\ Made(entries[j])' /\ entries'[j] \notin closed'
      <4>1. j # k /\ entries'[j] = entries[j]
        BY <2>3, <3>2 DEF PoolInv, PoolTypeOK
      <4>2. entries[j].key = j /\ Made(entries[j]) /\ entries[j] \notin closed
        BY <4>1, <3>2 DEF PoolInv
      <4>3. entries[j] # entries[k] \/ entries[k] = NoClient
        BY <4>1, <4>2 DEF PoolInv
      <4>4. entries[j] \notin closed'
        BY <2>3, <3>2, <4>1, <4>2, <4>3
      <4>5. dials' = dials
        BY <1>1 DEF Get
      <4> QED
        BY <4>1, <4>2, <4>4, <4>5
    <3>3. \A d \in Callers : /\ call'[d].at = "dialing" => call'[d].key \in PoolKeys
                             /\ call'[d].at = "has" => call'[d].client.key = call'[d].key
      BY <1>1, <2>3 DEF PoolInv, PoolTypeOK, Get
    <3> QED
      BY <1>1, <2>3, <3>1, <3>2, <3>3 DEF PoolInv, PoolTypeOK, Get
  <2> QED
    BY <1>1, <2>1, <2>2, <2>3 DEF Get
<1>2. ASSUME NEW c \in Callers, Dialled(c)
      PROVE  PoolInv'
  <2>1. PICK k \in PoolKeys : k = call[c].key
    BY <1>2 DEF PoolInv, Dialled
  <2>2. PICK client : client = [key |-> k, n |-> dials[k] + 1]
    OBVIOUS
  <2>3. dials[k] \in Nat /\ dials' = [dials EXCEPT ![k] = @ + 1] /\ dials[k] < MaxDials
    BY <1>2, <2>1 DEF PoolInv, PoolTypeOK, Dialled
  <2>4. client \in Clients /\ client.key = k /\ ~Made(client) /\ Made(client)'
    BY <2>2, <2>3 DEF PoolInv, PoolTypeOK, Clients
  <2>5. \A other \in Clients : Made(other) => Made(other)'
    BY <2>3 DEF PoolInv, PoolTypeOK, Clients
  <2>6. CASE /\ shut
             /\ closed' = closed \cup {client}
             /\ call' = [call EXCEPT ![c] = Idle]
             /\ UNCHANGED entries
    BY <1>2, <2>3, <2>4, <2>5, <2>6 DEF PoolInv, PoolTypeOK, Dialled, Idle
  <2>7. CASE /\ ~shut
             /\ entries' = [entries EXCEPT ![k] = client]
             /\ call' = [call EXCEPT ![c] = [at |-> "has", key |-> k, client |-> client]]
             /\ UNCHANGED closed
    <3>1. PoolTypeOK'
      BY <1>2, <2>3, <2>4, <2>7 DEF PoolInv, PoolTypeOK, Dialled
    <3> QED
      BY <1>2, <2>3, <2>4, <2>5, <2>7, <3>1 DEF PoolInv, PoolTypeOK, Dialled
  <2> QED
    BY <1>2, <2>1, <2>2, <2>6, <2>7 DEF Dialled
<1>3. ASSUME NEW c \in Callers, DialFails(c)
      PROVE  PoolInv'
  BY <1>3 DEF PoolInv, PoolTypeOK, DialFails, Idle
<1>4. ASSUME NEW h \in Hosts, Drop(h)
      PROVE  PoolInv'
  BY <1>4 DEF PoolInv, PoolTypeOK, Drop
<1>5. CASE Close
  BY <1>5 DEF PoolInv, PoolTypeOK, Close
<1>6. ASSUME NEW client \in Clients, ConnectionBreaks(client)
      PROVE  PoolInv'
  BY <1>6 DEF PoolInv, PoolTypeOK, ConnectionBreaks
<1>7. CASE UNCHANGED poolVars
  BY <1>7 DEF PoolInv, PoolTypeOK, poolVars
<1> QED
  BY <1>1, <1>2, <1>3, <1>4, <1>5, <1>6, <1>7 DEF PoolNext

-----------------------------------------------------------------------------
(* The manager's own update.                                                *)

LEMMA NewerTransitive ==
  ASSUME NEW s \in KnownTags, NEW t \in ReleaseTags, NEW p \in ReleaseTags,
         Newer(t, p), Newer(s, t)
  PROVE  Newer(s, p)
BY SelfUpdateAssumption DEF KnownTags, Newer

LEMMA NewerAsymmetric ==
  ASSUME NEW s \in KnownTags, NEW t \in ReleaseTags, Newer(t, s)
  PROVE  ~Newer(s, t)
BY SelfUpdateAssumption DEF KnownTags, Newer

LEMMA UpdateStep ==
  ASSUME UpdateInv, [UpdateNext]_updateVars
  PROVE  UpdateInv'
<1>1. ASSUME NEW t \in ReleaseTags, UploadRelease(t)
      PROVE  UpdateInv'
  BY <1>1 DEF UpdateInv, UploadRelease
<1>2. ASSUME NEW t \in ReleaseTags, SignRelease(t)
      PROVE  UpdateInv'
  <2>1. signed' \in [ReleaseTags -> Nat] /\ \A x \in ReleaseTags : signed'[x] >= signed[x]
    BY <1>2 DEF UpdateInv, SignRelease
  <2>2. ASSUME NEW u \in Updates, update[u].at = "applied"
        PROVE  signed'[update[u].release.tag] >= update[u].body.upload
    BY <2>1, <2>2 DEF UpdateInv
  <2> QED
    BY <1>2, <2>1, <2>2 DEF UpdateInv, SignRelease
<1>3. ASSUME NEW t \in ReleaseTags, MovePointer(t)
      PROVE  UpdateInv'
  <2>1. pointer'.tag = t
    BY <1>3 DEF MovePointer
  <2>2. ASSUME NEW u \in Updates, update[u].at = "refetch"
        PROVE  ~Newer(update[u].seen, t)
    BY <1>3, <2>2, NewerTransitive DEF UpdateInv, MovePointer
  <2> QED
    BY <1>3, <2>1, <2>2 DEF UpdateInv, MovePointer
<1>4. ASSUME NEW u \in Updates, ReadInstalled(u)
      PROVE  UpdateInv'
  BY <1>4 DEF UpdateInv, ReadInstalled, NoUpdate, InstalledVersion
<1>5. ASSUME NEW u \in Updates, Decide(u)
      PROVE  UpdateInv'
  <2>1. CASE Moves(u, "check", "error")
    BY <1>5, <2>1 DEF UpdateInv, Decide, Moves
  <2>2. CASE Moves(u, "check", IF Newer(pointer.tag, update[u].seen) THEN "refetch"
                               ELSE IF update[u].seen # running THEN "restart" ELSE "upToDate")
    <3>1. Newer(pointer.tag, update[u].seen) => ~Newer(update[u].seen, pointer.tag)
      BY <2>2, NewerAsymmetric DEF UpdateInv, Moves
    <3> QED
      BY <1>5, <2>2, <3>1 DEF UpdateInv, Decide, Moves
  <2> QED
    BY <1>5, <2>1, <2>2 DEF Decide
<1>6. ASSUME NEW u \in Updates, FetchLatest(u)
      PROVE  UpdateInv'
  BY <1>6 DEF UpdateInv, FetchLatest, Moves
<1>7. ASSUME NEW u \in Updates, DownloadRelease(u)
      PROVE  UpdateInv'
  BY <1>7 DEF UpdateInv, DownloadRelease, Moves
<1>8. ASSUME NEW u \in Updates, ApplyUpdate(u)
      PROVE  UpdateInv'
  <2>1. CASE /\ Accepts(u, signed[update[u].release.tag])
             /\ exe' = update[u].body
             /\ Moves(u, "verify", "applied")
    BY <1>8, <2>1 DEF UpdateInv, ApplyUpdate, Accepts, Moves, KnownTags
  <2>2. CASE Moves(u, "verify", "error") /\ UNCHANGED exe
    BY <1>8, <2>2 DEF UpdateInv, ApplyUpdate, Moves
  <2> QED
    BY <1>8, <2>1, <2>2 DEF ApplyUpdate
<1>9. CASE RestartManager
  BY <1>9 DEF UpdateInv, RestartManager, NoUpdate
<1>10. CASE UNCHANGED updateVars
  BY <1>10 DEF UpdateInv, updateVars
<1> QED
  BY <1>1, <1>2, <1>3, <1>4, <1>5, <1>6, <1>7, <1>8, <1>9, <1>10 DEF UpdateNext

-----------------------------------------------------------------------------
(* Local preparation.                                                       *)

LEMMA BinaryOfSystem ==
  ASSUME NEW files, NEW os, NEW arch,
         BinaryArtifactForOSArch(files, os, arch) # None
  PROVE  LET artifact == BinaryArtifactForOSArch(files, os, arch)
         IN  \A t, versions : \A sum \in FetchChecksum(t, artifact, versions) \ {None} : sum.file.os = os
<1> DEFINE I == {i \in 1..Len(files) : /\ files[i].kind = "binary" /\ files[i].os = os
                                       /\ files[i].arch = arch}
<1>1. I \subseteq 1..Len(files)
  OBVIOUS
<1>2. I \subseteq Nat /\ 0 \notin I
  <2> HIDE DEF I
  <2> QED
    BY <1>1
<1>3. I # {} => Min(I) \in I
  <2> HIDE DEF I
  <2> QED
    BY <1>2, MinIsIn
<1> DEFINE own == IF I = {} THEN None ELSE files[Min(I)]
<1>4. BinaryArtifactForOSArch(files, os, arch) = IF own = None THEN None ELSE Matched(own)
  BY <1>2, <1>3 DEF BinaryArtifactForOSArch, FirstOf, SelectInSeq
<1>5. own # None /\ own.os = os
  BY <1>3, <1>4
<1> HIDE DEF own
<1> QED
  BY <1>4, <1>5 DEF FetchChecksum, Matched, BuildOf

LEMMA LocalChecksum ==
  ASSUME NEW req, NEW versions, LocalArtifact(req, versions) # None,
         NEW t, NEW sum \in FetchChecksum(t, LocalArtifact(req, versions), versions) \ {None}
  PROVE  sum.file.os = goos
<1> DEFINE files == VersionByTag(versions, req.version)
<1>1. /\ files # None
      /\ LocalArtifact(req, versions) = BinaryArtifactForOSArch(files, goos, req.arch)
  BY DEF LocalArtifact
<1> HIDE DEF files
<1> QED
  BY <1>1, BinaryOfSystem

LEMMA LocalInvStep ==
  ASSUME LocalInv, [LocalNext]_<<localVars, siteVars>>
  PROVE  LocalInv'
<1>1. CASE Prepare
  BY <1>1 DEF LocalInv, Prepare, NoPreparation, LocalArtifact
<1>2. CASE MakeDirs
  BY <1>2 DEF LocalInv, MakeDirs, LocalStep, LocalArtifact
<1>3. CASE ResolveChecksum
  <2>1. PICK sum \in {None} \cup FetchChecksum(prepare.req.version,
               LocalArtifact(prepare.req, prepare.versions), prepare.versions) :
          prepare' = [prepare EXCEPT !.at = IF sum = None THEN "error" ELSE "download", !.sum = sum]
    BY <1>3 DEF ResolveChecksum
  <2>2. sum # None => sum.file.os = goos
    BY <1>3, <2>1, LocalChecksum DEF LocalInv, ResolveChecksum
  <2> QED
    BY <1>3, <2>1, <2>2 DEF LocalInv, ResolveChecksum
<1>4. CASE DownloadTemp
  BY <1>4 DEF LocalInv, DownloadTemp, LocalStep
<1>5. CASE RenameIntoPlace
  BY <1>5 DEF LocalInv, RenameIntoPlace, LocalStep
<1>6. CASE VerifyFile
  BY <1>6 DEF LocalInv, VerifyFile, LocalStep
<1>7. CASE WriteTLSFiles
  BY <1>7 DEF LocalInv, WriteTLSFiles, LocalStep
<1>8. CASE WriteScript
  BY <1>8 DEF LocalInv, WriteScript, LocalStep
<1>9. CASE WriteLauncher
  BY <1>9 DEF LocalInv, WriteLauncher, LocalStep
<1>10. CASE LocalCrash
  BY <1>10 DEF LocalInv, LocalCrash
<1>11. CASE RunScript
  <2>1. DOMAIN fs' = DOMAIN fs /\ ("binary" \in DOMAIN fs => fs'.binary = fs.binary)
    BY <1>11 DEF RunScript
  <2>2. UNCHANGED <<goos, prepare>>
    BY <1>11 DEF RunScript
  <2> QED
    BY <2>1, <2>2 DEF LocalInv, LocalArtifact
<1>12. CASE UNCHANGED localVars
  BY <1>12 DEF LocalInv, localVars, LocalArtifact
<1> QED
  BY <1>1, <1>2, <1>3, <1>4, <1>5, <1>6, <1>7, <1>8, <1>9, <1>10, <1>11, <1>12 DEF LocalNext

(* What PreviewPlan answers.                                                *)
LEMMA SetSizeIsLegal ==
  ASSUME NEW count \in Nat, count > 1, ComputeSetSize(count) # None
  PROVE  ComputeSetSize(count) \in SetSizes
BY FewestSets

LEMMA ParityIsHalf ==
  ASSUME NEW requested \in Nat, NEW count \in Nat, count > 1, NEW size \in SetSizes,
         NormalizeParity(requested, count, size) # None
  PROVE  NormalizeParity(requested, count, size) \in 0..(size \div 2)
BY DEF NormalizeParity, LocalParityBlocks, SetSizes

LEMMA DefaultsAgree ==
  ASSUME NEW size \in SetSizes
  PROVE  LocalParityBlocks(size) = DefaultParityBlocks(size)
BY DEF LocalParityBlocks, DefaultParityBlocks, SetSizes

LEMMA DataPathsTyped ==
  ASSUME NEW raw \in Seq(RawPaths), NEW nonEmpty, NormalizeDataPaths(raw, nonEmpty) # None
  PROVE  NormalizeDataPaths(raw, nonEmpty) \in Seq(DataPaths)
<1> DEFINE expanded == [i \in DOMAIN raw |-> ExpandPathPattern(raw[i])]
<1>1. /\ NormalizeDataPaths(raw, nonEmpty) = FlattenSeq(expanded)
      /\ \A i \in DOMAIN raw : raw[i].range # None => raw[i].range[1] <= raw[i].range[2]
  BY DEF NormalizeDataPaths
<1>2. ASSUME NEW i \in DOMAIN raw
      PROVE  ExpandPathPattern(raw[i]) \in Seq(DataPaths)
  <2>1. raw[i] \in RawPaths
    OBVIOUS
  <2>2. PICK dir, range : dir = raw[i].dir /\ range = raw[i].range
    OBVIOUS
  <2>3. dir \in Seq(Nat) /\ range \in {None} \cup (Nat \X Nat)
    BY <2>1, <2>2 DEF RawPaths, DataPaths
  <2>4. CASE range = None
    <3>1. ExpandPathPattern(raw[i]) = <<dir>>
      BY <2>2, <2>4 DEF ExpandPathPattern
    <3> QED
      BY <2>3, <3>1 DEF DataPaths
  <2>5. CASE range # None
    <3>1. PICK lo \in Nat, hi \in Nat : range = <<lo, hi>>
      BY <2>3, <2>5
    <3>2. lo <= hi
      <4>1. raw[i].range # None => raw[i].range[1] <= raw[i].range[2]
        BY <1>1
      <4>2. range[1] <= range[2]
        BY <2>2, <2>5, <4>1
      <4>3. range[1] = lo /\ range[2] = hi
        BY <3>1
      <4> QED
        BY <4>2, <4>3
    <3>3. ExpandPathPattern(raw[i]) = [k \in 1..(hi - lo + 1) |-> Append(dir, lo + k - 1)]
      BY <2>2, <2>5, <3>1 DEF ExpandPathPattern
    <3>4. \A k \in 1..(hi - lo + 1) : Append(dir, lo + k - 1) \in DataPaths
      BY <2>3, <3>1 DEF DataPaths
    <3> QED
      BY <3>1, <3>2, <3>3, <3>4
  <2> QED
    BY <2>4, <2>5
<1>3. expanded \in Seq(Seq(DataPaths))
  <2>1. DOMAIN raw = 1..Len(raw) /\ Len(raw) \in Nat
    OBVIOUS
  <2> QED
    BY <1>2, <2>1
<1> HIDE DEF expanded
<1> QED
  BY <1>1, <1>3, FlattenIsSeq

LEMMA PreviewIsSound ==
  ASSUME NEW req \in LocalRequests, PreviewPlan(req) # None
  PROVE  SoundPlan(PreviewPlan(req))
<1> DEFINE paths == NormalizeDataPaths(req.paths, fs.used)
           count == Len(paths)
           size  == ComputeSetSize(count)
           parity == NormalizeParity(req.parity, count, size)
<1>1. /\ PreviewPlan(req) = [paths |-> paths, setSize |-> size, parity |-> parity]
      /\ paths # None /\ size # None /\ parity # None
  BY DEF PreviewPlan
<1>2. paths \in Seq(DataPaths)
  BY <1>1, DataPathsTyped, LocalDeployAssumption
<1>3. count \in Nat
  BY <1>2
<1>4. count > 1 => size \in SetSizes
  BY <1>1, <1>3, SetSizeIsLegal
<1>5. count > 1 => parity \in 0..(size \div 2)
  BY <1>1, <1>3, <1>4, ParityIsHalf, LocalDeployAssumption
<1> HIDE DEF paths, parity
<1> QED
  BY <1>1, <1>2, <1>4, <1>5 DEF SoundPlan

LEMMA WholeStays ==
  ASSUME WholeInv, UNCHANGED localVars
  PROVE  WholeInv'
BY DEF WholeInv, Written, localVars, RenderScript

(* Each step of a preparation writes what the next one finds.               *)
LEMMA WholeStep ==
  ASSUME LocalInv, WholeInv, [LocalNext]_<<localVars, siteVars>>
  PROVE  WholeInv'
<1> USE DEF WholeInv, Written
<1>1. CASE Prepare
  <2>1. UNCHANGED fs
    BY <1>1 DEF Prepare
  <2>2. PICK req \in LocalRequests, versions \in SupportedVersions :
          prepare' = IF LocalArtifact(req, versions) = None \/ PreviewPlan(req) = None
                     THEN [NoPreparation EXCEPT !.at = "error"]
                     ELSE [at |-> "dirs", req |-> req, plan |-> PreviewPlan(req),
                           versions |-> versions, sum |-> None]
    BY <1>1 DEF Prepare
  <2>3. CASE prepare' = [NoPreparation EXCEPT !.at = "error"]
    BY <2>1, <2>3 DEF NoPreparation
  <2>4. CASE /\ PreviewPlan(req) # None
             /\ prepare' = [at |-> "dirs", req |-> req, plan |-> PreviewPlan(req),
                            versions |-> versions, sum |-> None]
    BY <2>1, <2>4, PreviewIsSound
  <2> QED
    BY <2>2, <2>3, <2>4
<1>2. CASE MakeDirs
  <2> DEFINE paths == prepare.plan.paths
             made(n) == [fs EXCEPT !.dirs = @ \cup {paths[i] : i \in 1..n}]
  <2>1. prepare.at = "dirs" /\ paths \in Seq(DataPaths)
    BY <1>2 DEF MakeDirs, LocalStep, SoundPlan
  <2>2. \/ fs' = made(Len(paths)) /\ prepare' = [prepare EXCEPT !.at = "checksum"]
        \/ /\ \E n \in 0..Len(paths) : fs' = made(n)
           /\ prepare' = [prepare EXCEPT !.at = "error"]
    BY <1>2 DEF MakeDirs, LocalStep
  <2>3. ToSet(paths) = {paths[i] : i \in 1..Len(paths)}
    BY <2>1 DEF ToSet
  <2>4. CASE prepare' = [prepare EXCEPT !.at = "error"]
    BY <2>2, <2>4 DEF LocalInv
  <2>5. CASE fs' = made(Len(paths)) /\ prepare' = [prepare EXCEPT !.at = "checksum"]
    BY <2>1, <2>3, <2>5 DEF LocalInv
  <2> QED
    BY <2>2, <2>4, <2>5
<1>3. CASE ResolveChecksum
  BY <1>3 DEF LocalInv, ResolveChecksum
<1>4. CASE DownloadTemp
  BY <1>4 DEF LocalInv, DownloadTemp, LocalStep
<1>5. CASE RenameIntoPlace
  BY <1>5 DEF LocalInv, RenameIntoPlace, LocalStep
<1>6. CASE VerifyFile
  BY <1>6 DEF LocalInv, VerifyFile, LocalStep
<1>7. CASE WriteTLSFiles
  BY <1>7 DEF LocalInv, WriteTLSFiles, LocalStep
<1>8. CASE WriteScript
  <2>1. RenderScript' = RenderScript
    BY <1>8 DEF LocalInv, WriteScript, LocalStep, RenderScript
  <2> QED
    BY <1>8, <2>1 DEF LocalInv, WriteScript, LocalStep
<1>9. CASE WriteLauncher
  <2>1. RenderScript' = RenderScript
    BY <1>9 DEF LocalInv, WriteLauncher, LocalStep, RenderScript
  <2> QED
    BY <1>9, <2>1 DEF LocalInv, WriteLauncher, LocalStep
<1>10. CASE LocalCrash
  BY <1>10 DEF LocalInv, LocalCrash
<1>11. CASE RunScript
  <2>1. RenderScript' = RenderScript
    BY <1>11 DEF RunScript, RenderScript
  <2> QED
    BY <1>11, <2>1 DEF LocalInv, RunScript
<1>12. CASE UNCHANGED localVars
  BY <1>12, WholeStays
<1> QED
  BY <1>1, <1>2, <1>3, <1>4, <1>5, <1>6, <1>7, <1>8, <1>9, <1>10, <1>11, <1>12 DEF LocalNext

-----------------------------------------------------------------------------
(* Deployment.                                                              *)

(* Every file whose checksum may be taken for a package is of its kind.     *)
OfKind(artifact, kind) ==
  /\ artifact.file.kind = kind
  /\ \A i \in DOMAIN artifact.sidecars : artifact.sidecars[i].kind = kind
  /\ artifact.digest # None => artifact.digest.kind = kind

LEMMA FilesOfKind ==
  ASSUME NEW files, NEW kind, NEW arch
  PROVE  LET own == ReleaseArtifact(files, kind, arch) IN own # None => own.kind = kind
<1> DEFINE I == {i \in 1..Len(files) : files[i].kind = kind /\ (arch = "" \/ files[i].arch = arch)}
<1>1. I \subseteq 1..Len(files)
  OBVIOUS
<1>2. I \subseteq Nat /\ 0 \notin I
  <2> HIDE DEF I
  <2> QED
    BY <1>1
<1>3. I # {} => Min(I) \in I
  <2> HIDE DEF I
  <2> QED
    BY <1>2, MinIsIn
<1>4. ReleaseArtifact(files, kind, arch) = IF I = {} THEN None ELSE files[Min(I)]
  BY <1>2, <1>3 DEF ReleaseArtifact, FirstOf, SelectInSeq
<1> QED
  BY <1>3, <1>4

LEMMA AnyRPM ==
  ASSUME NEW files
  PROVE  LET generic == FirstOf(files, LAMBDA f : f.kind = "rpm" /\ f.arch \in Arches)
             digest  == FirstOf(files, LAMBDA f : f.kind = "rpm" /\ f.arch \in Arches /\ f.digest)
         IN  /\ generic # None => generic.kind = "rpm"
             /\ digest # None => digest.kind = "rpm"
<1> DEFINE I == {i \in 1..Len(files) : files[i].kind = "rpm" /\ files[i].arch \in Arches}
           J == {i \in 1..Len(files) : files[i].kind = "rpm" /\ files[i].arch \in Arches /\ files[i].digest}
<1>1. I \subseteq 1..Len(files) /\ J \subseteq 1..Len(files)
  OBVIOUS
<1>2. I \subseteq Nat /\ J \subseteq Nat /\ 0 \notin I /\ 0 \notin J
  <2> HIDE DEF I, J
  <2> QED
    BY <1>1
<1>3. (I # {} => Min(I) \in I) /\ (J # {} => Min(J) \in J)
  <2> HIDE DEF I, J
  <2> QED
    BY <1>2, MinIsIn
<1>4. /\ FirstOf(files, LAMBDA f : f.kind = "rpm" /\ f.arch \in Arches)
           = IF I = {} THEN None ELSE files[Min(I)]
      /\ FirstOf(files, LAMBDA f : f.kind = "rpm" /\ f.arch \in Arches /\ f.digest)
           = IF J = {} THEN None ELSE files[Min(J)]
  BY <1>2, <1>3 DEF FirstOf, SelectInSeq
<1> QED
  BY <1>3, <1>4

LEMMA MatchedOfKind ==
  ASSUME NEW f, NEW kind, f.kind = kind
  PROVE  OfKind(Matched(f), kind)
<1>1. Matched(f).file = f /\ Matched(f).sidecars = <<f>>
  BY DEF Matched
<1>2. Matched(f).digest = IF f.digest THEN f ELSE None
  BY DEF Matched
<1> QED
  BY <1>1, <1>2 DEF OfKind

LEMMA OneOfKind ==
  ASSUME NEW f, NEW d, NEW kind, f.kind = kind, d # None => d.kind = kind
  PROVE  OfKind([file |-> f, sidecars |-> <<f>>, digest |-> d], kind)
BY DEF OfKind

LEMMA DebOfKind ==
  ASSUME NEW files, NEW arch, DebArtifactForArch(files, arch) # None
  PROVE  OfKind(DebArtifactForArch(files, arch), "deb")
<1> DEFINE own == ReleaseArtifact(files, "deb", arch)
           generic == ReleaseArtifact(files, "deb", "")
<1>1. (own # None => own.kind = "deb") /\ (generic # None => generic.kind = "deb")
  BY FilesOfKind
<1>2. DebArtifactForArch(files, arch) =
        IF own # None THEN Matched(own) ELSE IF generic = None THEN None
        ELSE [file |-> generic, sidecars |-> <<generic>>, digest |-> None]
  BY DEF DebArtifactForArch
<1> HIDE DEF own, generic
<1> QED
  BY <1>1, <1>2, MatchedOfKind, OneOfKind

LEMMA RPMOfKind ==
  ASSUME NEW files, NEW arch, RPMArtifactForArch(files, arch) # None
  PROVE  OfKind(RPMArtifactForArch(files, arch), "rpm")
<1> DEFINE own == ReleaseArtifact(files, "rpm", arch)
           generic == FirstOf(files, LAMBDA f : f.kind = "rpm" /\ f.arch \in Arches)
           digest == FirstOf(files, LAMBDA f : f.kind = "rpm" /\ f.arch \in Arches /\ f.digest)
<1>1. own # None => own.kind = "rpm"
  BY FilesOfKind
<1>2. (generic # None => generic.kind = "rpm") /\ (digest # None => digest.kind = "rpm")
  BY AnyRPM
<1>3. RPMArtifactForArch(files, arch) =
        IF own # None THEN Matched(own) ELSE IF generic = None THEN None
        ELSE [file |-> generic, sidecars |-> <<generic>>, digest |-> digest]
  BY DEF RPMArtifactForArch
<1> HIDE DEF own, generic, digest
<1> QED
  BY <1>1, <1>2, <1>3, MatchedOfKind, OneOfKind

LEMMA ArtifactOfKind ==
  ASSUME NEW p, NEW versions, NEW kind \in {"rpm", "deb"}, ArtifactForKind(p, versions, kind) # None
  PROVE  OfKind(ArtifactForKind(p, versions, kind), kind)
<1>1. CASE p.custom # None
  <2>1. OfKind(CustomArtifactFromURL(kind), kind)
    BY MatchedOfKind DEF CustomArtifactFromURL
  <2> QED
    BY <1>1, <2>1 DEF ArtifactForKind
<1>2. CASE p.custom = None
  <2>1. ArtifactForKind(p, versions, kind)
          = ResolveArtifact(VersionByTag(versions, p.version), kind, ClusterArch(p))
    BY <1>2 DEF ArtifactForKind
  <2> QED
    BY <2>1, DebOfKind, RPMOfKind DEF ResolveArtifact
<1> QED
  BY <1>1, <1>2

LEMMA ChecksumOfKind ==
  ASSUME NEW artifact, NEW kind, OfKind(artifact, kind), NEW t, NEW versions,
         NEW sum \in FetchChecksum(t, artifact, versions) \ {None}
  PROVE  sum.file.kind = kind
BY DEF OfKind, FetchChecksum, BuildOf

(* A step of one host's goroutine leaves the other hosts alone.             *)
LEMMA OneHost ==
  ASSUME HostInv, UNCHANGED params, NEW h \in Hosts, NEW w, NEW d, HostOK(h, w, d),
         DOMAIN work' = Hosts, DOMAIN disk' = Hosts,
         \A g \in Hosts \ {h} : work'[g] = work[g] /\ disk'[g] = disk[g],
         work'[h] = w, disk'[h] = d
  PROVE  HostInv'
BY DEF HostInv, HostOK

LEMMA HostMoves ==
  ASSUME HostInv, UNCHANGED params, NEW h \in Hosts, NEW x, MoveTo(h, x), UNCHANGED disk,
         HostOK(h, [work[h] EXCEPT !.at = x], disk[h])
  PROVE  HostInv'
<1>1. DOMAIN work' = Hosts /\ work'[h] = [work[h] EXCEPT !.at = x]
  BY DEF HostInv, MoveTo
<1>2. \A g \in Hosts \ {h} : work'[g] = work[g]
  BY DEF HostInv, MoveTo
<1> QED
  BY <1>1, <1>2, OneHost DEF HostInv

(* A host that only fails, waits or starts over owes nothing.               *)
LEMMA NothingOwed ==
  ASSUME NEW h, NEW w, NEW d, HostOK(h, w, d), NEW x,
         x \notin {"download", "verify", "install"} \cup Installed
  PROVE  HostOK(h, [w EXCEPT !.at = x], d)
BY DEF HostOK, Installed, AfterStorage, AfterPrimary

LEMMA CommandStep ==
  ASSUME HostInv, NEW h \in Hosts, NEW at, NEW next, NEW after, Command(h, at, next, after),
         DOMAIN after = DOMAIN disk[h],
         HostOK(h, [work[h] EXCEPT !.at = next], after)
  PROVE  HostInv'
<1>0. UNCHANGED params
  BY DEF Command, HostStep
<1>1. HostOK(h, work[h], disk[h])
  BY DEF HostInv
<1>2. CASE MoveTo(h, "failed") /\ UNCHANGED disk
  <2>1. HostOK(h, [work[h] EXCEPT !.at = "failed"], disk[h])
    BY <1>1, NothingOwed DEF Installed
  <2> QED
    BY <1>0, <1>2, <2>1, HostMoves
<1>3. ASSUME NEW answer \in {next, "failed"}, MoveTo(h, answer), disk' = [disk EXCEPT ![h] = after]
      PROVE  HostInv'
  <2>1. HostOK(h, [work[h] EXCEPT !.at = answer], after)
    <3>1. CASE answer = next
      BY <3>1
    <3>2. CASE answer = "failed"
      BY <1>1, <3>2 DEF HostOK, Installed, AfterStorage, AfterPrimary
    <3> QED
      BY <3>1, <3>2
  <2>2. /\ DOMAIN work' = Hosts /\ work'[h] = [work[h] EXCEPT !.at = answer]
        /\ \A g \in Hosts \ {h} : work'[g] = work[g]
    BY <1>3 DEF HostInv, MoveTo
  <2>3. /\ DOMAIN disk' = Hosts /\ disk'[h] = after
        /\ \A g \in Hosts \ {h} : disk'[g] = disk[g]
    BY <1>3 DEF HostInv
  <2> QED
    BY <1>0, <2>1, <2>2, <2>3, OneHost
<1> QED
  BY <1>2, <1>3 DEF Command

LEMMA AcquireStep ==
  ASSUME HostInv, NEW h \in Hosts, NEW from, NEW got, NEW notGot, Acquire(h, from, got, notGot),
         \A x \in {from, got, notGot} : HostOK(h, [work[h] EXCEPT !.at = x], disk[h]),
         PoolInv, params.ssh \in Logins
  PROVE  HostInv'
<1> DEFINE x == CASE call'[h].at = "has" -> got [] call'[h].at = "dialing" -> from
                  [] call'[h].at = "idle" -> notGot
<1>1. call'[h].at \in {"has", "dialing", "idle"}
  <2>1. h \in Callers /\ [host |-> h, login |-> params.ssh] \in PoolKeys
    BY DeployAssumption DEF PoolKeys
  <2>2. call \in [Callers -> [at : {"idle", "dialing", "has"}, key : PoolKeys \cup {NoClient},
                              client : Clients \cup {NoClient}]]
    BY DEF PoolInv, PoolTypeOK
  <2> QED
    BY <2>1, <2>2 DEF Acquire, Get, Dialled, DialFails, Idle
<1>2. x \in {from, got, notGot}
  BY <1>1
<1>3. MoveTo(h, x) /\ UNCHANGED <<disk, params>>
  BY DEF Acquire, HostStep
<1> HIDE DEF x
<1> QED
  BY <1>2, <1>3, HostMoves

LEMMA InstallKeepsParams ==
  ASSUME NEW h \in Hosts, InstallStep(h)
  PROVE  UNCHANGED <<params, task, report, cluster>>
BY DEF InstallStep, HostStep, Begin, DialHost, Acquire, Resolve, DownloadPackage, VerifyChecksum,
   InstallPackage, PrepareStorage, WriteCerts, WriteSecondary, WritePrimary, StartService,
   DropClient, Reconnect, StopBestEffort, WaitHealthy, Command

LEMMA InstallHost ==
  ASSUME HostInv, PoolInv, DraftInv, NEW h \in Hosts, InstallStep(h)
  PROVE  HostInv'
<1> DEFINE w == work[h]
           d == disk[h]
<1>0. HostOK(h, w, d)
  BY DEF HostInv
<1>a. UNCHANGED params
  BY InstallKeepsParams
<1>b. w.at # "queued" => params # None /\ params.creds # None
  BY DEF DraftInv
<1>1. CASE Begin(h)
  <2>1. PICK x \in {"failed", "dial"} : MoveTo(h, x)
    BY <1>1 DEF Begin
  <2>2. HostOK(h, [w EXCEPT !.at = x], d)
    BY <1>0, NothingOwed DEF Installed
  <2> QED
    BY <1>1, <2>1, <2>2, <1>a, HostMoves DEF Begin
<1>2. CASE DialHost(h)
  <2>1. \A x \in {"dial", "resolve", "failed"} : HostOK(h, [w EXCEPT !.at = x], d)
    BY <1>0, NothingOwed DEF Installed
  <2>2. params.ssh \in Logins
    BY <1>2 DEF DialHost, Acquire, DraftInv
  <2> QED
    BY <1>2, <2>1, <2>2, AcquireStep DEF DialHost
<1>3. CASE Resolve(h)
  <2>1. CASE MoveTo(h, "failed")
    <3>1. HostOK(h, [w EXCEPT !.at = "failed"], d)
      BY <1>0, NothingOwed DEF Installed
    <3> QED
      BY <1>3, <2>1, <3>1, <1>a, HostMoves DEF Resolve
  <2>2. ASSUME NEW versions, NEW sum,
               HostKind[h] # None, ArtifactForKind(params, versions, HostKind[h]) # None,
               sum \in FetchChecksum(params.version, ArtifactForKind(params, versions, HostKind[h]), versions)
                         \ {None},
               work' = [work EXCEPT ![h] = [at |-> "download", sum |-> sum]]
        PROVE  HostInv'
    <3>1. HostKind[h] \in {"rpm", "deb"}
      BY <2>2, DeployAssumption
    <3>2. sum # None /\ sum.file.kind = HostKind[h]
      BY <2>2, <3>1, ArtifactOfKind, ChecksumOfKind
    <3>3. HostOK(h, [at |-> "download", sum |-> sum], d)
      BY <1>0, <3>2 DEF HostOK, Installed, AfterStorage, AfterPrimary
    <3>4. /\ DOMAIN work' = Hosts /\ work'[h] = [at |-> "download", sum |-> sum]
          /\ \A g \in Hosts \ {h} : work'[g] = work[g]
      BY <2>2 DEF HostInv
    <3>5. UNCHANGED disk
      BY <1>3 DEF Resolve
    <3> QED
      BY <3>3, <3>4, <3>5, <1>a, OneHost DEF HostInv
  <2> QED
    BY <1>3, <2>1, <2>2 DEF Resolve
<1>4. CASE DownloadPackage(h)
  <2> DEFINE after == [d EXCEPT !.file = Download(params.version, w.sum.file)]
  <2>1. w.at = "download"
    BY <1>4 DEF DownloadPackage, Command
  <2>2. HostOK(h, [w EXCEPT !.at = "verify"], after)
    BY <1>0, <2>1 DEF HostOK, Installed, AfterStorage, AfterPrimary
  <2>3. Command(h, "download", "verify", after) /\ DOMAIN after = DOMAIN d
    BY <1>4 DEF DownloadPackage
  <2> HIDE DEF after
  <2> QED
    BY <2>2, <2>3, CommandStep
<1>5. CASE VerifyChecksum(h)
  <2> DEFINE next == IF d.file = w.sum THEN "install" ELSE "failed"
  <2>1. w.at = "verify"
    BY <1>5 DEF VerifyChecksum, Command
  <2>2. HostOK(h, [w EXCEPT !.at = next], d)
    BY <1>0, <2>1 DEF HostOK, Installed, AfterStorage, AfterPrimary
  <2>3. Command(h, "verify", next, d)
    BY <1>5 DEF VerifyChecksum
  <2> HIDE DEF next
  <2> QED
    BY <2>2, <2>3, CommandStep
<1>6. CASE InstallPackage(h)
  <2> DEFINE after == [d EXCEPT !.pkg = d.file]
  <2>1. w.at = "install"
    BY <1>6 DEF InstallPackage, Command
  <2>2. HostOK(h, [w EXCEPT !.at = "storage"], after)
    BY <1>0, <2>1 DEF HostOK, Installed, AfterStorage, AfterPrimary
  <2>3. Command(h, "install", "storage", after) /\ DOMAIN after = DOMAIN d
    BY <1>6 DEF InstallPackage
  <2> HIDE DEF after
  <2> QED
    BY <2>2, <2>3, CommandStep
<1>7. DOMAIN d = {"file", "pkg", "mounts", "certs", "secondary", "primary", "live"}
  BY <1>0 DEF HostOK
<1>8. ASSUME NEW at, NEW next, NEW after,
             Command(h, at, next, after), DOMAIN after = DOMAIN d,
             w.at = at => HostOK(h, [w EXCEPT !.at = next], after)
      PROVE  HostInv'
  <2>1. w.at = at
    BY <1>8 DEF Command
  <2> QED
    BY <1>8, <2>1, CommandStep
<1>9. CASE PrepareStorage(h)
  <2> DEFINE after == [d EXCEPT !.mounts = ToSet(params.mounts)]
             next  == IF params.tls = None THEN "secondary" ELSE "certs"
  <2>1. w.at = "storage" => HostOK(h, [w EXCEPT !.at = next], after)
    BY <1>0 DEF HostOK, Installed, AfterStorage, AfterPrimary
  <2>2. Command(h, "storage", next, after) /\ DOMAIN after = DOMAIN d
    BY <1>7, <1>9 DEF PrepareStorage
  <2> HIDE DEF after, next
  <2> QED
    BY <2>1, <2>2, <1>8
<1>10. CASE WriteCerts(h)
  <2> DEFINE after == [d EXCEPT !.certs = TRUE]
  <2>1. w.at = "certs" => HostOK(h, [w EXCEPT !.at = "secondary"], after)
    BY <1>0 DEF HostOK, Installed, AfterStorage, AfterPrimary
  <2>2. Command(h, "certs", "secondary", after) /\ DOMAIN after = DOMAIN d
    BY <1>7, <1>10 DEF WriteCerts
  <2> HIDE DEF after
  <2> QED
    BY <2>1, <2>2, <1>8
<1>11. CASE WriteSecondary(h)
  <2> DEFINE after == [d EXCEPT !.secondary = params.creds]
  <2>1. w.at = "secondary" => HostOK(h, [w EXCEPT !.at = "primary"], after)
    BY <1>0, <1>b DEF HostOK, Installed, AfterStorage, AfterPrimary
  <2>2. Command(h, "secondary", "primary", after) /\ DOMAIN after = DOMAIN d
    BY <1>7, <1>11 DEF WriteSecondary
  <2> HIDE DEF after
  <2> QED
    BY <2>1, <2>2, <1>8
<1>12. CASE WritePrimary(h)
  <2> DEFINE after == [d EXCEPT !.primary = RenderConfigEnv(params)]
  <2>1. w.at = "primary" => HostOK(h, [w EXCEPT !.at = "start"], after)
    BY <1>0, <1>b DEF HostOK, Installed, AfterStorage, AfterPrimary
  <2>2. Command(h, "primary", "start", after) /\ DOMAIN after = DOMAIN d
    BY <1>7, <1>12 DEF WritePrimary
  <2> HIDE DEF after
  <2> QED
    BY <2>1, <2>2, <1>8
<1>13. CASE StartService(h)
  <2> DEFINE started == [d EXCEPT !.live = IF @ = None THEN Loaded(d) ELSE @]
  <2>1. \/ Command(h, "start", "health", started)
        \/ Command(h, "start", "timedOut", started)
        \/ w.at = "start" /\ MoveTo(h, "timedOut") /\ UNCHANGED disk
    BY <1>13 DEF StartService
  <2>2. DOMAIN started = DOMAIN d
    BY <1>7
  <2>3. w.at = "start" => /\ HostOK(h, [w EXCEPT !.at = "health"], started)
                          /\ HostOK(h, [w EXCEPT !.at = "timedOut"], started)
                          /\ HostOK(h, [w EXCEPT !.at = "timedOut"], d)
    BY <1>0 DEF HostOK, Installed, AfterStorage, AfterPrimary
  <2> HIDE DEF started
  <2> QED
    BY <1>a, <2>1, <2>2, <2>3, <1>8, HostMoves
<1>14. CASE DropClient(h)
  <2>1. HostOK(h, [w EXCEPT !.at = "redial"], d)
    BY <1>0, <1>14 DEF DropClient, HostOK, Installed, AfterStorage, AfterPrimary
  <2> QED
    BY <1>14, <2>1, <1>a, HostMoves DEF DropClient
<1>15. CASE Reconnect(h)
  <2>1. w.at = "redial"
    BY <1>15 DEF Reconnect, Acquire
  <2>2. \A x \in {"redial", "stopping"} : HostOK(h, [w EXCEPT !.at = x], d)
    BY <1>0, <2>1 DEF HostOK, Installed, AfterStorage, AfterPrimary
  <2>3. params.ssh \in Logins
    BY <2>1 DEF DraftInv
  <2> QED
    BY <1>15, <2>2, <2>3, AcquireStep DEF Reconnect
<1>16. CASE StopBestEffort(h)
  <2> DEFINE after == [d EXCEPT !.live = None]
  <2>1. w.at = "stopping" => HostOK(h, [w EXCEPT !.at = "failed"], after)
    BY <1>0 DEF HostOK, Installed, AfterStorage, AfterPrimary
  <2>2. Command(h, "stopping", "failed", after) /\ DOMAIN after = DOMAIN d
    BY <1>7, <1>16 DEF StopBestEffort
  <2> HIDE DEF after
  <2> QED
    BY <2>1, <2>2, <1>8
<1>17. CASE WaitHealthy(h)
  <2> DEFINE next == IF d.live # None /\ d.live.env.port = params.port
                           /\ d.live.env.tls = (params.tls # None)
                     THEN "healthy" ELSE "failed"
  <2>1. Command(h, "health", next, d) /\ next \in {"healthy", "failed"}
    BY <1>17 DEF WaitHealthy
  <2>2. w.at = "health" => HostOK(h, [w EXCEPT !.at = next], d)
    BY <1>0 DEF HostOK, Installed, AfterStorage, AfterPrimary
  <2> HIDE DEF next
  <2> QED
    BY <2>1, <2>2, <1>8
<1> QED
  BY <1>1, <1>2, <1>3, <1>4, <1>5, <1>6, <1>9, <1>10, <1>11, <1>12, <1>13, <1>14, <1>15,
     <1>16, <1>17 DEF InstallStep

LEMMA InstallOthersStay ==
  ASSUME HostInv, NEW h \in Hosts, InstallStep(h), NEW g \in Hosts, g # h
  PROVE  work'[g] = work[g] /\ disk'[g] = disk[g]
<1>1. \/ UNCHANGED disk
      \/ \E d : disk' = [disk EXCEPT ![h] = d]
  BY DEF InstallStep, Begin, DialHost, Acquire, Resolve, DownloadPackage, VerifyChecksum,
     InstallPackage, PrepareStorage, WriteCerts, WriteSecondary, WritePrimary, StartService,
     DropClient, Reconnect, StopBestEffort, WaitHealthy, Command
<1>2. \E w : work' = [work EXCEPT ![h] = w]
  BY DEF InstallStep, MoveTo, Begin, DialHost, Acquire, Resolve, DownloadPackage, VerifyChecksum,
     InstallPackage, PrepareStorage, WriteCerts, WriteSecondary, WritePrimary, StartService,
     DropClient, Reconnect, StopBestEffort, WaitHealthy, Command
<1> QED
  BY <1>1, <1>2 DEF HostInv

LEMMA DeployHost ==
  ASSUME HostInv, PoolInv, DraftInv, DeployNext
  PROVE  HostInv'
<1>1. CASE Dispatch
  <2>1. UNCHANGED disk /\ work' = Fresh
    BY <1>1 DEF Dispatch
  <2> QED
    BY <2>1 DEF HostInv, HostOK, Fresh, Installed, AfterStorage, AfterPrimary
<1>2. ASSUME UNCHANGED <<params, disk, work>>
      PROVE  HostInv'
  BY <1>2 DEF HostInv, HostOK
<1>3. CASE Execute \/ Cancel \/ HostsDone \/ VerifyCluster \/ Commit \/ ReleaseMoves
  BY <1>2, <1>3 DEF Execute, Cancel, HostsDone, VerifyCluster, Commit, ReleaseMoves
<1>4. ASSUME NEW h \in Hosts, InstallStep(h)
      PROVE  HostInv'
  BY <1>4, InstallHost
<1>5. ASSUME NEW h \in Hosts, ServiceRestarts(h)
      PROVE  HostInv'
  <2>1. HostOK(h, work[h], [disk[h] EXCEPT !.live = Loaded(disk[h])])
    BY DEF HostInv, HostOK
  <2>2. /\ disk' = [disk EXCEPT ![h] = [disk[h] EXCEPT !.live = Loaded(disk[h])]]
        /\ UNCHANGED <<work, params>>
    BY <1>5 DEF ServiceRestarts, HostStep, HostInv
  <2> QED
    BY <2>1, <2>2, OneHost DEF HostInv
<1> QED
  BY <1>1, <1>3, <1>4, <1>5 DEF DeployNext

LEMMA FromDraftKeepsLogin ==
  ASSUME NEW d, "ssh" \in DOMAIN d
  PROVE  FromDraft(d).ssh = d.ssh
BY DEF FromDraft

LEMMA DeployDraft ==
  ASSUME HostInv, DraftInv, attempts \in Nat, DeployNext
  PROVE  DraftInv'
<1>1. CASE Dispatch
  <2>1. PICK d \in Drafts[attempts + 1] : params' = FromDraft(d)
    BY <1>1 DEF Dispatch
  <2>2. attempts + 1 \in 1..MaxAttempts
    BY <1>1, DeployAssumption DEF Dispatch
  <2>3. params'.ssh \in Logins
    BY <2>1, <2>2, DeployAssumption, FromDraftKeepsLogin
  <2>4. params'.creds # None
    BY <1>1 DEF Dispatch, Validate
  <2> QED
    BY <1>1, <2>3, <2>4 DEF DraftInv, Dispatch, Fresh
<1>2. CASE Execute \/ Cancel \/ HostsDone \/ VerifyCluster \/ Commit \/ ReleaseMoves
  BY <1>2 DEF DraftInv, Execute, Cancel, HostsDone, VerifyCluster, Commit, ReleaseMoves
<1>3. ASSUME NEW h \in Hosts, InstallStep(h)
      PROVE  DraftInv'
  <2>1. UNCHANGED params
    BY <1>3 DEF InstallStep, HostStep, Begin, DialHost, Acquire, Resolve, DownloadPackage, VerifyChecksum,
         InstallPackage, PrepareStorage, WriteCerts, WriteSecondary, WritePrimary, StartService,
         DropClient, Reconnect, StopBestEffort, WaitHealthy, Command
  <2>2. params # None
    <3>1. CASE Begin(h)
      BY <3>1 DEF Begin, Members
    <3>2. CASE ~Begin(h)
      <4>1. work[h].at # "queued"
        BY <1>3, <3>2 DEF InstallStep, DialHost, Acquire, Resolve, DownloadPackage, VerifyChecksum,
           InstallPackage, PrepareStorage, WriteCerts, WriteSecondary, WritePrimary, StartService,
           DropClient, Reconnect, StopBestEffort, WaitHealthy, Command
      <4> QED
        BY <4>1 DEF DraftInv
    <3> QED
      BY <3>1, <3>2
  <2> QED
    BY <2>1, <2>2 DEF DraftInv
<1>4. ASSUME NEW h \in Hosts, ServiceRestarts(h)
      PROVE  DraftInv'
  BY <1>4 DEF DraftInv, ServiceRestarts, HostStep
<1> QED
  BY <1>1, <1>2, <1>3, <1>4 DEF DeployNext

(* A deployment uses the pool as its other callers do.                      *)
LEMMA DeployPool ==
  ASSUME DraftInv, DeployNext
  PROVE  [PoolNext]_poolVars
<1>1. ASSUME NEW h \in Hosts, DialHost(h) \/ Reconnect(h)
      PROVE  PoolNext
  <2>1. h \in Callers
    BY DeployAssumption
  <2>2. params.ssh \in Logins
    BY <1>1 DEF DialHost, Reconnect, Acquire, DraftInv
  <2>3. [host |-> h, login |-> params.ssh] \in PoolKeys
    BY <2>2 DEF PoolKeys
  <2>4. Get(h, [host |-> h, login |-> params.ssh]) \/ Dialled(h) \/ DialFails(h)
    BY <1>1 DEF DialHost, Reconnect, Acquire
  <2> QED
    BY <2>1, <2>3, <2>4 DEF PoolNext
<1>2. ASSUME NEW h \in Hosts, DropClient(h)
      PROVE  PoolNext
  BY <1>2 DEF DropClient, PoolNext
<1>3. ASSUME NEW h \in Hosts, InstallStep(h), ~(DialHost(h) \/ Reconnect(h) \/ DropClient(h))
      PROVE  UNCHANGED poolVars
  BY <1>3 DEF InstallStep, Begin, Resolve, DownloadPackage, VerifyChecksum,
       InstallPackage, PrepareStorage, WriteCerts, WriteSecondary, WritePrimary, StartService,
       StopBestEffort, WaitHealthy, Command
<1>4. ASSUME NEW h \in Hosts, ServiceRestarts(h)
      PROVE  UNCHANGED poolVars
  BY <1>4 DEF ServiceRestarts
<1>5. CASE Dispatch \/ Execute \/ Cancel \/ HostsDone \/ VerifyCluster \/ Commit \/ ReleaseMoves
  BY <1>5 DEF Dispatch, Execute, Cancel, HostsDone, VerifyCluster, Commit, ReleaseMoves
<1> QED
  BY <1>1, <1>2, <1>3, <1>4, <1>5 DEF DeployNext

(* The executor goes on only with what its hosts and the verification say.   *)
LEMMA DeployTask ==
  ASSUME HostInv, DraftInv, TaskInv, attempts \in Nat, DeployNext
  PROVE  TaskInv'
<1>1. CASE Dispatch
  <2>1. PICK d \in Drafts[attempts + 1] : params' = FromDraft(d)
    BY <1>1 DEF Dispatch
  <2>2. attempts + 1 \in 1..MaxAttempts
    BY <1>1, DeployAssumption DEF Dispatch
  <2>3. params' # None
    BY <2>1, <2>2, DeployAssumption
  <2> QED
    BY <1>1, <2>3 DEF TaskInv, Dispatch
<1>2. CASE Execute \/ Cancel
  BY <1>2 DEF TaskInv, Execute, Cancel, Members
<1>3. CASE HostsDone
  BY <1>3 DEF TaskInv, HostsDone, Members
<1>4. CASE VerifyCluster
  <2>1. UNCHANGED <<params, work, disk, cluster>> /\ task = "verifying" /\ cluster = None
    BY <1>4 DEF VerifyCluster, TaskInv
  <2>2. \/ task' = "failed"
        \/ task' = "committing" /\ \A s \in report' : disk[s].live.creds = params.creds
    BY <1>4 DEF VerifyCluster
  <2> QED
    BY <2>1, <2>2 DEF TaskInv, Members
<1>5. CASE Commit
  BY <1>5 DEF TaskInv, Commit, Members
<1>6. CASE ReleaseMoves
  BY <1>6 DEF TaskInv, ReleaseMoves, Members
<1>7. ASSUME NEW h \in Hosts, InstallStep(h)
      PROVE  TaskInv'
  <2>1. UNCHANGED <<params, task, report, cluster>>
    BY <1>7, InstallKeepsParams
  <2>2. CASE task \in {"verifying", "committing", "done"}
    <3>1. h \notin Members
      BY <1>7, <2>2 DEF TaskInv, InstallStep, Begin, DialHost, Acquire, Resolve, DownloadPackage,
         VerifyChecksum, InstallPackage, PrepareStorage, WriteCerts, WriteSecondary, WritePrimary,
         StartService, DropClient, Reconnect, StopBestEffort, WaitHealthy, Command
    <3>2. \A g \in Members : work'[g] = work[g] /\ disk'[g] = disk[g]
      BY <1>7, <2>2, <3>1, InstallOthersStay DEF TaskInv
    <3> QED
      BY <2>1, <2>2, <3>2 DEF TaskInv, Members
  <2>3. CASE task \notin {"verifying", "committing", "done"}
    BY <2>1, <2>3 DEF TaskInv, Members
  <2> QED
    BY <2>2, <2>3
<1>8. ASSUME NEW h \in Hosts, ServiceRestarts(h)
      PROVE  TaskInv'
  <2>1. /\ UNCHANGED <<params, task, report, cluster, work>>
        /\ disk' = [disk EXCEPT ![h].live = Loaded(disk[h])]
    BY <1>8 DEF ServiceRestarts, HostStep
  <2>2. ASSUME task \in {"committing", "done"}, NEW s \in report \cap Members, disk'[s].live # None
        PROVE  disk'[s].live.creds = params.creds
    <3>1. s \in Hosts /\ work[s].at = "healthy"
      BY <2>2 DEF TaskInv
    <3>2. HostOK(s, work[s], disk[s]) /\ DOMAIN disk = Hosts
      BY <3>1 DEF HostInv
    <3>3. CASE s = h
      <4>1. disk'[s].live = [env |-> disk[s].primary, creds |-> disk[s].secondary]
        BY <2>1, <3>1, <3>2, <3>3 DEF HostOK, Loaded
      <4> QED
        BY <3>1, <3>2, <4>1 DEF HostOK, AfterPrimary
    <3>4. CASE s # h
      BY <2>1, <2>2, <3>1, <3>2, <3>4 DEF TaskInv
    <3> QED
      BY <3>3, <3>4
  <2> QED
    BY <2>1, <2>2 DEF TaskInv, Members
<1> QED
  BY <1>1, <1>2, <1>3, <1>4, <1>5, <1>6, <1>7, <1>8 DEF DeployNext

LEMMA FromDraftTyped ==
  ASSUME NEW d, {"hosts", "mounts"} \subseteq DOMAIN d, d.hosts \in Seq(Names)
  PROVE  FromDraft(d).hosts \in Seq(Names) /\ FromDraft(d).mounts = d.mounts
<1> DEFINE kept(list) ==
             FlattenSeq([i \in DOMAIN d.hosts |-> IF d.hosts[i] = <<>> THEN <<>> ELSE <<list[i]>>])
<1>1. kept(d.hosts) \in Seq(Names)
  <2> DEFINE parts == [i \in DOMAIN d.hosts |-> IF d.hosts[i] = <<>> THEN <<>> ELSE <<d.hosts[i]>>]
  <2>1. parts \in Seq(Seq(Names))
    <3>1. DOMAIN d.hosts = 1..Len(d.hosts) /\ Len(d.hosts) \in Nat
      OBVIOUS
    <3>2. ASSUME NEW i \in DOMAIN d.hosts
          PROVE  (IF d.hosts[i] = <<>> THEN <<>> ELSE <<d.hosts[i]>>) \in Seq(Names)
      <4>1. <<>> \in Seq(Names) /\ d.hosts[i] \in Names
        OBVIOUS
      <4> QED
        BY <4>1, OneIsSeq
    <3> QED
      BY <3>1, <3>2
  <2> HIDE DEF parts
  <2>2. FlattenSeq(parts) \in Seq(Names)
    BY <2>1, FlattenIsSeq
  <2> QED
    BY <2>2 DEF parts
<1> HIDE DEF kept
<1>2. FromDraft(d).hosts = kept(d.hosts) /\ FromDraft(d).mounts = d.mounts
  BY DEF FromDraft, kept
<1> QED
  BY <1>1, <1>2

LEMMA DeployPlanStep ==
  ASSUME PlanInv, attempts \in Nat, DeployNext
  PROVE  PlanInv'
<1>1. CASE Dispatch
  <2>1. PICK d \in Drafts[attempts + 1], versions \in SupportedVersions :
          params' = FromDraft(d) /\ Validate(FromDraft(d), versions)
    BY <1>1 DEF Dispatch
  <2>2. attempts + 1 \in 1..MaxAttempts
    BY <1>1, DeployAssumption DEF Dispatch
  <2>3. /\ {"hosts", "mounts"} \subseteq DOMAIN d
        /\ d.hosts \in Seq(Names) /\ d.mounts \in Seq(Names)
    BY <2>2, DeployAssumption
  <2>4. params'.hosts \in Seq(Names) /\ params'.mounts \in Seq(Names)
    BY <2>1, <2>3, FromDraftTyped
  <2>5. params'.hosts # <<>> /\ params'.mounts # <<>> /\ ValidateTopology(params')
    BY <2>1 DEF Validate
  <2> QED
    BY <2>4, <2>5 DEF PlanInv
<1>2. CASE ~Dispatch
  <2>1. UNCHANGED params /\ (task' = "dispatched" => task = "dispatched")
    <3>1. ASSUME NEW h \in Hosts, InstallStep(h)
          PROVE  UNCHANGED <<params, task>>
      BY <3>1, InstallKeepsParams
    <3>2. ASSUME NEW h \in Hosts, ServiceRestarts(h)
          PROVE  UNCHANGED <<params, task>>
      BY <3>2 DEF ServiceRestarts, HostStep
    <3> QED
      BY <1>2, <3>1, <3>2 DEF DeployNext, Execute, Cancel, HostsDone, VerifyCluster, Commit, ReleaseMoves
  <2> QED
    BY <2>1 DEF PlanInv
<1> QED
  BY <1>1, <1>2

LEMMA DeployStays ==
  ASSUME DraftInv, HostInv, TaskInv, PlanInv, attempts \in Nat, UNCHANGED deployVars
  PROVE  DraftInv' /\ HostInv' /\ TaskInv' /\ PlanInv' /\ attempts' \in Nat
BY DEF deployVars, DraftInv, HostInv, HostOK, TaskInv, PlanInv, Members

-----------------------------------------------------------------------------
(* All of it.                                                               *)

LEMMA InitHolds == Init => IInv
<1> SUFFICES ASSUME Init
             PROVE  IInv
  OBVIOUS
<1>1. PoolInv
  <2>1. PoolTypeOK
    <3>1. Idle \in [at : {"idle", "dialing", "has"}, key : PoolKeys \cup {NoClient},
                    client : Clients \cup {NoClient}]
      BY DEF Idle
    <3>2. 0 \in 0..MaxDials
      BY SshPoolAssumption
    <3> QED
      BY <3>1, <3>2 DEF Init, PoolInit, PoolTypeOK
  <2> QED
    BY <2>1 DEF Init, PoolInit, PoolInv, Idle
<1>2. DraftInv
  BY DEF Init, DeployInit, DraftInv, Fresh
<1>3. HostInv
  BY DEF Init, DeployInit, HostInv, HostOK, Fresh, Installed, AfterStorage, AfterPrimary
<1>4. TaskInv
  BY DEF Init, DeployInit, TaskInv, Members
<1>5. LocalInv
  BY DEF Init, LocalInit, LocalInv, NoPreparation
<1>6. WholeInv
  BY DEF Init, LocalInit, WholeInv, Written, NoPreparation
<1>7. UpdateInv
  BY DEF Init, UpdateInit, UpdateInv, NoUpdate, KnownTags
<1>8. attempts \in Nat
  BY DEF Init, DeployInit
<1>9. PlanInv
  BY DEF Init, DeployInit, PlanInv
<1> QED
  BY <1>1, <1>2, <1>3, <1>4, <1>5, <1>6, <1>7, <1>8, <1>9 DEF IInv

LEMMA NextPreserves == IInv /\ [Next]_installVars => IInv'
<1> SUFFICES ASSUME IInv, [Next]_installVars
             PROVE  IInv'
  OBVIOUS
<1> USE DEF IInv
<1>1. CASE Deploying
  <2>1. DeployNext /\ UNCHANGED localVars /\ UNCHANGED updateVars
    BY <1>1 DEF Deploying
  <2>2. HostInv' /\ DraftInv' /\ TaskInv' /\ PlanInv'
    BY <2>1, DeployHost, DeployDraft, DeployTask, DeployPlanStep
  <2>3. PoolInv'
    BY <2>1, DeployPool, PoolStep
  <2>4. LocalInv' /\ WholeInv' /\ UpdateInv'
    BY <2>1, LocalInvStep, WholeStays, UpdateStep DEF LocalInv, localVars, LocalArtifact
  <2>5. attempts' \in Nat
    <3>1. CASE Dispatch
      BY <3>1 DEF Dispatch
    <3>2. CASE ~Dispatch
      BY <2>1, <3>2 DEF DeployNext, Execute, Cancel, HostsDone, VerifyCluster, Commit, ReleaseMoves,
           ServiceRestarts, InstallStep, HostStep, Begin, DialHost, Acquire, Resolve, DownloadPackage,
           VerifyChecksum, InstallPackage, PrepareStorage, WriteCerts, WriteSecondary, WritePrimary,
           StartService, DropClient, Reconnect, StopBestEffort, WaitHealthy, Command
    <3> QED
      BY <3>1, <3>2
  <2> QED
    BY <2>2, <2>3, <2>4, <2>5
<1>2. CASE Preparing
  <2>1. LocalInv' /\ WholeInv'
    BY <1>2, LocalInvStep, WholeStep DEF Preparing
  <2>2. UNCHANGED <<poolVars, deployVars, updateVars>>
    BY <1>2 DEF Preparing
  <2> QED
    BY <2>1, <2>2, PoolStep, UpdateStep, DeployStays
<1>3. CASE Updating
  <2>1. UpdateInv'
    BY <1>3, UpdateStep DEF Updating
  <2>2. UNCHANGED <<siteVars, poolVars, deployVars, localVars>>
    BY <1>3 DEF Updating
  <2> QED
    BY <2>1, <2>2, PoolStep, LocalInvStep, WholeStays, DeployStays
<1>4. CASE Connecting
  <2>1. PoolInv'
    BY <1>4, PoolStep DEF Connecting
  <2>2. UNCHANGED <<siteVars, deployVars, localVars, updateVars>>
    BY <1>4 DEF Connecting
  <2> QED
    BY <2>1, <2>2, UpdateStep, LocalInvStep, WholeStays, DeployStays
<1>5. CASE UNCHANGED installVars
  BY <1>5, PoolStep, UpdateStep, LocalInvStep, WholeStays, DeployStays DEF installVars
<1> QED
  BY <1>1, <1>2, <1>3, <1>4, <1>5 DEF Next

(* The invariant of the installations, whatever installs and whatever moves *)
(* under it.                                                                *)
THEOREM Invariance == Spec => []IInv
BY InitHolds, NextPreserves, PTL DEF Spec

(* Whatever is installed matched the checksum fetched for it, and is of the *)
(* format or system it is installed on (install.go, localdeploy.go,         *)
(* update/service.go).                                                      *)
THEOREM Verified == Spec => []InstalledIsVerified
<1>1. IInv => InstalledIsVerified
  BY DEF IInv, HostInv, HostOK, DeployedIsVerified, LocalInv, PreparedIsVerified, UpdateInv,
     UpdateIsVerified, InstalledIsVerified, Installed
<1> QED
  BY <1>1, Invariance, PTL

(* A cluster that is committed runs the draft, and goes on doing so after a *)
(* restart: every host of it has its package, drives, certificates and      *)
(* environment, whatever earlier attempts left there (executor.go:165,      *)
(* install.go:164, verify.go:24).                                           *)
THEOREM CommittedRuns == Spec => []CommitRunsDraft
<1>1. IInv => CommitRunsDraft
  <2> SUFFICES ASSUME HostInv, TaskInv
               PROVE  CommitRunsDraft
    BY DEF IInv
  <2>1. \A h \in Hosts : disk[h].primary # None => disk[h].secondary # None
    BY DEF HostInv, HostOK
  <2>2. ASSUME cluster # None
        PROVE  /\ cluster.draft = params /\ cluster.servers = report /\ Members \subseteq Hosts
               /\ DOMAIN params.hosts = Members
               /\ \A h \in Members : work[h].at = "healthy"
               /\ \A s \in report \cap Members : disk[s].live # None => disk[s].live.creds = params.creds
    BY <2>2 DEF TaskInv, Members
  <2>3. ASSUME cluster # None, NEW h \in Members
        PROVE  /\ disk[h].pkg # None
               /\ disk[h].mounts = ToSet(params.mounts)
               /\ params.tls # None => disk[h].certs
               /\ disk[h].primary = RenderConfigEnv(params)
               /\ disk[h].secondary = params.creds
    <3>1. HostOK(h, work[h], disk[h]) /\ work[h].at = "healthy"
      BY <2>2, <2>3 DEF HostInv
    <3> QED
      BY <3>1 DEF HostOK, Installed, AfterStorage, AfterPrimary
  <2> QED
    BY <2>1, <2>2, <2>3 DEF CommitRunsDraft
<1> QED
  BY <1>1, Invariance, PTL

(* A preparation that answers without an error is whole: the script, the    *)
(* certificates, the directories and, on Windows, the launcher are this     *)
(* request's, and the server's own defaults give the plan's set size and    *)
(* parity (localdeploy.go:64-146), whatever was asked and tried before.     *)
THEOREM PreparedWhole == Spec => []PreparedIsWhole
<1>1. IInv => PreparedIsWhole
  <2> SUFFICES ASSUME LocalInv, WholeInv, prepare.at = "ok"
               PROVE  PreparedIsWhole
    BY DEF IInv, PreparedIsWhole
  <2> DEFINE plan == prepare.plan
             size == DefaultSetSize(Len(plan.paths))
  <2>1. /\ ToSet(plan.paths) \subseteq fs.dirs
        /\ prepare.req.tls # None => fs.certs = prepare.req.tls
        /\ fs.script = RenderScript
        /\ goos = "windows" => fs.launcher
    BY DEF WholeInv, Written
  <2>2. SoundPlan(plan)
    BY DEF WholeInv
  <2>3. ASSUME Len(plan.paths) > 1
        PROVE  /\ plan.setSize = size /\ 2 * plan.parity <= size
               /\ plan.parity = IF fs.script.parity = None THEN DefaultParityBlocks(size)
                                ELSE fs.script.parity
    <3>0. plan.setSize = ComputeSetSize(Len(plan.paths)) /\ plan.setSize \in SetSizes
      BY <2>2, <2>3 DEF SoundPlan
    <3>a. ComputeSetSize(Len(plan.paths)) = size
      <4>1. Len(plan.paths) \in Nat
        BY <2>2 DEF SoundPlan
      <4>2. None \notin SetSizes
        BY DeployPlanAssumption DEF SetSizes
      <4> QED
        BY <2>3, <3>0, <4>1, <4>2, LocalSizeAgrees
    <3>1. plan.setSize = size /\ size \in SetSizes /\ plan.parity \in 0..(size \div 2)
      BY <2>2, <2>3, <3>0, <3>a DEF SoundPlan
    <3>2. 2 * plan.parity <= size /\ plan.parity # None
      <4>1. size \in Nat /\ plan.parity \in Nat
        BY <3>1 DEF SetSizes
      <4>2. plan.parity <= size \div 2
        BY <3>1, <4>1
      <4>3. \A m, n \in Nat : n <= m \div 2 => 2 * n <= m
        BY SMTT(30)
      <4> QED
        BY <4>1, <4>2, <4>3, DeployPlanAssumption
    <3>3. fs.script.parity = IF plan.parity # LocalParityBlocks(size) THEN plan.parity ELSE None
      BY <2>1, <2>3, <3>1, <3>a DEF RenderScript
    <3>4. LocalParityBlocks(size) = DefaultParityBlocks(size)
      BY <3>1, DefaultsAgree
    <3> HIDE DEF plan, size
    <3> QED
      BY <3>1, <3>2, <3>3, <3>4
  <2> QED
    BY <2>1, <2>3 DEF PreparedIsWhole
<1> QED
  BY <1>1, Invariance, PTL

(* A draft that was accepted is told to the server as it was drawn: the     *)
(* patterns name exactly its drives, for names of any length and any        *)
(* number of hosts and mounts, and the server's defaults, where the         *)
(* environment is silent, give the set size and the parity that were        *)
(* accepted (params.go, volumes.go, install.go:219).                        *)
THEOREM FaithfulPlan == Spec => []DeployPlanIsFaithful
<1>1. IInv => DeployPlanIsFaithful
  BY PlanFaithful DEF IInv, PlanInv, DeployPlanIsFaithful
<1> QED
  BY <1>1, Invariance, PTL

(* No client is handed out or kept that the pool closed or that was made    *)
(* for another host or login, and none is kept after Close (ssh/pool.go).   *)
THEOREM PoolSound == Spec => []PoolIsSound
<1>1. IInv => PoolIsSound
  BY DEF IInv, PoolInv, PoolIsSound
<1> QED
  BY <1>1, Invariance, PTL

=============================================================================
