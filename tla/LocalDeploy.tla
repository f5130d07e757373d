----------------------------- MODULE LocalDeploy ----------------------------
(***************************************************************************)
(* Local deployment (internal/localdeploy): Prepare makes the directories, *)
(* downloads the server and writes the script that starts it.  It keeps no *)
(* record: what an earlier preparation left is what the next one finds.    *)
(* Each step may fail or be the last one the program makes.  One           *)
(* preparation at a time.                                                  *)
(***************************************************************************)
EXTENDS DeployPlan

CONSTANTS
  LocalRequests,  \* requests the page may send
  Systems,        \* systems the program may be running on
  MaxPrepares     \* preparations tried (bound)

ASSUME LocalDeployAssumption ==
  \A req \in LocalRequests : req.paths \in Seq(RawPaths) /\ req.parity \in Nat

VARIABLES
  goos,
  prepare,   \* where the preparation is, its request and plan, the checksum expected
  prepares,
  fs         \* directories made, those with data, files

localVars == <<goos, prepare, prepares, fs>>

NoPlan == [paths |-> <<>>, setSize |-> 0, parity |-> 0]

NoPreparation ==
  [at |-> "idle", req |-> None, plan |-> NoPlan, versions |-> None, sum |-> None]

LocalInit ==
  /\ goos \in Systems
  /\ prepare = NoPreparation
  /\ prepares = 0
  /\ fs = [dirs |-> {}, used |-> {}, temp |-> None, binary |-> None, certs |-> None,
           script |-> None, launcher |-> FALSE]

LocalArtifact(req, versions) ==
  LET files == VersionByTag(versions, req.version)
  IN  IF req.custom \/ files = None THEN None ELSE BinaryArtifactForOSArch(files, goos, req.arch)

\* Data may not be under the deployment's certificates, nor contain the deployment.
ClearOfRoot(paths, root) ==
  \A i \in DOMAIN paths : ~IsPrefix(paths[i], root) /\ ~PathsOverlap(paths[i], Append(root, 11))

ValidateBasic(req) == req.port # req.console /\ req.creds # None

\* The plan, or None: refused.
PreviewPlan(req) ==
  LET paths == NormalizeDataPaths(req.paths, fs.used)
      count == Len(paths)
      size  == ComputeSetSize(count)
  IN  IF \/ ~ValidateBasic(req)
         \/ goos \notin {"darwin", "windows"}
         \/ paths = None
      THEN None
      ELSE IF \/ req.tls # None /\ ~req.tls.sound
              \/ ~ClearOfRoot(paths, req.root)
              \/ size = None
      THEN None
      ELSE IF NormalizeParity(req.parity, count, size) = None THEN None
      ELSE [paths |-> paths, setSize |-> size, parity |-> NormalizeParity(req.parity, count, size)]

Prepare ==
  /\ prepare.at \in {"idle", "ok", "error"}
  /\ prepares < MaxPrepares
  /\ prepares' = prepares + 1
  /\ \E req \in LocalRequests, versions \in SupportedVersions :
       /\ Remember(versions)
       /\ prepare' = IF LocalArtifact(req, versions) = None \/ PreviewPlan(req) = None
                     THEN [NoPreparation EXCEPT !.at = "error"]
                     ELSE [at |-> "dirs", req |-> req, plan |-> PreviewPlan(req),
                           versions |-> versions, sum |-> None]
  /\ UNCHANGED <<goos, fs, asset, sidecar>>

\* A step that moves on once after is on disk, or fails, with what it had written.
LocalStep(at, next, after, failing) ==
  /\ prepare.at = at
  /\ \/ fs' = after /\ prepare' = [prepare EXCEPT !.at = next]
     \/ fs' \in failing /\ prepare' = [prepare EXCEPT !.at = "error"]
  /\ UNCHANGED <<goos, prepares, siteVars>>

MakeDirs ==
  LET paths == prepare.plan.paths
      made(n) == [fs EXCEPT !.dirs = @ \cup {paths[i] : i \in 1..n}]
  IN  LocalStep("dirs", "checksum", made(Len(paths)), {made(n) : n \in 0..Len(paths)})

\* Of the artifact that was picked when the request came.
ResolveChecksum ==
  /\ prepare.at = "checksum"
  /\ \E sum \in {None} \cup FetchChecksum(prepare.req.version,
                             LocalArtifact(prepare.req, prepare.versions), prepare.versions) :
       prepare' = [prepare EXCEPT !.at = IF sum = None THEN "error" ELSE "download", !.sum = sum]
  /\ UNCHANGED <<goos, prepares, fs, siteVars>>

\* Beside the binary, then in its place; what a crash leaves beside it is written over.
DownloadTemp ==
  LocalStep("download", "rename",
            [fs EXCEPT !.temp = Download(prepare.req.version, prepare.sum.file)],
            {fs, [fs EXCEPT !.temp = None]})

RenameIntoPlace ==
  LocalStep("rename", "verify", [fs EXCEPT !.binary = fs.temp, !.temp = None],
            {[fs EXCEPT !.temp = None]})

\* Of the file that is in place by now.
VerifyFile ==
  LocalStep("verify",
            IF fs.binary # prepare.sum THEN "error" ELSE IF prepare.req.tls = None THEN "script" ELSE "certs",
            fs, {fs})

WriteTLSFiles ==
  LocalStep("certs", "script", [fs EXCEPT !.certs = prepare.req.tls],
            {fs, [fs EXCEPT !.certs = None]})

\* The set size is the default one, so that only the parity is ever written.
RenderScript ==
  LET plan == prepare.plan
  IN  [paths |-> plan.paths, port |-> prepare.req.port, creds |-> prepare.req.creds,
       tls   |-> prepare.req.tls # None,
       parity |-> IF Len(plan.paths) > 1 /\ plan.parity # LocalParityBlocks(plan.setSize)
                  THEN plan.parity ELSE None]

\* On Windows the script is run by a launcher, and goes if that cannot be written.
WriteScript ==
  LocalStep("script", IF goos = "windows" THEN "launcher" ELSE "ok",
            [fs EXCEPT !.script = RenderScript], {fs, [fs EXCEPT !.script = None]})

WriteLauncher ==
  LocalStep("launcher", "ok", [fs EXCEPT !.launcher = TRUE],
            {[fs EXCEPT !.script = None], [fs EXCEPT !.script = None, !.launcher = FALSE]})

\* The program ends; nothing is cleaned up.
LocalCrash ==
  /\ prepare.at \notin {"idle", "ok", "error"}
  /\ prepare' = [prepare EXCEPT !.at = "idle"]
  /\ UNCHANGED <<goos, prepares, fs, siteVars>>

\* The operator runs what is there, whenever: the server formats its data paths.
RunScript ==
  /\ fs.script # None /\ fs.binary # None
  /\ goos = "windows" => fs.launcher
  /\ fs' = [fs EXCEPT !.used = @ \cup ToSet(fs.script.paths),
                      !.dirs = @ \cup ToSet(fs.script.paths)]
  /\ UNCHANGED <<goos, prepare, prepares, siteVars>>

LocalNext ==
  \/ Prepare \/ MakeDirs \/ ResolveChecksum \/ DownloadTemp \/ RenameIntoPlace \/ VerifyFile
  \/ WriteTLSFiles \/ WriteScript \/ WriteLauncher \/ LocalCrash \/ RunScript
  \/ SiteNext /\ UNCHANGED localVars

-----------------------------------------------------------------------------
(* When Prepare answers without an error everything the answer names is in *)
(* place and of one request: the script is of this request's data paths    *)
(* and can be started, the certificates it points at are this request's,   *)
(* the directories exist, and the server's own defaults give the set size  *)
(* and parity of the plan -- whatever earlier attempts left behind         *)
(* (localdeploy.go:64-146).                                                *)
PreparedIsWhole ==
  prepare.at = "ok" =>
    LET plan == prepare.plan
        size == DefaultSetSize(Len(plan.paths))
    IN  /\ fs.script = RenderScript
        /\ goos = "windows" => fs.launcher
        /\ prepare.req.tls # None => fs.certs = prepare.req.tls
        /\ ToSet(plan.paths) \subseteq fs.dirs
        /\ Len(plan.paths) > 1 =>
             /\ plan.setSize = size /\ 2 * plan.parity <= size
             /\ plan.parity = IF fs.script.parity = None THEN DefaultParityBlocks(size) ELSE fs.script.parity

(* ... and the binary it starts is one that matched its checksum.          *)
PreparedIsVerified ==
  prepare.at = "ok" => fs.binary = prepare.sum /\ fs.binary.file.os = goos
=============================================================================
