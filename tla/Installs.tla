------------------------------ MODULE Installs ------------------------------
(***************************************************************************)
(* The parts of the manager that install something, together with what     *)
(* they share: a deployment over SSH, a local preparation, an update of    *)
(* the manager itself, and, beside a deployment, the other callers of the  *)
(* SSH pool (preflight checks, operations and log streams).  They meet     *)
(* only in the release listing and the pool, so that one is followed at a  *)
(* time, chosen at the start; what it shares moves under it.               *)
(***************************************************************************)
EXTENDS Deploy, LocalDeploy, SelfUpdate

VARIABLE installer

installVars == <<installer, siteVars, poolVars, deployVars, localVars, updateVars>>

Init ==
  /\ installer \in {"deploy", "local", "update", "sessions"}
  /\ SiteInit /\ PoolInit /\ DeployInit /\ LocalInit /\ UpdateInit
  /\ installer # "deploy" => concurrency = CHOOSE n \in Concurrencies : TRUE
  /\ installer # "local" => goos = CHOOSE s \in Systems : TRUE
  /\ installer # "update" => /\ pointer.tag = CHOOSE t \in ReleaseTags : TRUE
                             /\ running = CHOOSE t \in InitialTags : TRUE

Deploying ==
  installer = "deploy" /\ DeployNext /\ UNCHANGED <<installer, localVars, updateVars>>

Preparing ==
  installer = "local" /\ LocalNext /\ UNCHANGED <<installer, poolVars, deployVars, updateVars>>

Updating ==
  /\ installer = "update"
  /\ UpdateNext
  /\ UNCHANGED <<installer, siteVars, poolVars, deployVars, localVars>>

Connecting ==
  /\ installer = "sessions"
  /\ PoolNext
  /\ UNCHANGED <<installer, siteVars, deployVars, localVars, updateVars>>

Next == Deploying \/ Preparing \/ Updating \/ Connecting

Spec == Init /\ [][Next]_installVars

(* Whatever is installed -- a package on a host, the local server, the     *)
(* manager itself -- matched the checksum that was fetched for it, however *)
(* releases, checksums and signatures moved between the calls.             *)
InstalledIsVerified == DeployedIsVerified /\ PreparedIsVerified /\ UpdateIsVerified
=============================================================================
