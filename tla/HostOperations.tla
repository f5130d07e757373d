--------------------------- MODULE HostOperations ---------------------------
(***************************************************************************)
(* The operations that work on the hosts of a Buckit cluster               *)
(* (internal/operations): start, stop and restart of the units, rolling    *)
(* restart, reboot and shutdown, the two upgrades, and the provisioning of *)
(* a replaced host (redeploy).  Operations follow one another under the    *)
(* cluster's lock.                                                         *)
(*                                                                         *)
(* A host is its power state, the package and the binary installed on it,  *)
(* the files a server needs, and the server that runs.  A remote command   *)
(* may fail, with or without having worked.  Commands that only probe or   *)
(* download are part of the step they prepare.  A canceled run fails at    *)
(* its next command like a command that fails, or between two hosts        *)
(* (Abandon).                                                              *)
(***************************************************************************)
EXTENDS Naturals, FiniteSets

CONSTANTS
  Hosts,       \* nodes of the cluster
  MaxVersion,  \* bound: releases are 1 .. MaxVersion, older to newer
  MaxOps       \* bound: operations begun

ASSUME HostAssumption ==
  IsFiniteSet(Hosts) /\ MaxVersion \in Nat \ {0} /\ MaxOps \in Nat

VARIABLES
  power,    \* power[h]: "on", "reboot" or "halt" (ordered), "down" (boots), "off"
  pkg,      \* pkg[h]: the installed package, which brings the unit; 0 without
  disk,     \* disk[h]: the binary a start executes, 0 without
  files,    \* files[h]: what h has of the env file, the other configuration, data
  live,     \* live[h]: the release that runs, 0 when none does
  wanted,   \* hosts whose unit was started and not stopped
  job,      \* job[h]: "none", "start" (under way), "reexec" (asked for)
  enabled,  \* hosts whose unit starts at boot
  row,      \* Version in the cluster row
  op,       \* the current or last operation
  stage,    \* "hosts", "admin", "healthy", "converge", or "idle"
  at,       \* at[h]: how far the operation is on h
  base,     \* history: hosts that ran when a rolling restart began
  victims,  \* history: hosts that failed, went down, or lost a probe since then
  result,   \* how the last operation ended
  ops       \* operations begun

hostVars == <<power, pkg, disk, files, live, wanted, job>>
taskVars == <<op, base, ops>>
vars == <<hostVars, enabled, row, stage, at, result, victims, taskVars>>

Releases == 1 .. MaxVersion
Config == {"env", "extras"}

\* rolling_restart, systemctl_*, reboot_host, shutdown_host, upgrade by
\* systemctl, redeploy_software: one host after the other.
OneByOne == {"rolling", "host_restart", "host_start", "host_stop", "reboot", "shutdown",
             "upgrade", "redeploy"}
\* start_cluster, stop_cluster_by_systemctl: all hosts in parallel.
AtOnce == {"start", "stop"}
\* restart_cluster, stop_cluster and upgrade through the admin API.
ViaAdmin == {"restart", "stop_admin", "update"}
Selective == {"host_restart", "host_start", "host_stop", "reboot", "shutdown"}
GoesOn == AtOnce \cup {"host_restart", "host_start", "host_stop"}

HasUnit(h) == pkg[h] # 0
Up(h) == power[h] \notin {"down", "off"}
Running == {h \in Hosts : live[h] # 0}

-----------------------------------------------------------------------------
(* Hosts: with the package; with a server started otherwise; replaced by a  *)
(* clean machine.                                                           *)

Init ==
  /\ pkg \in [Hosts -> {0, 1}]
  /\ \E h \in Hosts : HasUnit(h)
  /\ \E clean \in SUBSET {h \in Hosts : ~HasUnit(h)} :
       /\ disk = [h \in Hosts |-> IF h \in clean THEN 0 ELSE 1]
       /\ files = [h \in Hosts |-> IF h \in clean THEN {} ELSE Config \cup {"data"}]
  /\ live = disk
  /\ wanted = {h \in Hosts : HasUnit(h)} /\ enabled = wanted
  /\ power = [h \in Hosts |-> "on"] /\ job = [h \in Hosts |-> "none"]
  /\ row = 1
  /\ op = [kind |-> "none", targets |-> {}, goal |-> 0, checked |-> FALSE]
  /\ stage = "idle" /\ at = [h \in Hosts |-> "todo"]
  /\ base = {} /\ victims = {} /\ result = "none" /\ ops = 0

End(r) == stage' = "idle" /\ at' = [h \in Hosts |-> "todo"] /\ result' = r

\* ensureVersionIsNewer, for a version that parses.
Newer(goal) == Running # {} /\ \A h \in Running : goal > live[h]

\* Refused operations change nothing and are left out: a unit missing on a
\* selected host (preflightUnitPresent), a version that is not newer.
Admissible(o) ==
  \/ o.kind \in {"rolling", "start", "stop", "restart", "stop_admin"} /\ o.targets = Hosts
  \/ o.kind \in {"reboot", "shutdown"} /\ o.targets # {}
  \/ /\ o.kind \in {"host_restart", "host_start", "host_stop"} /\ o.targets # {}
     /\ \A h \in o.targets : HasUnit(h) /\ Up(h)
  \/ /\ o.kind = "upgrade" /\ o.targets = Hosts
     /\ o.checked => Newer(o.goal)
  \* resolveBinaryUpdateURL wants every server's platform
  \/ /\ o.kind = "update" /\ o.targets = Hosts
     /\ o.checked /\ Newer(o.goal) /\ Running = Hosts
  \/ o.kind = "redeploy" /\ Cardinality(o.targets) = 1 /\ o.goal = row

Requests ==
  [kind : (OneByOne \cup AtOnce \cup ViaAdmin) \ {"upgrade", "update", "redeploy"},
   targets : SUBSET Hosts, goal : {0}, checked : {FALSE}]
  \cup [kind : {"upgrade", "update"}, targets : {Hosts}, goal : Releases, checked : BOOLEAN]
  \cup [kind : {"redeploy"}, targets : SUBSET Hosts, goal : Releases, checked : {FALSE}]

Begin ==
  /\ stage = "idle" /\ ops < MaxOps
  /\ \E o \in Requests : Admissible(o) /\ op' = o
  /\ stage' = IF op'.kind \in ViaAdmin THEN "admin" ELSE "hosts"
  /\ base' = (IF op'.kind = "rolling" THEN Running ELSE {})
  /\ victims' = {} /\ result' = "none" /\ ops' = ops + 1
  /\ UNCHANGED <<hostVars, enabled, row, at>>

-----------------------------------------------------------------------------
(* The remote commands.                                                     *)

Restarted(h) ==
  /\ live' = [live EXCEPT ![h] = 0] /\ job' = [job EXCEPT ![h] = "start"]
  /\ wanted' = wanted \cup {h}
  /\ UNCHANGED <<power, pkg, disk, files>>

Started(h) ==
  /\ job' = IF live[h] = 0 THEN [job EXCEPT ![h] = "start"] ELSE job
  /\ wanted' = wanted \cup {h}
  /\ UNCHANGED <<power, pkg, disk, files, live>>

\* Mutant: only the process is stopped.
M_Stopped(h) ==
  /\ live' = [live EXCEPT ![h] = 0] /\ job' = [job EXCEPT ![h] = "none"]
  /\ UNCHANGED <<power, pkg, disk, files, wanted>>

Stopped(h) ==
  /\ live' = [live EXCEPT ![h] = 0] /\ job' = [job EXCEPT ![h] = "none"]
  /\ wanted' = wanted \ {h}
  /\ UNCHANGED <<power, pkg, disk, files>>

\* inspectInstallAction refuses a downgrade of the package.
Installed(h) ==
  /\ pkg[h] <= op.goal
  /\ pkg' = [pkg EXCEPT ![h] = op.goal] /\ disk' = [disk EXCEPT ![h] = op.goal]
  /\ UNCHANGED <<power, files, live, wanted, job>>

\* The command's own error is ignored.
Ordered(h) ==
  /\ power' \in {power, [power EXCEPT ![h] =
                   IF @ # "on" THEN @ ELSE IF op.kind = "reboot" THEN "reboot" ELSE "halt"]}
  /\ UNCHANGED <<pkg, disk, files, live, wanted, job>>

Copied(h, S) ==
  /\ files' = [files EXCEPT ![h] = @ \cup S]
  /\ UNCHANGED <<power, pkg, disk, live, wanted, job>>

\* pickConfigSourcePeer; the preference among peers is left out.
Sources(h) == {g \in Hosts \ {h} : Up(g) /\ "env" \in files[g]}

\* Mutant: hosts with files are accepted.
M_IsClean(h) == Sources(h) # {}

\* preflightHostIsClean: some unit names the env file, a peer has it, and the
\* target has no configuration and no data.
IsClean(h) ==
  /\ \E g \in Hosts : Up(g) /\ HasUnit(g)
  /\ Sources(h) # {} /\ files[h] = {}

\* What the command that is next on h does, and what comes after it.
Effect(h) ==
  \/ op.kind \in {"rolling", "host_restart"} /\ HasUnit(h) /\ Restarted(h)
  \/ op.kind \in {"start", "host_start"} /\ HasUnit(h) /\ Started(h)
  \/ op.kind \in {"stop", "host_stop"} /\ HasUnit(h) /\ Stopped(h)
  \/ op.kind = "upgrade" /\ HasUnit(h) /\ Installed(h)
  \/ /\ op.kind = "redeploy"
     /\ \/ at[h] = "todo" /\ IsClean(h) /\ UNCHANGED hostVars
        \/ at[h] = "clean" /\ ("env" \in files[h] \/ Sources(h) # {}) /\ Copied(h, {"env"})
        \/ at[h] = "half" /\ \E g \in Sources(h) : Copied(h, files[g] \cap {"extras"})
        \/ at[h] = "ready" /\ pkg[h] <= op.goal /\ Stopped(h)
        \/ at[h] = "stopped" /\ Installed(h)
        \/ at[h] = "installed" /\ Started(h)

After(h) ==
  CASE op.kind \in {"rolling", "host_restart", "host_start"} -> "wait"
    [] op.kind = "redeploy" ->
         CASE at[h] = "todo" -> "clean"
           \* bootstrapBuckitConfigFromPeer copies nothing if the env file is there
           [] at[h] = "clean" -> IF "env" \in files[h] THEN "ready" ELSE "half"
           [] at[h] = "half" -> "ready"
           [] at[h] = "ready" -> "stopped"
           [] at[h] = "stopped" -> "installed"
           [] OTHER -> "wait"
    [] OTHER -> "done"

Over == {"todo", "done", "bad", "skip"}

\* h is next, or in the middle of its commands.
Turn(h) ==
  /\ stage = "hosts" /\ h \in op.targets
  /\ \/ at[h] \notin Over \cup {"wait", "ssh"}
     \/ at[h] = "todo" /\ (op.kind \in OneByOne => \A g \in Hosts : at[g] \in Over)

Command(h) ==
  /\ Turn(h) /\ Up(h)
  /\ Effect(h)
  /\ at' = [at EXCEPT ![h] = After(h)]
  /\ UNCHANGED <<enabled, row, stage, result, victims, taskVars>>

SkipHost(h) ==
  /\ Turn(h) /\ Up(h) /\ ~HasUnit(h)
  /\ op.kind \in {"rolling", "start", "stop", "upgrade"}
  /\ at' = [at EXCEPT ![h] = "skip"]
  /\ UNCHANGED <<hostVars, enabled, row, stage, result, victims, taskVars>>

\* remoteFileExists takes a probe of the peer that fails for an absent file.
SkipExtras(h) ==
  /\ Turn(h) /\ at[h] = "half"
  /\ at' = [at EXCEPT ![h] = "ready"]
  /\ victims' = victims \cup {h}
  /\ UNCHANGED <<hostVars, enabled, row, stage, result, taskVars>>

\* shutdown -r now, shutdown -h now: they return before the host goes down.
OrderPower(h) ==
  /\ Turn(h) /\ op.kind \in {"reboot", "shutdown"}
  /\ Ordered(h)
  /\ at' = [at EXCEPT ![h] = IF op.kind = "reboot" THEN "ssh" ELSE "done"]
  /\ UNCHANGED <<enabled, row, stage, result, victims, taskVars>>

\* waitSSHReturn
SshReturns(h) ==
  /\ stage = "hosts" /\ at[h] = "ssh" /\ Up(h)
  /\ at' = [at EXCEPT ![h] = "wait"]
  /\ UNCHANGED <<hostVars, enabled, row, stage, result, victims, taskVars>>

\* Mutant: the next host does not wait for the health of this one.
M_HostHealthy(h) ==
  /\ stage = "hosts" /\ at[h] = "wait"
  /\ at' = [at EXCEPT ![h] = "done"]
  /\ UNCHANGED <<hostVars, enabled, row, stage, result, victims, taskVars>>

\* waitHostHealthy
HostHealthy(h) ==
  /\ stage = "hosts" /\ at[h] = "wait" /\ Up(h) /\ live[h] # 0
  /\ at' = [at EXCEPT ![h] = "done"]
  /\ UNCHANGED <<hostVars, enabled, row, stage, result, victims, taskVars>>

\* A probe, a command or a wait fails.  Some loops go on with the other hosts.
HostFails(h) ==
  /\ Turn(h) \/ (stage = "hosts" /\ at[h] \in {"wait", "ssh"})
  /\ op.kind # "shutdown" /\ (op.kind = "reboot" => at[h] # "todo")
  /\ \/ Turn(h) /\ Up(h) /\ Effect(h)
     \/ UNCHANGED hostVars
  /\ IF op.kind \in GoesOn
       THEN at' = [at EXCEPT ![h] = "bad"] /\ UNCHANGED <<stage, result>>
       ELSE End(IF at[h] \in {"clean", "half"} THEN "bootstrap" ELSE "failed")
  /\ UNCHANGED <<enabled, row, victims, taskVars>>

\* ctx.Err() at the head of a loop.
Abandon ==
  /\ stage = "hosts" /\ op.kind \in OneByOne
  /\ \E h \in op.targets : at[h] = "todo" /\ Turn(h)
  /\ End("failed")
  /\ UNCHANGED <<hostVars, enabled, row, victims, taskVars>>

-----------------------------------------------------------------------------
(* The end of the loop over the hosts, and the admin API.                   *)

\* Mutant: an offline server's empty version is stored.
M_Reported == {row} \cup {live[h] : h \in Hosts}

\* refreshClusterRow: the version of some server that answers.
Reported == {row} \cup {live[h] : h \in Running}

Ends(S) == stage = "hosts" /\ \A h \in op.targets : at[h] \in S

LoopFails ==
  /\ Ends({"done", "bad", "skip"})
  /\ \/ \E h \in op.targets : at[h] = "bad"
     \/ \A h \in op.targets : at[h] = "skip"
  /\ row' \in IF op.kind \in {"host_restart", "host_start"} THEN Reported ELSE {row}
  /\ End("failed")
  /\ UNCHANGED <<hostVars, enabled, victims, taskVars>>

LoopEnds ==
  /\ Ends({"done", "skip"}) /\ \E h \in op.targets : at[h] = "done"
  /\ IF op.kind \in {"start", "upgrade"}
       THEN /\ stage' = IF op.kind = "start" THEN "healthy" ELSE "admin"
            /\ UNCHANGED <<at, result, row>>
       ELSE /\ End("succeeded")
            /\ row' \in IF op.kind \in {"stop", "host_stop", "shutdown"} THEN {row} ELSE Reported
  /\ UNCHANGED <<hostVars, enabled, victims, taskVars>>

Reexecs(S) == job' = [h \in Hosts |-> IF h \in S THEN "reexec" ELSE job[h]]

\* ServiceRestart: acknowledged, and done later.
Restart ==
  /\ stage = "admin" /\ op.kind \in {"restart", "upgrade"}
  /\ \E S \in (SUBSET Running) \ {{}} : Reexecs(S)
  /\ stage' = "healthy"
  /\ UNCHANGED <<power, pkg, disk, files, live, wanted, enabled, row, at, result, victims, taskVars>>

Exited(S) ==
  /\ live' = [h \in Hosts |-> IF h \in S THEN 0 ELSE live[h]]
  /\ job' = [h \in Hosts |-> IF h \in S THEN "none" ELSE job[h]]

\* ServiceStop: the units stay started.
StopByAdmin ==
  /\ stage = "admin" /\ op.kind = "stop_admin"
  /\ \E S \in (SUBSET Running) \ {{}} : Exited(S)
  /\ End("succeeded")
  /\ UNCHANGED <<power, pkg, disk, files, wanted, enabled, row, victims, taskVars>>

Replaced(S) == disk' = [h \in Hosts |-> IF h \in S THEN op.goal ELSE disk[h]]

\* ServerUpdate: every server that answers replaced its binary.
Update ==
  /\ stage = "admin" /\ op.kind = "update" /\ Running # {}
  /\ Replaced(Running) /\ Reexecs(Running)
  /\ stage' = "healthy"
  /\ UNCHANGED <<power, pkg, files, live, wanted, enabled, row, at, result, victims, taskVars>>

\* The call fails, or a server reports an error.
AdminFails ==
  /\ stage = "admin"
  /\ \E S \in SUBSET Running :
       \/ op.kind \in {"restart", "upgrade"} /\ Reexecs(S) /\ UNCHANGED <<disk, live>>
       \/ op.kind = "stop_admin" /\ Exited(S) /\ UNCHANGED disk
       \/ /\ op.kind = "update" /\ UNCHANGED live
          /\ Replaced(S) /\ (\E R \in SUBSET S : Reexecs(R))
  /\ End("failed")
  /\ UNCHANGED <<power, pkg, files, wanted, enabled, row, victims, taskVars>>

\* Mutant: the versions are not waited for.
M_Healthy ==
  /\ stage = "healthy" /\ Running = Hosts
  /\ End("succeeded") /\ row' \in Reported
  /\ UNCHANGED <<hostVars, enabled, victims, taskVars>>

\* waitClusterHealthy
Healthy ==
  /\ stage = "healthy" /\ Running = Hosts
  /\ IF op.kind \in {"upgrade", "update"} /\ op.checked
       THEN stage' = "converge" /\ UNCHANGED <<at, result, row>>
       ELSE End("succeeded") /\ row' \in Reported
  /\ UNCHANGED <<hostVars, enabled, victims, taskVars>>

\* waitServerVersionsReached
Converged ==
  /\ stage = "converge" /\ \A h \in Hosts : live[h] >= op.goal
  /\ End("succeeded") /\ row' \in Reported
  /\ UNCHANGED <<hostVars, enabled, victims, taskVars>>

\* Mutant: only the wait for the versions has a deadline.
M_WaitFails ==
  /\ stage = "converge"
  /\ End("failed")
  /\ UNCHANGED <<hostVars, enabled, row, victims, taskVars>>

WaitFails ==
  /\ stage \in {"healthy", "converge"}
  /\ End("failed")
  /\ UNCHANGED <<hostVars, enabled, row, victims, taskVars>>

-----------------------------------------------------------------------------
(* The environment.                                                         *)

\* bm ends in the middle of an operation.
Crash ==
  /\ stage # "idle"
  /\ End("lost")
  /\ UNCHANGED <<hostVars, enabled, row, victims, taskVars>>

\* The UI refreshes the cluster row.
Refresh ==
  /\ row' \in Reported \ {row}
  /\ UNCHANGED <<hostVars, enabled, stage, at, result, victims, taskVars>>

\* Kept for the operations whose properties read it.
Noted(h) ==
  victims' = IF op.kind \in {"rolling", "stop"} THEN victims \cup {h} ELSE victims

\* An ordered reboot or shutdown takes the host down.
GoDown(h) ==
  /\ power[h] \in {"reboot", "halt"}
  /\ power' = [power EXCEPT ![h] = IF @ = "reboot" THEN "down" ELSE "off"]
  /\ live' = [live EXCEPT ![h] = 0] /\ job' = [job EXCEPT ![h] = "none"]
  /\ wanted' = wanted \ {h} /\ Noted(h)
  /\ UNCHANGED <<pkg, disk, files, enabled, row, stage, at, result, taskVars>>

\* A host boots, after a reboot or because somebody switched it on.
Boot(h) ==
  /\ power[h] \in {"down", "off"}
  /\ power' = [power EXCEPT ![h] = "on"]
  /\ IF h \in enabled
       THEN wanted' = wanted \cup {h} /\ job' = [job EXCEPT ![h] = "start"]
       ELSE UNCHANGED <<wanted, job>>
  /\ UNCHANGED <<pkg, disk, files, live, enabled, row, stage, at, result, victims, taskVars>>

\* A start that fails is one that is never over: systemd tries again.
ServerUp(h) ==
  /\ job[h] = "start" /\ disk[h] # 0 /\ "env" \in files[h]
  /\ live' = [live EXCEPT ![h] = disk[h]] /\ job' = [job EXCEPT ![h] = "none"]
  /\ files' = [files EXCEPT ![h] = @ \cup {"data"}]
  /\ UNCHANGED <<power, pkg, disk, wanted, enabled, row, stage, at, result, victims, taskVars>>

Reexec(h) ==
  /\ job[h] = "reexec"
  /\ live' = [live EXCEPT ![h] = disk[h]] /\ job' = [job EXCEPT ![h] = "none"]
  /\ UNCHANGED <<power, pkg, disk, files, wanted, enabled, row, stage, at, result,
                 victims, taskVars>>

ServerFails(h) ==
  /\ live[h] # 0
  /\ live' = [live EXCEPT ![h] = 0] /\ job' = [job EXCEPT ![h] = "none"]
  /\ Noted(h)
  /\ UNCHANGED <<power, pkg, disk, files, wanted, enabled, row, stage, at, result, taskVars>>

\* systemd's Restart= policy.
Revive(h) ==
  /\ h \in wanted /\ Up(h) /\ live[h] = 0 /\ job[h] = "none"
  /\ job' = [job EXCEPT ![h] = "start"]
  /\ UNCHANGED <<power, pkg, disk, files, live, wanted, enabled, row, stage, at, result,
                 victims, taskVars>>

-----------------------------------------------------------------------------
HostStep(h) ==
  \/ Command(h) \/ SkipHost(h) \/ SkipExtras(h) \/ OrderPower(h) \/ SshReturns(h) \/ HostHealthy(h)
  \/ HostFails(h)

Conclude ==
  \/ LoopFails \/ LoopEnds \/ Restart \/ StopByAdmin \/ Update \/ AdminFails
  \/ Healthy \/ Converged \/ WaitFails

Machine(h) ==
  \/ GoDown(h) \/ Boot(h) \/ ServerUp(h) \/ Reexec(h) \/ ServerFails(h) \/ Revive(h)

Next ==
  \/ Begin \/ Abandon \/ Conclude \/ Crash \/ Refresh
  \/ \E h \in Hosts : HostStep(h) \/ Machine(h)

Spec == Init /\ [][Next]_vars

(* Fairness: remote commands, admin calls and waits have deadlines, so the  *)
(* executor goes on.  Nothing is assumed of hosts and servers.              *)
FairSpec ==
  /\ Spec
  /\ \A h \in Hosts : WF_vars(HostStep(h))
  /\ WF_vars(Conclude)

-----------------------------------------------------------------------------
(* Properties.                                                              *)

TypeOK ==
  /\ power \in [Hosts -> {"on", "reboot", "halt", "down", "off"}]
  /\ pkg \in [Hosts -> 0 .. MaxVersion] /\ disk \in [Hosts -> 0 .. MaxVersion]
  /\ live \in [Hosts -> 0 .. MaxVersion]
  /\ files \in [Hosts -> SUBSET (Config \cup {"data"})]
  /\ wanted \subseteq Hosts /\ enabled \subseteq Hosts
  /\ job \in [Hosts -> {"none", "start", "reexec"}]
  /\ \A h \in Hosts : live[h] # 0 => Up(h) /\ job[h] # "start"
  /\ row \in Releases
  /\ op \in Requests \cup {[kind |-> "none", targets |-> {}, goal |-> 0, checked |-> FALSE]}
  /\ stage \in {"idle", "hosts", "admin", "healthy", "converge"}
  /\ at \in [Hosts -> Over \cup {"wait", "ssh", "clean", "half", "ready", "stopped", "installed"}]
  /\ base \subseteq Hosts /\ victims \subseteq Hosts
  /\ result \in {"none", "succeeded", "failed", "bootstrap", "lost"}
  /\ ops \in 0 .. MaxOps

\* catalog.tsx: "One node at a time, health-wait between."  A rolling restart
\* never takes down a second server that was running, also when one does not
\* come back, a command fails half way, or bm ends; servers that fail by
\* themselves are not its doing (rollingRestartExecutor).
OneAtATime ==
  op.kind = "rolling" => Cardinality({h \in base \ victims : live[h] = 0}) <= 1

\* After an upgrade to a release that reports success every server that runs
\* has that release, and none starts with an older one: the admin API's
\* restart being asynchronous, hosts that were skipped, and servers that
\* restarted in between do not make it succeed early.
UpgradeIsUniform ==
  stage = "idle" /\ result = "succeeded" /\ op.checked =>
    \A h \in Hosts : disk[h] >= op.goal /\ (live[h] # 0 => live[h] >= op.goal)

\* The env file without the rest: what a bootstrap that failed half way, or a
\* failed probe, leaves behind.
HalfProvisioned(g) == "env" \in files[g] /\ "extras" \notin files[g]

\* A host reported as provisioned has all of the configuration and only the
\* release of the cluster row, whatever an earlier attempt left on it
\* (redeployExecutor; bootstrapBuckitConfigFromPeer takes an env file that is
\* there as a sign that nothing is missing), unless a probe of the peer failed
\* or the cluster has another host that is half provisioned: that one passes
\* for a source (pickConfigSourcePeer looks for the env file only).
ProvisionedIsWhole ==
  stage = "idle" /\ result = "succeeded" /\ op.kind = "redeploy" =>
    \A h \in op.targets :
      /\ \/ Config \subseteq files[h]
         \/ h \in victims
         \/ \E g \in Hosts \ {h} : HalfProvisioned(g)
      /\ disk[h] = op.goal /\ live[h] \in {0, op.goal}

\* After stop_cluster_by_systemctl succeeded no unit brings a server up again
\* unless its host rebooted since: neither systemd's Restart= policy nor a
\* start or restart asked for before.
StopSticks ==
  stage = "idle" /\ result = "succeeded" /\ op.kind = "stop" =>
    \A h \in Hosts : HasUnit(h) /\ h \notin victims => live[h] = 0 /\ job[h] = "none"

\* Every operation ends, whatever fails.
OperationEnds == stage # "idle" ~> stage = "idle"

\* orchestrated.go: a failing bootstrap "leaves the target untouched ... so the
\* operator can fix the situation and retry cleanly": the target still passes
\* the check for a clean host.
RetryIsClean ==
  result = "bootstrap" => \A h \in op.targets : files[h] = {}
=============================================================================
