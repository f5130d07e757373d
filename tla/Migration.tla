------------------------------ MODULE Migration ------------------------------
(***************************************************************************)
(* Moving a cluster from MinIO to Buckit and back (internal/migration):    *)
(* CutoverExecutor with its automatic rollback, RollbackExecutor, and the  *)
(* Installer phases they fan out over the hosts by SSH.                    *)
(*                                                                         *)
(* The task manager runs one operation per cluster at a time; this module  *)
(* is one cluster and a sequence of operations on it.  A host is the unit  *)
(* that is active on it and the units systemd starts at boot.  A phase     *)
(* runs on all targets in parallel; a host goes through it in the remote   *)
(* commands that change something.  Any SSH step may fail: for reasons of  *)
(* its own, because the first failure cancels the group, or because the    *)
(* operator cancels the run.  A command that failed may have worked in     *)
(* part.  `|| true` is taken to hide only failures with nothing to do, and *)
(* a command to end with its session.                                      *)
(***************************************************************************)
EXTENDS Integers

CONSTANTS
  Hosts,   \* nodes of the cluster
  MaxOps   \* bound: operations run on the cluster

ASSUME MigrationAssumption == MaxOps \in Nat

Engines == {"minio", "buckit"}

VARIABLES
  active,   \* active[h]: the server that runs on h, or "none"
  boot,     \* boot[h]: the enabled units
  staged,   \* hosts with the Buckit package and its drop-in
  engine,   \* Engine of the cluster row
  op,       \* kind of the current or last operation
  stage,    \* what the executor is doing, or "idle"
  asked,    \* params.Hosts
  targets,  \* attempted hosts of a cutover, targets of a rollback
  at,       \* at[h]: h's progress in the phase
  stopErr,  \* autoRollback's StopBuckit phase had an error
  report,   \* report[h]: h's HostOpStatus, see Reports
  result,   \* how the last operation ended
  ops       \* operations begun

hostVars == <<active, boot, staged>>
opVars == <<op, asked, ops>>
vars == <<hostVars, engine, opVars, stage, targets, at, stopErr, report, result>>

\* "migrated", "restored" and "already" are HostSucceeded with that detail,
\* "reverted" is HostFailed with the detail "Rolled back to MinIO".
Reports == {"none", "pending", "running", "failed", "skipped",
            "migrated", "restored", "already", "reverted"}

\* "aborted": nothing was changed; "partial": rolled back after errors while
\* stopping; "manual": the note asks for manual intervention; "lost": bm ended.
Results == {"none", "succeeded", "failed", "aborted", "partial", "manual", "lost"}

Serves(h, e) == active[h] = e /\ boot[h] = {e}

-----------------------------------------------------------------------------
(* Phases.                                                                  *)

\* Mutant: the group does not wait for the hosts still at work.
M_Joined == \E h \in targets : at[h] \in {"ok", "failed"}

\* g.Wait returned.
Joined == \A h \in targets : at[h] \in {"ok", "failed"}
NoneFailed == \A h \in targets : at[h] # "failed"

\* fanOut over all targets.
FanOut(s) == stage' = s /\ at' = [h \in Hosts |-> "todo"]

End(r) ==
  /\ stage' = "idle" /\ result' = r
  /\ at' = [h \in Hosts |-> "todo"] /\ stopErr' = FALSE

Mark(S, r) == [h \in Hosts |-> IF h \in S THEN r ELSE report[h]]

\* A host's command went well: the emitter shows a running host.
Moves(h, from, to) ==
  /\ h \in targets /\ at[h] = from
  /\ at' = [at EXCEPT ![h] = to]
  /\ report' = Mark({h}, "running")
  /\ UNCHANGED <<engine, opVars, stage, targets, stopErr, result>>

Stopped(h, e) == IF active[h] = e THEN "none" ELSE active[h]

\* How the unit swap may end when it fails: before or after minio is disabled,
\* buckit enabled, buckit started; after a timeout buckit is stopped again
\* (runTimedServiceStart).
SwapRemains(h) ==
  {<<"buckit", {"buckit"}>>} \cup
  {active[h], Stopped(h, "buckit")} \X {boot[h], boot[h] \ {"minio"}, {"buckit"}}

StopRemains(h) ==
  {<<active[h], boot[h]>>, <<active[h], boot[h] \ {"buckit"}>>,
   <<Stopped(h, "buckit"), boot[h] \ {"buckit"}>>}

\* minio does not start where buckit holds the port.
MinioStarted(h) == IF active[h] = "buckit" THEN "buckit" ELSE "minio"

\* As SwapRemains: a start that timed out is followed by a stop.
StartRemains(h) ==
  {<<MinioStarted(h), boot[h] \cup {"minio"}>>} \cup
  {active[h], Stopped(h, "minio")} \X {boot[h], boot[h] \cup {"minio"}}

Remains(h) ==
  CASE stage = "switch" /\ at[h] = "todo" ->
         {<<active[h], boot[h]>>, <<Stopped(h, "minio"), boot[h]>>}
    [] stage = "switch" /\ at[h] = "half" -> SwapRemains(h)
    [] stage = "stop" /\ at[h] = "todo" -> StopRemains(h)
    [] stage = "start" /\ at[h] = "todo" -> StartRemains(h)
    [] OTHER -> {<<active[h], boot[h]>>}

\* A host's phase function returns an error.  PreStage and Switch say nothing
\* when they find the context already canceled.
HostFails(h) ==
  /\ stage \in {"prestage", "switch", "stop", "start"}
  /\ h \in targets /\ at[h] \in {"todo", "half"}
  /\ at' = [at EXCEPT ![h] = "failed"]
  /\ \E r \in Remains(h) :
       active' = [active EXCEPT ![h] = r[1]] /\ boot' = [boot EXCEPT ![h] = r[2]]
  /\ staged' \in {staged} \cup IF stage = "prestage" THEN {staged \cup {h}}
                            ELSE IF stage = "stop" /\ at[h] = "half" THEN {staged \ {h}}
                            ELSE {}
  /\ report' \in {Mark({h}, "failed")} \cup
       IF stage \in {"prestage", "switch"} /\ at[h] = "todo" THEN {report} ELSE {}
  /\ UNCHANGED <<engine, opVars, stage, targets, stopErr, result>>

\* PreStage: package and drop-in are installed, no unit changes.
PreStage(h) ==
  /\ stage = "prestage" /\ Moves(h, "todo", "ok")
  /\ staged' = staged \cup {h}
  /\ UNCHANGED <<active, boot>>

\* Switch: minio is stopped ...
SwitchStop(h) ==
  /\ stage = "switch" /\ Moves(h, "todo", "half")
  /\ active' = [active EXCEPT ![h] = Stopped(h, "minio")]
  /\ UNCHANGED <<boot, staged>>

\* Mutant: minio stays enabled.
M_SwitchSwap(h) ==
  /\ stage = "switch" /\ Moves(h, "half", "ok")
  /\ active' = [active EXCEPT ![h] = "buckit"]
  /\ boot' = [boot EXCEPT ![h] = @ \cup {"buckit"}]
  /\ UNCHANGED staged

\* ... and disabled, buckit enabled and started.
SwitchSwap(h) ==
  /\ stage = "switch" /\ Moves(h, "half", "ok")
  /\ active' = [active EXCEPT ![h] = "buckit"]
  /\ boot' = [boot EXCEPT ![h] = {"buckit"}]
  /\ UNCHANGED staged

\* StopBuckit: disable --now ...
StopBuckit(h) ==
  /\ stage = "stop" /\ Moves(h, "todo", "half")
  /\ active' = [active EXCEPT ![h] = Stopped(h, "buckit")]
  /\ boot' = [boot EXCEPT ![h] = @ \ {"buckit"}]
  /\ UNCHANGED staged

\* ... then the package and the drop-in are removed.
Uninstall(h) ==
  /\ stage = "stop" /\ Moves(h, "half", "ok")
  /\ staged' = staged \ {h}
  /\ UNCHANGED <<active, boot>>

\* Mutant: an error of enable --now is not returned.
M_StartMinio(h) ==
  /\ stage = "start" /\ Moves(h, "todo", "half")
  /\ \E r \in StartRemains(h) :
       active' = [active EXCEPT ![h] = r[1]] /\ boot' = [boot EXCEPT ![h] = r[2]]
  /\ UNCHANGED staged

\* StartMinio: enable --now ...
StartMinio(h) ==
  /\ stage = "start" /\ Moves(h, "todo", "half")
  /\ active[h] # "buckit"
  /\ active' = [active EXCEPT ![h] = "minio"]
  /\ boot' = [boot EXCEPT ![h] = @ \cup {"minio"}]
  /\ UNCHANGED staged

\* ... and waitHealthy.
Healthy(h) ==
  /\ stage = "start" /\ Moves(h, "half", "ok")
  /\ UNCHANGED hostVars

-----------------------------------------------------------------------------
Init ==
  /\ active = [h \in Hosts |-> "minio"]
  /\ boot = [h \in Hosts |-> {"minio"}]
  /\ staged = {}
  /\ engine = "minio"
  /\ op = "none" /\ stage = "idle"
  /\ asked = {} /\ targets = {}
  /\ at = [h \in Hosts |-> "todo"]
  /\ stopErr = FALSE
  /\ report = [h \in Hosts |-> "none"]
  /\ result = "none"
  /\ ops = 0

Accept(kind, S) ==
  /\ stage = "idle" /\ ops < MaxOps /\ S # {}
  /\ ops' = ops + 1 /\ op' = kind /\ asked' = S
  /\ UNCHANGED <<hostVars, engine, stopErr>>

\* Mutant: every host that is online, requested or not.
M_Online(S) == {h \in Hosts : active[h] # "none"}

\* ServerInfo lists a host that serves.
Online(S) == {h \in S : active[h] # "none"}

\* partitionHosts: those ServerInfo shows online, or all when it fails.
BeginCutover(S) ==
  /\ Accept("cutover", S)
  /\ targets' \in {S} \cup (SUBSET Online(S) \ {{}})
  /\ FanOut("prestage")
  /\ report' = [h \in Hosts |-> CASE h \in targets' -> "pending"
                                  [] h \in S \ targets' -> "skipped"
                                  [] OTHER -> "none"]
  /\ result' = "none"

BeginRollback(S) ==
  /\ Accept("rollback", S)
  /\ targets' = {}
  /\ FanOut("probe")
  /\ report' = [h \in Hosts |-> IF h \in S THEN "pending" ELSE "none"]
  /\ result' = "none"

\* No credentials, or no requested host online.
Refuse(S) ==
  /\ Accept("cutover", S)
  /\ targets' = {}
  /\ End("aborted")
  /\ report' = [h \in Hosts |-> "none"]

-----------------------------------------------------------------------------
(* CutoverExecutor.Execute.                                                 *)

\* failPreStage
PreStageFailed ==
  /\ stage = "prestage" /\ Joined /\ ~NoneFailed
  /\ End("aborted")
  /\ UNCHANGED <<hostVars, engine, opVars, targets, report>>

PreStaged ==
  /\ stage = "prestage" /\ Joined /\ NoneFailed
  /\ FanOut("switch")
  /\ UNCHANGED <<hostVars, engine, opVars, targets, stopErr, report, result>>

\* autoRollback
SwitchFailed ==
  /\ stage = "switch" /\ Joined /\ ~NoneFailed
  /\ FanOut("stop")
  /\ UNCHANGED <<hostVars, engine, opVars, targets, stopErr, report, result>>

Switched ==
  /\ stage = "switch" /\ Joined /\ NoneFailed
  /\ FanOut("verify")
  /\ UNCHANGED <<hostVars, engine, opVars, targets, stopErr, report, result>>

\* waitAttemptedOnline saw them all; they are marked before the flip.
Verified ==
  /\ stage = "verify"
  /\ \A h \in targets : active[h] # "none"
  /\ stage' = "flip"
  /\ report' = Mark(targets, "migrated")
  /\ UNCHANGED <<hostVars, engine, opVars, targets, at, stopErr, result>>

\* ClusterHealthyTimeout, or the run is canceled.
VerifyFailed ==
  /\ stage = "verify"
  /\ FanOut("stop")
  /\ UNCHANGED <<hostVars, engine, opVars, targets, stopErr, report, result>>

\* commitEngineFlip
Flip ==
  /\ stage = "flip"
  /\ engine' = "buckit"
  /\ End("succeeded")
  /\ UNCHANGED <<hostVars, opVars, targets, report>>

\* The row is gone, the store fails, the run is canceled: no rollback.
FlipFailed ==
  /\ stage = "flip"
  /\ End("failed")
  /\ UNCHANGED <<hostVars, engine, opVars, targets, report>>

\* Mutant: a failure to stop buckit is no reason to give up.
M_StopJoined ==
  /\ stage = "stop" /\ Joined
  /\ FanOut("start") /\ stopErr' = ~NoneFailed /\ UNCHANGED result
  /\ UNCHANGED <<hostVars, engine, opVars, targets, report>>

\* Only the automatic rollback goes on after an error.
StopJoined ==
  /\ stage = "stop" /\ Joined
  /\ IF NoneFailed \/ op = "cutover"
       THEN FanOut("start") /\ stopErr' = ~NoneFailed /\ UNCHANGED result
       ELSE End("failed")
  /\ UNCHANGED <<hostVars, engine, opVars, targets, report>>

\* Mutant: only the automatic rollback looks at the error.
M_StartFailed ==
  /\ stage = "start" /\ Joined /\ ~NoneFailed /\ op = "cutover"
  /\ End("manual")
  /\ UNCHANGED <<hostVars, engine, opVars, targets, report>>

StartFailed ==
  /\ stage = "start" /\ Joined /\ ~NoneFailed
  /\ End(IF op = "cutover" THEN "manual" ELSE "failed")
  /\ UNCHANGED <<hostVars, engine, opVars, targets, report>>

Reverted ==
  /\ stage = "start" /\ Joined /\ NoneFailed /\ op = "cutover"
  /\ End(IF stopErr THEN "partial" ELSE "failed")
  /\ report' = Mark(targets, "reverted")
  /\ UNCHANGED <<hostVars, engine, opVars, targets>>

-----------------------------------------------------------------------------
(* RollbackExecutor.Execute; it shares the phases "stop" and "start".       *)

\* A probe that fails counts as active.
ProbeActive(h) ==
  /\ stage = "probe" /\ h \in asked /\ at[h] = "todo"
  /\ at' = [at EXCEPT ![h] = "ok"]
  /\ targets' = targets \cup {h}
  /\ UNCHANGED <<hostVars, engine, opVars, stage, stopErr, report, result>>

\* `systemctl is-active buckit.service` says no.
ProbeInactive(h) ==
  /\ stage = "probe" /\ h \in asked /\ at[h] = "todo"
  /\ active[h] # "buckit"
  /\ at' = [at EXCEPT ![h] = "ok"]
  /\ report' = Mark({h}, "already")
  /\ UNCHANGED <<hostVars, engine, opVars, stage, targets, stopErr, result>>

\* With no target there is nothing to do, and the row is left alone.
ProbesDone ==
  /\ stage = "probe" /\ \A h \in asked : at[h] = "ok"
  /\ IF targets = {} THEN End("succeeded")
                     ELSE FanOut("stop") /\ UNCHANGED <<stopErr, result>>
  /\ UNCHANGED <<hostVars, engine, opVars, targets, report>>

ProbeCanceled ==
  /\ stage = "probe"
  /\ End("failed")
  /\ UNCHANGED <<hostVars, engine, opVars, targets, report>>

Restored ==
  /\ stage = "start" /\ Joined /\ NoneFailed /\ op = "rollback"
  /\ stage' = "revert"
  /\ report' = Mark(targets, "restored")
  /\ UNCHANGED <<hostVars, engine, opVars, targets, at, stopErr, result>>

\* commitEngineRevert
Revert ==
  /\ stage = "revert"
  /\ engine' = "minio"
  /\ End("succeeded")
  /\ UNCHANGED <<hostVars, opVars, targets, report>>

RevertFailed ==
  /\ stage = "revert"
  /\ End("failed")
  /\ UNCHANGED <<hostVars, engine, opVars, targets, report>>

-----------------------------------------------------------------------------
(* The environment.                                                         *)

\* A host reboots: systemd starts what is enabled, a command under way fails.
Reboot(h) ==
  /\ active' \in {[active EXCEPT ![h] = e] : e \in IF boot[h] = {} THEN {"none"} ELSE boot[h]}
  /\ at' = IF at[h] = "half" THEN [at EXCEPT ![h] = "failed"] ELSE at
  /\ UNCHANGED <<boot, staged, engine, opVars, stage, targets, stopErr, report, result>>

\* bm ends in the middle of an operation.
Crash ==
  /\ stage # "idle"
  /\ End("lost")
  /\ UNCHANGED <<hostVars, engine, opVars, targets, report>>

HostStep(h) ==
  \/ PreStage(h) \/ SwitchStop(h) \/ SwitchSwap(h)
  \/ StopBuckit(h) \/ Uninstall(h) \/ StartMinio(h) \/ Healthy(h)
  \/ HostFails(h) \/ ProbeActive(h) \/ ProbeInactive(h)

Conclude ==
  \/ PreStageFailed \/ PreStaged \/ SwitchFailed \/ Switched
  \/ Verified \/ VerifyFailed \/ Flip \/ FlipFailed
  \/ StopJoined \/ StartFailed \/ Reverted
  \/ ProbesDone \/ ProbeCanceled \/ Restored \/ Revert \/ RevertFailed

Next ==
  \/ \E S \in SUBSET Hosts : BeginCutover(S) \/ BeginRollback(S) \/ Refuse(S)
  \/ \E h \in Hosts : HostStep(h) \/ Reboot(h)
  \/ Conclude
  \/ Crash

Spec == Init /\ [][Next]_vars

(* Fairness: an SSH command and a health wait have deadlines, so every host *)
(* gets on with its phase and the executor with its phases.                 *)
FairSpec ==
  /\ Spec
  /\ \A h \in Hosts : WF_vars(HostStep(h))
  /\ WF_vars(Conclude)

-----------------------------------------------------------------------------
(* Properties.                                                              *)

TypeOK ==
  /\ active \in [Hosts -> Engines \cup {"none"}]
  /\ boot \in [Hosts -> SUBSET Engines]
  /\ staged \subseteq Hosts
  /\ engine \in Engines
  /\ op \in {"none", "cutover", "rollback"}
  /\ stage \in {"idle", "prestage", "switch", "verify", "flip", "stop", "start",
                "probe", "revert"}
  /\ asked \subseteq Hosts /\ targets \subseteq asked
  /\ at \in [Hosts -> {"todo", "half", "ok", "failed"}]
  /\ stopErr \in BOOLEAN
  /\ report \in [Hosts -> Reports]
  /\ result \in Results
  /\ ops \in 0 .. MaxOps

\* The cluster row changes engine only when every host the operation worked on
\* runs that engine and will after a reboot (commitEngineFlip is reached after
\* the switch and the verification of all, commitEngineRevert after StartMinio
\* on all), even when hosts reboot in between.
RowFollowsHosts ==
  [][engine' # engine => \A h \in targets : Serves(h, engine')]_vars

\* No MinIO goes down before every attempted host has the new package: a
\* pre-stage failure costs no downtime (executor.go, Execute, phase 1).  Only
\* a rollback whose start of MinIO timed out stops it too.
NoEarlyDowntime ==
  [][(\E h \in Hosts : active[h] = "minio" /\ active'[h] = "none") =>
       stage = "start" \/ targets \subseteq staged]_vars

\* A cutover that fails and does not ask for manual intervention leaves all
\* attempted hosts on one engine: all are back on MinIO, or all are on Buckit
\* and only the row was not written (executor.go, Execute and autoRollback).
AllOrNothing ==
  op = "cutover" /\ stage = "idle" /\ result = "failed" =>
    \E e \in Engines : \A h \in targets : Serves(h, e)

\* A host reported as migrated or rolled back serves with that engine, and
\* does after a reboot; a rollback with errors while stopping is excepted.
ReportsAreReal ==
  \A h \in Hosts :
    /\ report[h] = "migrated" => Serves(h, "buckit")
    /\ report[h] = "restored" => Serves(h, "minio")
    /\ report[h] = "reverted" /\ result # "partial" => Serves(h, "minio")

\* When a rollback starts MinIO, no target runs Buckit or will at the next
\* boot: MinIO refuses to join peers with another binary (installer.go,
\* StopBuckit/StartMinio).  The automatic rollback does not promise this.
StopsBeforeStarts ==
  op = "rollback" /\ stage = "start" =>
    \A h \in targets : active[h] # "buckit" /\ "buckit" \notin boot[h]

\* Every operation ends, whatever hosts fail or reboot.
OperationEnds == stage # "idle" ~> stage = "idle"

\* rollback.go skips a host without an active buckit as "already on MinIO":
\* after a rollback that succeeded, every requested host runs MinIO.
RollbackRestores ==
  op = "rollback" /\ stage = "idle" /\ result = "succeeded" =>
    \A h \in asked : active[h] = "minio"
=============================================================================
