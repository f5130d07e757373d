--------------------------- MODULE MigrationProofs ---------------------------
(* Theorems about Migration, for any set of hosts and any number of         *)
(* operations.                                                              *)
EXTENDS Migration, TLAPS

Clean(h) == active[h] # "buckit" /\ "buckit" \notin boot[h]

(* Which operation a stage belongs to.                                      *)
StageOfOp ==
  /\ stage \in {"prestage", "switch", "verify", "flip"} => op = "cutover"
  /\ stage \in {"probe", "revert"} => op = "rollback"

(* A host that runs MinIO starts it at boot, and the package is on every    *)
(* target from the end of phase 1 until the targets run Buckit.             *)
MinioIsKept ==
  /\ \A h \in Hosts : active[h] = "minio" => "minio" \in boot[h]
  /\ stage = "prestage" => \A h \in targets : at[h] = "ok" => h \in staged
  /\ stage = "switch" =>
       targets \subseteq staged /\ \A h \in targets : at[h] = "half" => active[h] # "minio"

(* What a host has after its part of a phase, and every target after all of *)
(* it; reboots in between take nothing of it away.                          *)
Progress ==
  \A h \in targets :
    /\ stage = "switch" /\ at[h] = "ok" => Serves(h, "buckit")
    /\ stage \in {"verify", "flip"} => Serves(h, "buckit")
    /\ stage = "stop" /\ at[h] \in {"half", "ok"} => Clean(h)
    /\ stage = "start" /\ (op = "rollback" \/ ~stopErr) =>
         /\ Clean(h)
         /\ at[h] \in {"half", "ok"} => Serves(h, "minio")
    /\ stage = "revert" => Serves(h, "minio")

(* A report of an engine is made when the whole operation got there, and is *)
(* taken back by the next operation.                                        *)
Reported ==
  \A h \in Hosts :
    /\ report[h] = "migrated" => stage \in {"flip", "idle"} /\ Serves(h, "buckit")
    /\ report[h] = "restored" => stage \in {"revert", "idle"} /\ Serves(h, "minio")
    /\ report[h] = "reverted" => stage = "idle" /\ (result = "partial" \/ Serves(h, "minio"))

IInv == TypeOK /\ StageOfOp /\ MinioIsKept /\ Progress /\ Reported /\ AllOrNothing

-----------------------------------------------------------------------------
(* Types. *)

LEMMA InitInvariant == Init => IInv
<1> SUFFICES ASSUME Init PROVE IInv
  OBVIOUS
<1>1. TypeOK
  <2>1. {"minio"} \in SUBSET Engines /\ "minio" \in Engines
    BY DEF Engines
  <2>2. active \in [Hosts -> Engines \cup {"none"}] /\ boot \in [Hosts -> SUBSET Engines]
    BY <2>1 DEF Init
  <2>3. /\ at \in [Hosts -> {"todo", "half", "ok", "failed"}]
        /\ report \in [Hosts -> Reports]
    BY DEF Init, Reports
  <2>4. ops \in 0 .. MaxOps
    BY MigrationAssumption DEF Init
  <2> QED BY <2>1, <2>2, <2>3, <2>4 DEF Init, TypeOK, Results
<1>2. StageOfOp /\ MinioIsKept
  BY DEF Init, StageOfOp, MinioIsKept
<1>3. Progress /\ Reported /\ AllOrNothing
  BY DEF Init, Progress, Reported, AllOrNothing
<1> QED BY <1>1, <1>2, <1>3 DEF IInv

(* What a failed command leaves has the type of a host.                     *)
LEMMA RemainsType ==
  ASSUME TypeOK, NEW h \in Hosts, NEW r \in Remains(h)
  PROVE  r[1] \in Engines \cup {"none"} /\ r[2] \in SUBSET Engines
<1> USE DEF TypeOK, Engines
<1>1. /\ active[h] \in Engines \cup {"none"} /\ boot[h] \in SUBSET Engines
      /\ Stopped(h, "minio") \in Engines \cup {"none"}
      /\ Stopped(h, "buckit") \in Engines \cup {"none"}
      /\ MinioStarted(h) \in Engines \cup {"none"}
  BY DEF Stopped, MinioStarted
<1>2. CASE stage = "switch" /\ at[h] = "todo"
  BY <1>1, <1>2 DEF Remains
<1>3. CASE stage = "switch" /\ at[h] = "half"
  BY <1>1, <1>3 DEF Remains, SwapRemains
<1>4. CASE stage = "stop" /\ at[h] = "todo"
  BY <1>1, <1>4 DEF Remains, StopRemains
<1>5. CASE stage = "start" /\ at[h] = "todo"
  BY <1>1, <1>5 DEF Remains, StartRemains
<1>6. CASE ~ \/ stage = "switch" /\ at[h] \in {"todo", "half"}
             \/ stage = "stop" /\ at[h] = "todo"
             \/ stage = "start" /\ at[h] = "todo"
  BY <1>1, <1>6 DEF Remains
<1> QED BY <1>2, <1>3, <1>4, <1>5, <1>6

LEMMA TypeStep == TypeOK /\ [Next]_vars => TypeOK'
<1> SUFFICES ASSUME TypeOK, [Next]_vars PROVE TypeOK'
  OBVIOUS
<1> USE DEF TypeOK, Engines, Reports, Results, FanOut, End, Mark, hostVars, opVars
<1>1. ASSUME NEW S \in SUBSET Hosts, BeginCutover(S) PROVE TypeOK'
  BY <1>1, MigrationAssumption DEF BeginCutover, Accept, Online
<1>2. ASSUME NEW S \in SUBSET Hosts, BeginRollback(S) PROVE TypeOK'
  BY <1>2, MigrationAssumption DEF BeginRollback, Accept
<1>3. ASSUME NEW S \in SUBSET Hosts, Refuse(S) PROVE TypeOK'
  BY <1>3, MigrationAssumption DEF Refuse, Accept
<1>4. ASSUME NEW h \in Hosts, HostFails(h) PROVE TypeOK'
  BY <1>4, RemainsType DEF HostFails
<1>5. ASSUME NEW h \in Hosts, HostStep(h), ~HostFails(h) PROVE TypeOK'
  BY <1>5 DEF HostStep, Moves, PreStage, SwitchStop, SwitchSwap, StopBuckit, Uninstall,
              StartMinio, Healthy, ProbeActive, ProbeInactive, Stopped
<1>6. ASSUME NEW h \in Hosts, Reboot(h) PROVE TypeOK'
  BY <1>6 DEF Reboot
<1>7. ASSUME Conclude PROVE TypeOK'
  BY <1>7, ZenonT(60) DEF Conclude, PreStageFailed, PreStaged, SwitchFailed, Switched, Verified,
              VerifyFailed, Flip, FlipFailed, StopJoined, StartFailed, Reverted,
              ProbesDone, ProbeCanceled, Restored, Revert, RevertFailed
<1>8. ASSUME Crash PROVE TypeOK'
  BY <1>8 DEF Crash
<1>9. ASSUME UNCHANGED vars PROVE TypeOK'
  BY <1>9 DEF vars
<1> QED BY <1>1, <1>2, <1>3, <1>4, <1>5, <1>6, <1>7, <1>8, <1>9 DEF Next

-----------------------------------------------------------------------------
(* The parts of the invariant. *)

LEMMA StageStep == TypeOK /\ StageOfOp /\ [Next]_vars => StageOfOp'
<1> SUFFICES ASSUME TypeOK, StageOfOp, [Next]_vars PROVE StageOfOp'
  OBVIOUS
<1> USE DEF StageOfOp, FanOut, End, opVars
<1>1. ASSUME NEW S \in SUBSET Hosts, BeginCutover(S) \/ BeginRollback(S) \/ Refuse(S)
      PROVE  StageOfOp'
  BY <1>1 DEF BeginCutover, BeginRollback, Refuse, Accept
<1>2. ASSUME NEW h \in Hosts, HostStep(h) \/ Reboot(h) PROVE StageOfOp'
  BY <1>2 DEF HostStep, Moves, PreStage, SwitchStop, SwitchSwap, StopBuckit, Uninstall,
              StartMinio, Healthy, HostFails, ProbeActive, ProbeInactive, Reboot
<1>3. ASSUME Conclude PROVE StageOfOp'
  BY <1>3 DEF Conclude, PreStageFailed, PreStaged, SwitchFailed, Switched, Verified,
              VerifyFailed, Flip, FlipFailed, StopJoined, StartFailed, Reverted,
              ProbesDone, ProbeCanceled, Restored, Revert, RevertFailed
<1>4. ASSUME Crash \/ UNCHANGED vars PROVE StageOfOp'
  BY <1>4 DEF Crash, vars
<1> QED BY <1>1, <1>2, <1>3, <1>4 DEF Next

LEMMA MinioStep == TypeOK /\ MinioIsKept /\ [Next]_vars => MinioIsKept'
<1> SUFFICES ASSUME TypeOK, MinioIsKept, [Next]_vars PROVE MinioIsKept'
  OBVIOUS
<1> USE DEF MinioIsKept, TypeOK, FanOut, End, opVars, hostVars
<1>1. ASSUME NEW S \in SUBSET Hosts, BeginCutover(S) \/ BeginRollback(S) \/ Refuse(S)
      PROVE  MinioIsKept'
  <2>1. targets' \subseteq Hosts
    BY <1>1 DEF BeginCutover, BeginRollback, Refuse, Online
  <2>2. UNCHANGED <<active, boot, staged>>
    BY <1>1 DEF BeginCutover, BeginRollback, Refuse, Accept
  <2>3. stage' # "switch" /\ \A h \in Hosts : at'[h] = "todo"
    BY <1>1 DEF BeginCutover, BeginRollback, Refuse
  <2> QED BY <2>1, <2>2, <2>3
<1>2. ASSUME NEW h \in Hosts, HostFails(h) PROVE MinioIsKept'
  <2>1. PICK r \in Remains(h) : /\ active' = [active EXCEPT ![h] = r[1]]
                                /\ boot' = [boot EXCEPT ![h] = r[2]]
    BY <1>2 DEF HostFails
  <2>2. r[1] = "minio" => "minio" \in r[2]
    BY <1>2 DEF HostFails, Remains, SwapRemains, StopRemains, StartRemains, Stopped, MinioStarted
  <2> QED BY <1>2, <2>1, <2>2 DEF HostFails
<1>3. ASSUME NEW h \in Hosts, HostStep(h), ~HostFails(h) PROVE MinioIsKept'
  BY <1>3 DEF HostStep, Moves, PreStage, SwitchStop, SwitchSwap, StopBuckit, Uninstall,
              StartMinio, Healthy, ProbeActive, ProbeInactive, Stopped
<1>4. ASSUME NEW h \in Hosts, Reboot(h) PROVE MinioIsKept'
  BY <1>4 DEF Reboot
<1>5. ASSUME Conclude PROVE MinioIsKept'
  <2>1. ASSUME PreStaged PROVE MinioIsKept'
    BY <2>1 DEF PreStaged, Joined, NoneFailed
  <2> QED BY <1>5, <2>1
      DEF Conclude, PreStageFailed, SwitchFailed, Switched, Verified, VerifyFailed, Flip,
          FlipFailed, StopJoined, StartFailed, Reverted, ProbesDone, ProbeCanceled,
          Restored, Revert, RevertFailed
<1>6. ASSUME Crash \/ UNCHANGED vars PROVE MinioIsKept'
  BY <1>6 DEF Crash, vars
<1> QED BY <1>1, <1>2, <1>3, <1>4, <1>5, <1>6 DEF Next

\* A reboot keeps what a host serves, and cannot bring back what is disabled.
LEMMA RebootKeeps ==
  ASSUME TypeOK, NEW g \in Hosts, Reboot(g), NEW h \in Hosts
  PROVE  /\ \A e \in Engines : Serves(h, e) => Serves(h, e)'
         /\ Clean(h) => Clean(h)'
  BY DEF TypeOK, Reboot, Serves, Clean, Engines

LEMMA ProgressStep == TypeOK /\ StageOfOp /\ Progress /\ [Next]_vars => Progress'
<1> SUFFICES ASSUME TypeOK, StageOfOp, Progress, [Next]_vars PROVE Progress'
  OBVIOUS
<1> USE DEF Progress, TypeOK, FanOut, End, opVars, hostVars
<1>1. ASSUME NEW S \in SUBSET Hosts, BeginCutover(S) \/ BeginRollback(S) \/ Refuse(S)
      PROVE  Progress'
  BY <1>1 DEF BeginCutover, BeginRollback, Refuse, Accept
<1>2. ASSUME NEW h \in Hosts, HostFails(h) PROVE Progress'
  <2>1. PICK r \in Remains(h) : /\ active' = [active EXCEPT ![h] = r[1]]
                                /\ boot' = [boot EXCEPT ![h] = r[2]]
    BY <1>2 DEF HostFails
  <2>2. ASSUME stage = "start", op = "rollback" \/ ~stopErr
        PROVE  r[1] # "buckit" /\ "buckit" \notin r[2]
    BY <1>2, <2>2 DEF HostFails, Clean, Remains, StartRemains, Stopped, MinioStarted
  <2> QED BY <1>2, <2>1, <2>2 DEF HostFails, Clean, Serves
<1>3. ASSUME NEW h \in Hosts, HostStep(h), ~HostFails(h) PROVE Progress'
  <2>1. CASE StartMinio(h)
    BY <2>1 DEF StartMinio, Moves, Clean, Serves, Engines
  <2> QED BY <1>3, <2>1
      DEF HostStep, Moves, PreStage, SwitchStop, SwitchSwap, StopBuckit, Uninstall, Healthy,
          ProbeActive, ProbeInactive, Stopped, Clean, Serves
<1>4. ASSUME NEW g \in Hosts, Reboot(g) PROVE Progress'
  BY <1>4, RebootKeeps DEF Reboot, Engines
<1>5. ASSUME Conclude PROVE Progress'
  <2>1. ASSUME Switched \/ StopJoined \/ Restored PROVE Progress'
    BY <2>1 DEF Switched, StopJoined, Restored, Joined, NoneFailed, Clean, Serves
  <2> QED BY <1>5, <2>1
      DEF Conclude, PreStageFailed, PreStaged, SwitchFailed, Verified, VerifyFailed, Flip,
          FlipFailed, StartFailed, Reverted, ProbesDone, ProbeCanceled, Revert,
          RevertFailed, Serves, Clean
<1>6. ASSUME Crash \/ UNCHANGED vars PROVE Progress'
  BY <1>6 DEF Crash, vars, Serves, Clean
<1> QED BY <1>1, <1>2, <1>3, <1>4, <1>5, <1>6 DEF Next

LEMMA ReportedStep ==
  TypeOK /\ StageOfOp /\ Progress /\ Reported /\ [Next]_vars => Reported'
<1> SUFFICES ASSUME TypeOK, StageOfOp, Progress, Reported, [Next]_vars PROVE Reported'
  OBVIOUS
<1> USE DEF Reported, TypeOK, FanOut, End, opVars, hostVars, Mark
<1>1. ASSUME NEW S \in SUBSET Hosts, BeginCutover(S) \/ BeginRollback(S) \/ Refuse(S)
      PROVE  Reported'
  BY <1>1 DEF BeginCutover, BeginRollback, Refuse, Accept
<1>2. ASSUME NEW h \in Hosts, HostStep(h) PROVE Reported'
  BY <1>2 DEF HostStep, Moves, PreStage, SwitchStop, SwitchSwap, StopBuckit, Uninstall,
              StartMinio, Healthy, HostFails, ProbeActive, ProbeInactive
<1>3. ASSUME NEW g \in Hosts, Reboot(g) PROVE Reported'
  BY <1>3, RebootKeeps DEF Reboot, Engines
<1>4. ASSUME Conclude PROVE Reported'
  <2>1. ASSUME Verified PROVE Reported'
    BY <2>1 DEF Verified, Progress, Serves
  <2>2. ASSUME Restored PROVE Reported'
    BY <2>2 DEF Restored, Joined, NoneFailed, Progress, Serves
  <2>3. ASSUME Reverted PROVE Reported'
    BY <2>3 DEF Reverted, Joined, NoneFailed, Progress, Serves
  <2> QED BY <1>4, <2>1, <2>2, <2>3
      DEF Conclude, PreStageFailed, PreStaged, SwitchFailed, Switched, VerifyFailed, Flip,
          FlipFailed, StopJoined, StartFailed, ProbesDone, ProbeCanceled, Revert,
          RevertFailed, Serves
<1>5. ASSUME Crash \/ UNCHANGED vars PROVE Reported'
  BY <1>5 DEF Crash, vars, Serves
<1> QED BY <1>1, <1>2, <1>3, <1>4, <1>5 DEF Next

LEMMA AllOrNothingStep ==
  TypeOK /\ StageOfOp /\ Progress /\ AllOrNothing /\ [Next]_vars => AllOrNothing'
<1> SUFFICES ASSUME TypeOK, StageOfOp, Progress, AllOrNothing, [Next]_vars
             PROVE  AllOrNothing'
  OBVIOUS
<1> USE DEF AllOrNothing, TypeOK, FanOut, End, opVars, hostVars
<1>1. ASSUME NEW S \in SUBSET Hosts, BeginCutover(S) \/ BeginRollback(S) \/ Refuse(S)
      PROVE  AllOrNothing'
  BY <1>1 DEF BeginCutover, BeginRollback, Refuse, Accept
<1>2. ASSUME NEW h \in Hosts, HostStep(h) PROVE AllOrNothing'
  BY <1>2 DEF HostStep, Moves, PreStage, SwitchStop, SwitchSwap, StopBuckit, Uninstall,
              StartMinio, Healthy, HostFails, ProbeActive, ProbeInactive
<1>3. ASSUME NEW g \in Hosts, Reboot(g) PROVE AllOrNothing'
  BY <1>3, RebootKeeps DEF Reboot
<1>4. ASSUME Conclude PROVE AllOrNothing'
  <2>1. ASSUME FlipFailed PROVE AllOrNothing'
    BY <2>1 DEF FlipFailed, Progress, Serves, Engines
  <2>2. ASSUME Reverted PROVE AllOrNothing'
    BY <2>2 DEF Reverted, Joined, NoneFailed, Progress, Serves, Engines
  <2> QED BY <1>4, <2>1, <2>2
      DEF Conclude, PreStageFailed, PreStaged, SwitchFailed, Switched, Verified, VerifyFailed,
          Flip, StopJoined, StartFailed, ProbesDone, ProbeCanceled, Restored, Revert,
          RevertFailed, StageOfOp, Serves
<1>5. ASSUME Crash \/ UNCHANGED vars PROVE AllOrNothing'
  BY <1>5 DEF Crash, vars, Serves
<1> QED BY <1>1, <1>2, <1>3, <1>4, <1>5 DEF Next

-----------------------------------------------------------------------------
(* The inductive invariant: which engine each target runs and starts at     *)
(* boot in every stage (executor.go and rollback.go, Execute).              *)
THEOREM Invariance == Spec => []IInv
<1>1. IInv /\ [Next]_vars => IInv'
  BY TypeStep, StageStep, MinioStep, ProgressStep, ReportedStep, AllOrNothingStep DEF IInv
<1> QED BY InitInvariant, <1>1, PTL DEF Spec

(* Type correctness. *)
THEOREM TypeCorrect == Spec => []TypeOK
<1>1. IInv => TypeOK
  BY DEF IInv
<1> QED BY <1>1, Invariance, PTL

(* A cutover that fails and asks for no help leaves all attempted hosts on  *)
(* one engine (executor.go, Execute and autoRollback).                      *)
THEOREM Atomicity == Spec => []AllOrNothing
<1>1. IInv => AllOrNothing
  BY DEF IInv
<1> QED BY <1>1, Invariance, PTL

(* A host reported as migrated or rolled back serves with that engine, and  *)
(* does after a reboot (executor.go and rollback.go, the emitters).         *)
THEOREM TrueReports == Spec => []ReportsAreReal
<1>1. IInv => ReportsAreReal
  BY DEF IInv, Reported, ReportsAreReal
<1> QED BY <1>1, Invariance, PTL

(* A rollback starts MinIO on no host before every target has stopped and   *)
(* disabled Buckit (rollback.go, Execute).                                  *)
THEOREM StopOrder == Spec => []StopsBeforeStarts
<1>1. IInv => StopsBeforeStarts
  BY DEF IInv, Progress, Clean, StopsBeforeStarts
<1> QED BY <1>1, Invariance, PTL

(* The cluster row changes engine only when every target runs it and will   *)
(* after a reboot (commitEngineFlip, commitEngineRevert).                   *)
THEOREM RowIsTrue == Spec => RowFollowsHosts
<1>1. IInv /\ [Next]_vars => [engine' # engine => \A h \in targets : Serves(h, engine')]_vars
  <2> SUFFICES ASSUME IInv, Next, engine' # engine
               PROVE  \A h \in targets : Serves(h, engine')
    BY DEF vars
  <2> USE DEF IInv, opVars, hostVars
  <2>1. ASSUME Flip PROVE \A h \in targets : Serves(h, engine')
    BY <2>1 DEF Flip, Progress
  <2>2. ASSUME Revert PROVE \A h \in targets : Serves(h, engine')
    BY <2>2 DEF Revert, Progress
  <2>3. Flip \/ Revert
    BY DEF Next, Conclude, Crash, Reboot, BeginCutover, BeginRollback, Refuse, Accept, HostStep,
           Moves, PreStage, SwitchStop, SwitchSwap, StopBuckit, Uninstall, StartMinio, Healthy,
           HostFails, ProbeActive, ProbeInactive, PreStageFailed, PreStaged, SwitchFailed,
           Switched, Verified, VerifyFailed, FlipFailed, StopJoined, StartFailed, Reverted,
           ProbesDone, ProbeCanceled, Restored, RevertFailed
  <2> QED BY <2>1, <2>2, <2>3
<1> QED BY <1>1, Invariance, PTL DEF Spec, RowFollowsHosts

(* No MinIO goes down before every attempted host has the new package       *)
(* (executor.go, Execute, phase 1).                                         *)
THEOREM NoDowntime == Spec => NoEarlyDowntime
<1> DEFINE Down == \E h \in Hosts : active[h] = "minio" /\ active'[h] = "none"
<1>1. IInv /\ [Next]_vars => [Down => stage = "start" \/ targets \subseteq staged]_vars
  <2> SUFFICES ASSUME IInv, Next, NEW h \in Hosts, active[h] = "minio", active'[h] = "none",
                      stage # "start"
               PROVE  targets \subseteq staged
    BY DEF vars
  <2>2. ASSUME NEW g \in Hosts, Reboot(g) PROVE FALSE
    BY <2>2 DEF Reboot, IInv, TypeOK, MinioIsKept, Engines
  <2>3. ASSUME NEW g \in Hosts, HostStep(g), stage # "switch" PROVE FALSE
    BY <2>3 DEF IInv, TypeOK, HostStep, PreStage, SwitchStop, SwitchSwap, StopBuckit, Uninstall,
                StartMinio, Healthy, HostFails, ProbeActive, ProbeInactive, hostVars, Stopped,
                Remains, StopRemains
  <2>4. ASSUME Conclude \/ Crash PROVE FALSE
    BY <2>4 DEF Conclude, Crash, PreStageFailed, PreStaged, SwitchFailed, Switched, Verified,
                VerifyFailed, Flip, FlipFailed, StopJoined, StartFailed, Reverted, ProbesDone,
                ProbeCanceled, Restored, Revert, RevertFailed, hostVars
  <2>5. ASSUME NEW S \in SUBSET Hosts, BeginCutover(S) \/ BeginRollback(S) \/ Refuse(S)
        PROVE  FALSE
    BY <2>5 DEF BeginCutover, BeginRollback, Refuse, Accept, hostVars
  <2>6. stage = "switch"
    BY <2>2, <2>3, <2>4, <2>5 DEF Next
  <2> QED BY <2>6 DEF IInv, MinioIsKept
<1> QED BY <1>1, Invariance, PTL DEF Spec, NoEarlyDowntime
=============================================================================
