------------------------ MODULE HostOperationsProofs ------------------------
(* Theorems about HostOperations, for any finite set of hosts, any releases *)
(* and any number of operations.                                            *)
EXTENDS HostOperations, FiniteSetTheorems, TLAPS

(* A start or restart is under way only where the host is up; a server that *)
(* restarts in place runs, and a server that runs has a binary.             *)
Machinery ==
  \A h \in Hosts :
    /\ job[h] # "none" => Up(h)
    /\ job[h] = "reexec" => live[h] # 0
    /\ live[h] # 0 => disk[h] # 0

(* Which operations are in which stage, and how far they may be on a host.  *)
Stages ==
  /\ stage = "hosts" => op.kind \in OneByOne \cup AtOnce
  /\ stage = "admin" => op.kind \in ViaAdmin \cup {"upgrade"}
  /\ stage = "healthy" => op.kind \in {"start", "upgrade", "restart", "update"}
  /\ stage = "converge" => op.kind \in {"upgrade", "update"}
  /\ stage = "idle" => at = [h \in Hosts |-> "todo"]
  /\ \A h \in Hosts : at[h] # "todo" => h \in op.targets
  /\ op.kind = "rolling" => \A h \in Hosts : at[h] \in {"todo", "wait", "done", "skip"}
  /\ op.kind = "stop" => \A h \in Hosts : at[h] \in {"todo", "done", "bad", "skip"}
  /\ op.kind = "redeploy" => \A h \in Hosts : at[h] \notin {"ssh", "bad", "skip"}
  /\ op.kind \in {"rolling", "stop", "upgrade", "update"} => op.targets = Hosts
  /\ op.kind = "redeploy" => Cardinality(op.targets) = 1

(* A rolling restart: the servers it took down.  While it goes on they are  *)
(* waited for.                                                              *)
TakenDown == {h \in base \ victims : live[h] = 0}

OneDown ==
  op.kind = "rolling" =>
    /\ \A g, h \in TakenDown : g = h
    /\ stage = "hosts" => \A h \in TakenDown : at[h] = "wait"
    /\ \A g, h \in Hosts : at[g] = "wait" /\ at[h] = "wait" => g = h

(* An upgrade replaces binaries by its release only, and at its start every *)
(* server was older: what runs the release, or a later one, was installed.  *)
NoDowngrade ==
  op.checked => \A h \in Hosts : live[h] >= op.goal => disk[h] >= op.goal

(* A stopped host stays so, but for a reboot.                               *)
Quiet(h) == Up(h) /\ live[h] = 0 /\ job[h] = "none" /\ h \notin wanted

StoppedStay ==
  op.kind = "stop" =>
    /\ \A h \in Hosts : at[h] = "done" => h \in victims \/ Quiet(h)
    /\ \A h \in Hosts : at[h] = "skip" => ~HasUnit(h)
    /\ stage = "idle" /\ result = "succeeded" =>
         \A h \in Hosts : HasUnit(h) => h \in victims \/ Quiet(h)

(* A redeployed host: what is known of it after each of its commands.       *)
Whole(h) ==
  \/ Config \subseteq files[h]
  \/ h \in victims
  \/ \E g \in Hosts \ {h} : HalfProvisioned(g)

Replacing(h) == disk[h] = op.goal /\ live[h] \in {0, op.goal}

Provisioning ==
  /\ \A h \in Hosts : files[h] = {} => h \notin enabled
  /\ op.kind = "redeploy" =>
       /\ \A h \in Hosts :
            /\ at[h] # "todo" => h \notin enabled
            /\ at[h] = "clean" => "env" \notin files[h]
            /\ at[h] = "half" => "env" \in files[h]
            /\ at[h] \in {"ready", "stopped", "installed", "wait", "done"} => Whole(h)
            /\ at[h] \in {"stopped", "installed"} =>
                 live[h] = 0 /\ job[h] = "none" /\ h \notin wanted
            /\ at[h] \in {"installed", "wait", "done"} => Replacing(h)
       /\ stage = "idle" /\ result = "succeeded" =>
            \A h \in op.targets : Whole(h) /\ Replacing(h)

IInv ==
  /\ TypeOK /\ Machinery /\ Stages
  /\ OneDown /\ NoDowngrade /\ UpgradeIsUniform /\ StoppedStay /\ Provisioning

-----------------------------------------------------------------------------
NoOp == [kind |-> "none", targets |-> {}, goal |-> 0, checked |-> FALSE]

LEMMA InitInvariant == Init => IInv
<1> SUFFICES ASSUME Init PROVE IInv
  OBVIOUS
<1> USE DEF Init
<1>0. 1 \in Releases /\ 0 \in 0 .. MaxVersion /\ 1 \in 0 .. MaxVersion /\ MaxOps \in Nat
  BY HostAssumption DEF Releases
<1>1. pkg \in [Hosts -> 0 .. MaxVersion] /\ disk \in [Hosts -> {0, 1}]
  BY <1>0
<1>2. files \in [Hosts -> SUBSET (Config \cup {"data"})]
  OBVIOUS
<1>3. TypeOK
  BY <1>0, <1>1, <1>2 DEF TypeOK, Up, Over
<1>4. Machinery /\ Stages /\ OneDown /\ NoDowngrade /\ UpgradeIsUniform /\ StoppedStay
  BY DEF Machinery, Stages, OneDown, TakenDown, NoDowngrade, UpgradeIsUniform, StoppedStay
<1>5. Provisioning
  <2>1. \A h \in Hosts : files[h] = {} => ~HasUnit(h)
    BY DEF Config
  <2> QED BY <2>1 DEF Provisioning
<1> QED BY <1>3, <1>4, <1>5 DEF IInv

\* What a request may ask for.
LEMMA Requested ==
  ASSUME TypeOK
  PROVE  /\ op.kind \in {"none"} \cup OneByOne \cup AtOnce \cup ViaAdmin
         /\ op.targets \subseteq Hosts /\ op.goal \in 0 .. MaxVersion /\ op.checked \in BOOLEAN
         /\ op.kind \in {"upgrade", "update", "redeploy"} => op.goal \in Releases
         /\ op.checked => op.kind \in {"upgrade", "update"}
<1>1. 0 \in 0 .. MaxVersion /\ Releases \subseteq 0 .. MaxVersion
  BY HostAssumption DEF Releases
<1>2. op \in Requests \/ op = NoOp
  BY DEF TypeOK, NoOp
<1>3. CASE op = NoOp
  BY <1>1, <1>3 DEF NoOp
<1>4. CASE op \in [kind : (OneByOne \cup AtOnce \cup ViaAdmin) \ {"upgrade", "update", "redeploy"},
                   targets : SUBSET Hosts, goal : {0}, checked : {FALSE}]
  BY <1>1, <1>4
<1>5. CASE op \in [kind : {"upgrade", "update"}, targets : {Hosts}, goal : Releases, checked : BOOLEAN]
  BY <1>1, <1>5 DEF OneByOne, ViaAdmin
<1>6. CASE op \in [kind : {"redeploy"}, targets : SUBSET Hosts, goal : Releases, checked : {FALSE}]
  BY <1>1, <1>6 DEF OneByOne
<1> QED BY <1>2, <1>3, <1>4, <1>5, <1>6 DEF Requests

\* What a remote command does to the hosts.
LEMMA EffectTypes ==
  ASSUME TypeOK, NEW h \in Hosts, Up(h), Effect(h)
  PROVE  /\ pkg' \in [Hosts -> 0 .. MaxVersion] /\ disk' \in [Hosts -> 0 .. MaxVersion]
         /\ live' \in [Hosts -> 0 .. MaxVersion]
         /\ files' \in [Hosts -> SUBSET (Config \cup {"data"})]
         /\ wanted' \subseteq Hosts
         /\ job' \in [Hosts -> {"none", "start", "reexec"}]
         /\ UNCHANGED power
         /\ \A g \in Hosts : g # h => /\ live'[g] = live[g] /\ job'[g] = job[g]
                                      /\ disk'[g] = disk[g] /\ files'[g] = files[g]
                                      /\ pkg'[g] = pkg[g] /\ (g \in wanted' <=> g \in wanted)
         /\ live'[h] \in {0, live[h]}
         /\ live'[h] # 0 => job'[h] = job[h]
<1> USE DEF TypeOK
<1>r. op.kind \in {"upgrade", "redeploy"} => op.goal \in 0 .. MaxVersion
  BY Requested
<1>1. CASE Restarted(h)
  BY <1>1, HostAssumption DEF Restarted
<1>2. CASE Started(h)
  BY <1>2, HostAssumption DEF Started
<1>3. CASE Stopped(h)
  BY <1>3, HostAssumption DEF Stopped
<1>4. CASE op.kind \in {"upgrade", "redeploy"} /\ Installed(h)
  BY <1>4, <1>r DEF Installed
<1>5. CASE UNCHANGED hostVars
  BY <1>5 DEF hostVars
<1>6. CASE \E S \in SUBSET Config : Copied(h, S)
  BY <1>6 DEF Copied
<1> QED BY <1>1, <1>2, <1>3, <1>4, <1>5, <1>6 DEF Effect, Config

\* Where a host is after its command.
LEMMA AfterValues ==
  ASSUME NEW h
  PROVE  /\ After(h) \in {"done", "wait", "clean", "half", "ready", "stopped", "installed"}
         /\ op.kind = "rolling" => After(h) = "wait"
         /\ op.kind \in {"stop", "start", "host_stop", "upgrade", "reboot", "shutdown"}
              => After(h) = "done"
         /\ op.kind = "redeploy" =>
              /\ at[h] = "todo" => After(h) = "clean"
              /\ at[h] = "clean" => After(h) = IF "env" \in files[h] THEN "ready" ELSE "half"
              /\ at[h] = "half" => After(h) = "ready"
              /\ at[h] = "ready" => After(h) = "stopped"
              /\ at[h] = "stopped" => After(h) = "installed"
              /\ at[h] = "installed" => After(h) = "wait"
BY DEF After

\* The steps of the executor on a host, and those that end or go on after it.
LEMMA AtTypes ==
  ASSUME TypeOK, NEW h \in Hosts, HostStep(h)
  PROVE  /\ at' \in [Hosts -> Over \cup {"wait", "ssh", "clean", "half", "ready", "stopped", "installed"}]
         /\ stage' \in {"idle", "hosts", "admin", "healthy", "converge"}
         /\ result' \in {"none", "succeeded", "failed", "bootstrap", "lost"}
<1> USE DEF TypeOK, Over
<1>1. CASE Command(h)
  BY <1>1, AfterValues DEF Command
<1>2. CASE HostFails(h)
  BY <1>2 DEF HostFails, End
<1>3. CASE SkipHost(h) \/ SkipExtras(h) \/ OrderPower(h) \/ SshReturns(h) \/ HostHealthy(h)
  BY <1>3 DEF SkipHost, SkipExtras, OrderPower, SshReturns, HostHealthy
<1> QED BY <1>1, <1>2, <1>3 DEF HostStep

LEMMA ReportedTypes == TypeOK => Reported \subseteq Releases
BY DEF TypeOK, Reported, Running, Releases

\* A failed command: the hosts as before, or the command's effect.
LEMMA FailureTypes ==
  ASSUME TypeOK, NEW h \in Hosts, HostFails(h)
  PROVE  UNCHANGED hostVars \/ (Up(h) /\ Effect(h) /\ Turn(h))
BY DEF HostFails

LEMMA HostTypes ==
  ASSUME TypeOK, NEW h \in Hosts, Up(h), Effect(h)
  PROVE  /\ power' \in [Hosts -> {"on", "reboot", "halt", "down", "off"}]
         /\ \A g \in Hosts : live'[g] # 0 => Up(g)' /\ job'[g] # "start"
BY EffectTypes DEF TypeOK, Up

LEMMA TypeStep == TypeOK /\ Machinery /\ [Next]_vars => TypeOK'
<1> SUFFICES ASSUME TypeOK, Machinery, [Next]_vars PROVE TypeOK'
  OBVIOUS
<1> USE DEF hostVars, taskVars
<1>1. ASSUME Begin PROVE TypeOK'
  <2>1. op' \in Requests /\ ops' \in 0 .. MaxOps /\ base' \subseteq Hosts /\ victims' = {}
    BY <1>1, HostAssumption DEF Begin, TypeOK, Running
  <2>2. stage' \in {"hosts", "admin"} /\ result' = "none"
    BY <1>1 DEF Begin
  <2>3. UNCHANGED <<hostVars, enabled, row, at>>
    BY <1>1 DEF Begin
  <2> QED BY <2>1, <2>2, <2>3 DEF TypeOK, Up
<1>2. ASSUME NEW h \in Hosts, Command(h) PROVE TypeOK'
  <2>1. HostStep(h) /\ Up(h) /\ Effect(h) /\ UNCHANGED <<enabled, row, stage, result, victims, taskVars>>
    BY <1>2 DEF Command, HostStep
  <2> QED BY <2>1, AtTypes, EffectTypes, HostTypes DEF TypeOK
<1>3. ASSUME NEW h \in Hosts, HostFails(h) PROVE TypeOK'
  <2>1. HostStep(h) /\ UNCHANGED <<enabled, row, victims, taskVars>>
    BY <1>3 DEF HostFails, HostStep
  <2>2. CASE UNCHANGED hostVars
    BY <2>1, <2>2, AtTypes DEF TypeOK, Up
  <2>3. CASE Up(h) /\ Effect(h)
    BY <2>1, <2>3, AtTypes, EffectTypes, HostTypes DEF TypeOK
  <2> QED BY <1>3, <2>2, <2>3, FailureTypes
<1>4. ASSUME NEW h \in Hosts, SkipHost(h) \/ SkipExtras(h) \/ SshReturns(h) \/ HostHealthy(h) PROVE TypeOK'
  <2>1. HostStep(h) /\ victims' \subseteq Hosts /\ UNCHANGED <<hostVars, enabled, row, stage, result, taskVars>>
    BY <1>4 DEF SkipHost, SkipExtras, SshReturns, HostHealthy, HostStep, TypeOK
  <2> QED BY <2>1, AtTypes DEF TypeOK, Up
<1>5. ASSUME NEW h \in Hosts, OrderPower(h) PROVE TypeOK'
  <2>1. HostStep(h) /\ UNCHANGED <<pkg, disk, files, live, wanted, job, enabled, row, stage, result, victims, taskVars>>
    BY <1>5 DEF OrderPower, Ordered, HostStep
  <2>2. /\ power' \in [Hosts -> {"on", "reboot", "halt", "down", "off"}]
        /\ \A g \in Hosts : Up(g) => Up(g)'
    BY <1>5 DEF OrderPower, Ordered, TypeOK, Up
  <2> QED BY <2>1, <2>2, AtTypes DEF TypeOK
<1>6. ASSUME Abandon \/ Crash \/ LoopFails \/ LoopEnds \/ Healthy \/ Converged \/ WaitFails \/ Refresh
      PROVE  TypeOK'
  <2>1. UNCHANGED <<hostVars, enabled, victims, taskVars>>
    BY <1>6 DEF Abandon, Crash, LoopFails, LoopEnds, Healthy, Converged, WaitFails, Refresh
  <2>2. row' \in Releases
    BY <1>6, ReportedTypes DEF Abandon, Crash, LoopFails, LoopEnds, Healthy, Converged, WaitFails, Refresh, TypeOK
  <2>3. /\ at' \in [Hosts -> Over \cup {"wait", "ssh", "clean", "half", "ready", "stopped", "installed"}]
        /\ stage' \in {"idle", "hosts", "admin", "healthy", "converge"}
        /\ result' \in {"none", "succeeded", "failed", "bootstrap", "lost"}
    BY <1>6 DEF Abandon, Crash, LoopFails, LoopEnds, Healthy, Converged, WaitFails, Refresh, End, TypeOK, Over
  <2> QED BY <2>1, <2>2, <2>3 DEF TypeOK, Up
<1>7. ASSUME Restart \/ StopByAdmin \/ Update \/ AdminFails PROVE TypeOK'
  <2>1. UNCHANGED <<power, pkg, files, wanted, enabled, row, victims, taskVars>>
    BY <1>7 DEF Restart, StopByAdmin, Update, AdminFails
  <2>2. op.kind = "update" => op.goal \in 0 .. MaxVersion
    BY Requested
  <2>3. disk' \in [Hosts -> 0 .. MaxVersion]
    BY <1>7, <2>2 DEF Restart, StopByAdmin, Update, AdminFails, Replaced, TypeOK
  <2>4. /\ job' \in [Hosts -> {"none", "start", "reexec"}] /\ live' \in [Hosts -> 0 .. MaxVersion]
        /\ \A h \in Hosts : live'[h] # 0 => live[h] # 0 /\ job'[h] # "start"
    BY <1>7, HostAssumption DEF Restart, StopByAdmin, Update, AdminFails, Reexecs, Exited, TypeOK
  <2>5. /\ at' \in [Hosts -> Over \cup {"wait", "ssh", "clean", "half", "ready", "stopped", "installed"}]
        /\ stage' \in {"idle", "hosts", "admin", "healthy", "converge"}
        /\ result' \in {"none", "succeeded", "failed", "bootstrap", "lost"}
    BY <1>7 DEF Restart, StopByAdmin, Update, AdminFails, End, TypeOK, Over
  <2> QED BY <2>1, <2>3, <2>4, <2>5 DEF TypeOK, Up
<1>8. ASSUME NEW h \in Hosts, Machine(h) PROVE TypeOK'
  <2>1. UNCHANGED <<pkg, disk, enabled, row, stage, at, result, op, base, ops>>
    BY <1>8 DEF Machine, GoDown, Boot, ServerUp, Reexec, ServerFails, Revive
  <2>2. /\ power' \in [Hosts -> {"on", "reboot", "halt", "down", "off"}]
        /\ live' \in [Hosts -> 0 .. MaxVersion] /\ job' \in [Hosts -> {"none", "start", "reexec"}]
    BY <1>8, HostAssumption DEF Machine, GoDown, Boot, ServerUp, Reexec, ServerFails, Revive, TypeOK
  <2>3. files' \in [Hosts -> SUBSET (Config \cup {"data"})] /\ wanted' \subseteq Hosts /\ victims' \subseteq Hosts
    BY <1>8 DEF Machine, GoDown, Boot, ServerUp, Reexec, ServerFails, Revive, Noted, TypeOK
  <2>4. \A g \in Hosts : live'[g] # 0 => Up(g)' /\ job'[g] # "start"
    <3>1. ASSUME GoDown(h) \/ Boot(h) PROVE \A g \in Hosts : live'[g] # 0 => Up(g)' /\ job'[g] # "start"
      BY <3>1 DEF GoDown, Boot, Up, TypeOK
    <3>2. ASSUME ServerUp(h) \/ Reexec(h) \/ ServerFails(h) \/ Revive(h)
          PROVE  \A g \in Hosts : live'[g] # 0 => Up(g)' /\ job'[g] # "start"
      BY <3>2 DEF ServerUp, Reexec, ServerFails, Revive, Up, TypeOK, Machinery
    <3> QED BY <1>8, <3>1, <3>2 DEF Machine
  <2> QED BY <2>1, <2>2, <2>3, <2>4 DEF TypeOK
<1>9. ASSUME UNCHANGED vars PROVE TypeOK'
  BY <1>9 DEF vars, TypeOK, Up
<1> QED BY <1>1, <1>2, <1>3, <1>4, <1>5, <1>6, <1>7, <1>8, <1>9 DEF Next, HostStep, Conclude

\* Nothing but a command, an admin call or the machines changes the hosts.
LEMMA Untouched ==
  ASSUME Begin \/ Abandon \/ Crash \/ LoopFails \/ LoopEnds \/ Healthy \/ Converged \/ WaitFails
         \/ Refresh \/ UNCHANGED vars
         \/ \E h \in Hosts : SkipHost(h) \/ SkipExtras(h) \/ SshReturns(h) \/ HostHealthy(h)
  PROVE  UNCHANGED hostVars
BY DEF Begin, Abandon, Crash, LoopFails, LoopEnds, Healthy, Converged, WaitFails, Refresh, vars,
       SkipHost, SkipExtras, SshReturns, HostHealthy, hostVars

LEMMA EffectMachinery ==
  ASSUME TypeOK, Machinery, NEW h \in Hosts, Up(h), Effect(h)
  PROVE  Machinery'
<1> USE DEF TypeOK, Machinery
<1>r. op.kind \in {"upgrade", "redeploy"} => op.goal # 0
  BY Requested, HostAssumption DEF Releases
<1>1. CASE Restarted(h)
  BY <1>1 DEF Restarted, Up
<1>2. CASE Started(h)
  BY <1>2 DEF Started, Up
<1>3. CASE Stopped(h)
  BY <1>3 DEF Stopped, Up
<1>4. CASE op.kind \in {"upgrade", "redeploy"} /\ Installed(h)
  BY <1>4, <1>r DEF Installed, Up
<1>5. CASE UNCHANGED hostVars
  BY <1>5 DEF hostVars, Up
<1>6. CASE \E S \in SUBSET Config : Copied(h, S)
  BY <1>6 DEF Copied, Up
<1> QED BY <1>1, <1>2, <1>3, <1>4, <1>5, <1>6 DEF Effect, Config

LEMMA MachineryStep == TypeOK /\ Machinery /\ [Next]_vars => Machinery'
<1> SUFFICES ASSUME TypeOK, Machinery, [Next]_vars PROVE Machinery'
  OBVIOUS
<1>1. ASSUME UNCHANGED hostVars PROVE Machinery'
  BY <1>1 DEF hostVars, Machinery, Up
<1>2. ASSUME NEW h \in Hosts, Command(h) \/ HostFails(h) PROVE Machinery'
  <2>1. UNCHANGED hostVars \/ (Up(h) /\ Effect(h))
    BY <1>2 DEF Command, HostFails
  <2> QED BY <1>1, <2>1, EffectMachinery
<1>3. ASSUME NEW h \in Hosts, OrderPower(h) PROVE Machinery'
  <2>1. UNCHANGED <<disk, live, job>> /\ \A g \in Hosts : Up(g) => Up(g)'
    BY <1>3 DEF OrderPower, Ordered, TypeOK, Up
  <2> QED BY <2>1 DEF Machinery
<1>4. ASSUME Restart \/ StopByAdmin \/ Update \/ AdminFails PROVE Machinery'
  <2>1. UNCHANGED power
    BY <1>4 DEF Restart, StopByAdmin, Update, AdminFails
  <2>2. op.kind = "update" => op.goal # 0
    BY Requested, HostAssumption DEF Releases
  <2>3. \A h \in Hosts : live'[h] # 0 => disk'[h] # 0
    BY <1>4, <2>2 DEF Restart, StopByAdmin, Update, AdminFails, Replaced, Exited, Machinery, TypeOK
  <2>4. \A h \in Hosts : /\ job'[h] # "none" => Up(h)
                         /\ job'[h] = "reexec" => live'[h] # 0
    BY <1>4 DEF Restart, StopByAdmin, Update, AdminFails, Reexecs, Exited, Running, Machinery, TypeOK
  <2> QED BY <2>1, <2>3, <2>4 DEF Machinery, Up
<1>5. ASSUME NEW h \in Hosts, Machine(h) PROVE Machinery'
  <2>1. CASE GoDown(h)
    BY <2>1 DEF GoDown, Machinery, Up, TypeOK
  <2>2. CASE Boot(h)
    BY <2>2 DEF Boot, Machinery, Up, TypeOK
  <2>3. CASE ServerUp(h) \/ Reexec(h) \/ ServerFails(h) \/ Revive(h)
    BY <2>3 DEF ServerUp, Reexec, ServerFails, Revive, Machinery, Up, TypeOK
  <2> QED BY <1>5, <2>1, <2>2, <2>3 DEF Machine
<1> QED BY <1>1, <1>2, <1>3, <1>4, <1>5, Untouched DEF Next, HostStep, Conclude

LEMMA StagesStep == TypeOK /\ Stages /\ [Next]_vars => Stages'
<1> SUFFICES ASSUME TypeOK, Stages, [Next]_vars PROVE Stages'
  OBVIOUS
<1> USE DEF TypeOK, Stages, taskVars
<1>1. ASSUME Begin PROVE Stages'
  <2>1. PICK o \in Requests : Admissible(o) /\ op' = o
    BY <1>1 DEF Begin
  <2>2. /\ stage' = IF op'.kind \in ViaAdmin THEN "admin" ELSE "hosts"
        /\ at' = at /\ stage = "idle"
    BY <1>1 DEF Begin
  <2>3. /\ o.kind \in OneByOne \cup AtOnce \cup ViaAdmin
        /\ o.kind \in {"rolling", "stop", "upgrade", "update"} => o.targets = Hosts
        /\ o.kind = "redeploy" => Cardinality(o.targets) = 1
    BY <2>1 DEF Admissible, OneByOne, AtOnce, ViaAdmin
  <2> QED BY <2>1, <2>2, <2>3
<1>2. ASSUME NEW h \in Hosts, Command(h) PROVE Stages'
  <2>1. /\ stage' = stage /\ op' = op /\ stage = "hosts" /\ h \in op.targets
        /\ at' = [at EXCEPT ![h] = After(h)]
    BY <1>2 DEF Command, Turn
  <2>2. op.kind = "rolling" => After(h) = "wait"
    BY AfterValues
  <2>3. op.kind = "stop" => After(h) = "done"
    BY AfterValues
  <2>4. After(h) \notin {"ssh", "bad", "skip"}
    BY AfterValues
  <2> QED BY <2>1, <2>2, <2>3, <2>4
<1>3. ASSUME NEW h \in Hosts,
             SkipHost(h) \/ SkipExtras(h) \/ OrderPower(h) \/ SshReturns(h) \/ HostHealthy(h)
      PROVE  Stages'
  BY <1>3 DEF SkipHost, SkipExtras, OrderPower, SshReturns, HostHealthy, Turn
<1>4. ASSUME NEW h \in Hosts, HostFails(h) PROVE Stages'
  <2>1. stage = "hosts" /\ h \in op.targets /\ op' = op
    BY <1>4 DEF HostFails, Turn
  <2>2. CASE op.kind \in GoesOn
    BY <1>4, <2>1, <2>2 DEF HostFails, GoesOn, AtOnce
  <2>3. CASE op.kind \notin GoesOn
    BY <1>4, <2>1, <2>3 DEF HostFails, End
  <2> QED BY <2>2, <2>3
<1>5. ASSUME Abandon \/ Crash \/ LoopFails \/ StopByAdmin \/ AdminFails \/ WaitFails \/ Converged
      PROVE  Stages'
  BY <1>5 DEF Abandon, Crash, LoopFails, StopByAdmin, AdminFails, WaitFails, Converged, End
<1>6. ASSUME LoopEnds \/ Restart \/ Update \/ Healthy PROVE Stages'
  BY <1>6 DEF LoopEnds, Restart, Update, Healthy, End
<1>7. ASSUME Refresh \/ UNCHANGED vars PROVE Stages'
  BY <1>7 DEF Refresh, vars
<1>8. ASSUME NEW h \in Hosts, Machine(h) PROVE Stages'
  BY <1>8 DEF Machine, GoDown, Boot, ServerUp, Reexec, ServerFails, Revive
<1> QED BY <1>1, <1>2, <1>3, <1>4, <1>5, <1>6, <1>7, <1>8 DEF Next, HostStep, Conclude

-----------------------------------------------------------------------------
\* What the machines do by themselves.
LEMMA MachineEffect ==
  ASSUME TypeOK, Machinery, NEW h \in Hosts, Machine(h)
  PROVE  /\ UNCHANGED <<pkg, disk, enabled, row, stage, at, result, op, base, ops>>
         /\ \A g \in Hosts : g # h =>
              /\ live'[g] = live[g] /\ job'[g] = job[g] /\ power'[g] = power[g]
              /\ files'[g] = files[g] /\ (g \in wanted' <=> g \in wanted)
         /\ live'[h] \in {0, live[h], disk[h]} /\ (live'[h] = 0 /\ live[h] # 0 => Noted(h))
         /\ files'[h] = files[h] \/ ("env" \in files[h] /\ files'[h] = files[h] \cup {"data"})
         /\ live[h] = 0 /\ job[h] = "none" /\ h \notin wanted =>
              /\ live'[h] = 0
              /\ \/ Up(h) /\ power'[h] = power[h] /\ UNCHANGED <<job, wanted>>
                 \/ Noted(h) /\ job'[h] = "none" /\ h \notin wanted'
                 \/ ~Up(h) /\ (h \notin enabled => UNCHANGED <<job, wanted>>)
         /\ victims \subseteq victims'
<1> USE DEF TypeOK, Machinery, taskVars, Up, Noted
<1>1. CASE GoDown(h)
  BY <1>1 DEF GoDown
<1>2. CASE Boot(h)
  BY <1>2 DEF Boot
<1>3. CASE ServerUp(h)
  BY <1>3 DEF ServerUp
<1>4. CASE Reexec(h)
  BY <1>4 DEF Reexec
<1>5. CASE ServerFails(h)
  BY <1>5 DEF ServerFails
<1>6. CASE Revive(h)
  BY <1>6 DEF Revive
<1> QED BY <1>1, <1>2, <1>3, <1>4, <1>5, <1>6 DEF Machine

\* The stages past the hosts are of other operations.
LEMMA NotAdmin ==
  ASSUME TypeOK, Stages, op.kind \in {"rolling", "stop", "redeploy"}
  PROVE  stage \in {"idle", "hosts"}
BY DEF Stages, ViaAdmin, TypeOK

\* Only Begin changes the operation.
LEMMA SameOperation ==
  ASSUME [Next]_vars, ~Begin PROVE op' = op
BY DEF Next, HostStep, Machine, Conclude, Command, SkipHost, SkipExtras, OrderPower, SshReturns,
       HostHealthy, HostFails, LoopFails, LoopEnds, Restart, StopByAdmin, Update, AdminFails,
       Healthy, Converged, WaitFails, GoDown, Boot, ServerUp, Reexec, ServerFails, Revive,
       Abandon, Crash, Refresh, taskVars, vars

LEMMA OneDownStep ==
  TypeOK /\ Machinery /\ Stages /\ OneDown /\ [Next]_vars => OneDown'
<1> SUFFICES ASSUME TypeOK, Machinery, Stages, OneDown, [Next]_vars PROVE OneDown'
  OBVIOUS
<1>1. ASSUME Begin PROVE OneDown'
  <2>1. op'.kind = "rolling" => TakenDown' = {}
    BY <1>1 DEF Begin, TakenDown, hostVars, Running
  <2>2. \A h \in Hosts : at'[h] = "todo"
    BY <1>1 DEF Begin, Stages
  <2> QED BY <2>1, <2>2 DEF OneDown
<1>2. CASE op'.kind # "rolling"
  BY <1>2 DEF OneDown
<1> SUFFICES ASSUME op = op', op.kind = "rolling" PROVE OneDown'
  <2> QED BY <1>1, <1>2, SameOperation
<1>s. stage \in {"idle", "hosts"}
  BY NotAdmin
<1>a. \A h \in Hosts : at[h] \in {"todo", "wait", "done", "skip"}
  BY DEF Stages
<1>d. /\ \A g, h \in TakenDown : g = h
      /\ stage = "hosts" => \A h \in TakenDown : at[h] = "wait"
      /\ \A g, h \in Hosts : at[g] = "wait" /\ at[h] = "wait" => g = h
  BY DEF OneDown
<1>t. \A h \in Hosts : Turn(h) => at[h] = "todo" /\ TakenDown = {} /\ \A g \in Hosts : at[g] # "wait"
  <2> SUFFICES ASSUME NEW h \in Hosts, Turn(h)
               PROVE  at[h] = "todo" /\ TakenDown = {} /\ \A g \in Hosts : at[g] # "wait"
    OBVIOUS
  <2>1. at[h] = "todo" /\ \A g \in Hosts : at[g] \in Over
    BY <1>a DEF Turn, Over, OneByOne
  <2>2. TakenDown \subseteq Hosts /\ stage = "hosts"
    BY DEF TakenDown, Turn, TypeOK
  <2> QED BY <1>d, <2>1, <2>2 DEF Over
<1>e. ASSUME NEW h \in Hosts, Turn(h), Up(h), Effect(h), UNCHANGED <<base, victims>>
      PROVE  TakenDown' \subseteq {h}
  <2>1. \A g \in Hosts : g # h => live'[g] = live[g]
    BY <1>e, EffectTypes
  <2>2. TakenDown = {} /\ base \subseteq Hosts
    BY <1>e, <1>t DEF TypeOK
  <2> QED BY <1>e, <2>1, <2>2 DEF TakenDown
<1>3. ASSUME NEW h \in Hosts, Command(h) PROVE OneDown'
  <2>1. TakenDown' \subseteq {h}
    BY <1>3, <1>e DEF Command, taskVars
  <2>2. at' = [at EXCEPT ![h] = "wait"] /\ \A g \in Hosts : at[g] # "wait"
    BY <1>3, <1>t, AfterValues DEF Command
  <2> QED BY <2>1, <2>2 DEF OneDown, TypeOK
<1>4. ASSUME NEW h \in Hosts, HostFails(h) PROVE OneDown'
  <2>1. /\ stage' = "idle" /\ at' = [g \in Hosts |-> "todo"] /\ UNCHANGED <<base, victims>>
        /\ UNCHANGED hostVars \/ (Turn(h) /\ Up(h) /\ Effect(h))
    BY <1>4 DEF HostFails, End, GoesOn, AtOnce, taskVars
  <2>2. \A g, k \in TakenDown' : g = k
    <3>1. CASE UNCHANGED hostVars
      BY <1>d, <2>1, <3>1 DEF TakenDown, hostVars
    <3>2. CASE Turn(h) /\ Up(h) /\ Effect(h)
      BY <1>e, <2>1, <3>2
    <3> QED BY <2>1, <3>1, <3>2
  <2> QED BY <2>1, <2>2 DEF OneDown
<1>5. ASSUME NEW h \in Hosts, SkipHost(h) PROVE OneDown'
  <2>1. TakenDown = {} /\ UNCHANGED TakenDown /\ at' = [at EXCEPT ![h] = "skip"]
    BY <1>5, <1>t DEF SkipHost, TakenDown, hostVars, taskVars
  <2> QED BY <1>d, <2>1 DEF OneDown, TypeOK
<1>6. ASSUME NEW h \in Hosts, SkipExtras(h) \/ OrderPower(h) \/ SshReturns(h) PROVE FALSE
  BY <1>6, <1>a DEF SkipExtras, OrderPower, SshReturns
<1>7. ASSUME NEW h \in Hosts, HostHealthy(h) PROVE OneDown'
  <2>1. h \notin TakenDown /\ UNCHANGED <<TakenDown, stage>> /\ at' = [at EXCEPT ![h] = "done"]
    BY <1>7 DEF HostHealthy, TakenDown, hostVars, taskVars
  <2>2. TakenDown \subseteq Hosts
    BY DEF TakenDown, TypeOK
  <2>3. \A g \in Hosts : g # h => at'[g] = at[g]
    BY <2>1 DEF TypeOK
  <2>4. \A g \in Hosts : at'[g] = "wait" => at[g] = "wait"
    BY <2>1 DEF TypeOK
  <2> QED BY <1>d, <2>1, <2>2, <2>3, <2>4 DEF OneDown
<1>8. ASSUME Abandon \/ Crash \/ LoopFails \/ LoopEnds PROVE OneDown'
  <2>1. stage' = "idle" /\ at' = [g \in Hosts |-> "todo"] /\ UNCHANGED TakenDown
    BY <1>8 DEF Abandon, Crash, LoopFails, LoopEnds, End, TakenDown, hostVars, taskVars
  <2> QED BY <1>d, <2>1 DEF OneDown
<1>9. ASSUME Restart \/ StopByAdmin \/ Update \/ AdminFails \/ Healthy \/ Converged \/ WaitFails
      PROVE  FALSE
  BY <1>9, <1>s DEF Restart, StopByAdmin, Update, AdminFails, Healthy, Converged, WaitFails
<1>10. ASSUME Refresh \/ UNCHANGED vars PROVE OneDown'
  BY <1>10, <1>d DEF Refresh, vars, OneDown, TakenDown, hostVars, taskVars
<1>11. ASSUME NEW h \in Hosts, Machine(h) PROVE OneDown'
  <2>1. UNCHANGED <<stage, at, base>> /\ victims \subseteq victims'
    BY <1>11, MachineEffect
  <2>2. \A g \in Hosts : live'[g] = 0 => live[g] = 0 \/ g \in victims'
    BY <1>11, MachineEffect DEF Noted, Machinery
  <2>3. TakenDown' \subseteq TakenDown
    BY <2>1, <2>2 DEF TakenDown, TypeOK
  <2> QED BY <1>d, <2>1, <2>3 DEF OneDown
<1> QED BY <1>1, <1>3, <1>4, <1>5, <1>6, <1>7, <1>8, <1>9, <1>10, <1>11 DEF Next, HostStep, Conclude

LEMMA UpgradeStep ==
  TypeOK /\ Machinery /\ Stages /\ NoDowngrade /\ UpgradeIsUniform /\ [Next]_vars =>
    NoDowngrade' /\ UpgradeIsUniform'
<1> SUFFICES ASSUME TypeOK, Machinery, Stages, NoDowngrade, UpgradeIsUniform, [Next]_vars
             PROVE  NoDowngrade' /\ UpgradeIsUniform'
  OBVIOUS
<1>1. ASSUME Begin PROVE NoDowngrade' /\ UpgradeIsUniform'
  <2>1. PICK o \in Requests : Admissible(o) /\ op' = o
    BY <1>1 DEF Begin
  <2>2. stage' # "idle" /\ UNCHANGED <<live, disk>>
    BY <1>1 DEF Begin, hostVars
  <2>3. o.checked => o.kind \in {"upgrade", "update"} /\ o.goal \in Releases
    BY DEF Requests
  <2>4. o.checked => \A h \in Running : o.goal > live[h]
    BY <2>1, <2>3 DEF Admissible, Newer
  <2>5. o.checked => \A h \in Hosts : ~(live[h] >= o.goal)
    BY <2>3, <2>4, HostAssumption DEF Running, Releases, TypeOK
  <2> QED BY <2>1, <2>2, <2>5 DEF NoDowngrade, UpgradeIsUniform
<1> SUFFICES ASSUME op' = op, op.checked PROVE NoDowngrade' /\ UpgradeIsUniform'
  BY <1>1, SameOperation DEF NoDowngrade, UpgradeIsUniform
<1>g. op.kind \in {"upgrade", "update"} /\ op.goal \in Nat \ {0}
  BY Requested, HostAssumption DEF Releases
<1>n. \A h \in Hosts : live[h] >= op.goal => disk[h] >= op.goal
  BY DEF NoDowngrade
<1>v. \A h \in Hosts : live[h] \in Nat /\ disk[h] \in Nat
  BY HostAssumption DEF TypeOK
<1>h. stage = "hosts" => op.kind = "upgrade"
  BY <1>g DEF Stages, OneByOne, AtOnce
<1>2. ASSUME UNCHANGED hostVars, stage' # "idle" \/ result' # "succeeded"
      PROVE  NoDowngrade' /\ UpgradeIsUniform'
  BY <1>2 DEF NoDowngrade, UpgradeIsUniform, hostVars
<1>3. ASSUME NEW h \in Hosts, Command(h) \/ HostFails(h) PROVE NoDowngrade' /\ UpgradeIsUniform'
  <2>1. stage' # "idle" \/ result' # "succeeded"
    BY <1>3 DEF Command, HostFails, Turn, End
  <2>2. UNCHANGED hostVars \/ Installed(h)
    BY <1>3, <1>g DEF Command, HostFails, Effect
  <2>3. CASE Installed(h)
    BY <1>n, <1>g, <2>1, <2>3 DEF Installed, NoDowngrade, UpgradeIsUniform, TypeOK
  <2> QED BY <1>2, <2>1, <2>2, <2>3
<1>4. ASSUME NEW h \in Hosts, SkipHost(h) \/ SkipExtras(h) \/ SshReturns(h) \/ HostHealthy(h)
      PROVE  NoDowngrade' /\ UpgradeIsUniform'
  BY <1>2, <1>4, Untouched DEF SkipHost, SkipExtras, SshReturns, HostHealthy, Turn
<1>5. ASSUME NEW h \in Hosts, OrderPower(h) PROVE FALSE
  BY <1>5, <1>g DEF OrderPower
<1>6. ASSUME Abandon \/ Crash \/ LoopFails \/ WaitFails PROVE NoDowngrade' /\ UpgradeIsUniform'
  BY <1>2, <1>6, Untouched DEF Abandon, Crash, LoopFails, WaitFails, End
<1>7. ASSUME LoopEnds \/ Healthy PROVE NoDowngrade' /\ UpgradeIsUniform'
  BY <1>2, <1>7, <1>g, <1>h, Untouched DEF LoopEnds, Healthy, Ends
<1>8. ASSUME Converged PROVE NoDowngrade' /\ UpgradeIsUniform'
  <2>1. UNCHANGED <<live, disk>> /\ \A h \in Hosts : live[h] >= op.goal
    BY <1>8 DEF Converged, hostVars
  <2> QED BY <1>n, <2>1 DEF NoDowngrade, UpgradeIsUniform
<1>9. ASSUME Restart \/ StopByAdmin \/ Update \/ AdminFails PROVE NoDowngrade' /\ UpgradeIsUniform'
  <2>1. stage' # "idle" \/ result' # "succeeded"
    BY <1>9, <1>g DEF Restart, StopByAdmin, Update, AdminFails, End
  <2>2. \A h \in Hosts : live'[h] = live[h] /\ (disk'[h] = disk[h] \/ disk'[h] = op.goal)
    BY <1>9, <1>g DEF Restart, StopByAdmin, Update, AdminFails, Replaced, TypeOK
  <2> QED BY <1>g, <1>n, <2>1, <2>2 DEF NoDowngrade, UpgradeIsUniform
<1>10. ASSUME Refresh \/ UNCHANGED vars PROVE NoDowngrade' /\ UpgradeIsUniform'
  <2>1. UNCHANGED <<live, disk, stage, result>>
    BY <1>10 DEF Refresh, vars, hostVars
  <2> QED BY <2>1 DEF NoDowngrade, UpgradeIsUniform
<1>11. ASSUME NEW h \in Hosts, Machine(h) PROVE NoDowngrade' /\ UpgradeIsUniform'
  <2>1. /\ UNCHANGED <<disk, stage, result>>
        /\ \A g \in Hosts : live'[g] \in {0, live[g], disk[g]}
    BY <1>11, MachineEffect
  <2>2. \A g \in Hosts : live'[g] >= op.goal => disk[g] >= op.goal
    BY <1>g, <1>n, <1>v, <2>1
  <2>3. UpgradeIsUniform'
    BY <2>1 DEF UpgradeIsUniform
  <2> QED BY <2>1, <2>2, <2>3 DEF NoDowngrade
<1> QED BY <1>1, <1>3, <1>4, <1>5, <1>6, <1>7, <1>8, <1>9, <1>10, <1>11 DEF Next, HostStep, Conclude

LEMMA StoppedStep ==
  TypeOK /\ Machinery /\ Stages /\ StoppedStay /\ [Next]_vars => StoppedStay'
<1> SUFFICES ASSUME TypeOK, Machinery, Stages, StoppedStay, [Next]_vars PROVE StoppedStay'
  OBVIOUS
<1>1. ASSUME Begin PROVE StoppedStay'
  BY <1>1 DEF Begin, StoppedStay, Stages
<1> SUFFICES ASSUME op' = op, op.kind = "stop" PROVE StoppedStay'
  BY <1>1, SameOperation DEF StoppedStay
<1>s. stage \in {"idle", "hosts"}
  BY NotAdmin
<1>a. op.targets = Hosts /\ \A h \in Hosts : at[h] \in {"todo", "done", "bad", "skip"}
  BY DEF Stages
<1>d. /\ \A h \in Hosts : at[h] = "done" => h \in victims \/ Quiet(h)
      /\ \A h \in Hosts : at[h] = "skip" => ~HasUnit(h)
  BY DEF StoppedStay
<1>2. ASSUME NEW h \in Hosts, Command(h) \/ HostFails(h) PROVE StoppedStay'
  <2>1. Turn(h) /\ at[h] = "todo" /\ stage = "hosts" /\ stage' = "hosts" /\ victims' = victims
    BY <1>2, <1>a DEF Command, HostFails, Turn, GoesOn, AtOnce, Over
  <2>2. at' = [at EXCEPT ![h] = "done"] \/ at' = [at EXCEPT ![h] = "bad"]
    BY <1>2, AfterValues DEF Command, HostFails, GoesOn, AtOnce
  <2>3. UNCHANGED hostVars \/ (Up(h) /\ Stopped(h))
    BY <1>2 DEF Command, HostFails, Effect
  <2>4. at'[h] = "done" => Up(h) /\ Stopped(h)
    BY <1>2, <2>2 DEF Command, HostFails, Effect, GoesOn, AtOnce, TypeOK
  <2>5. \A g \in Hosts : g # h => (Quiet(g) => Quiet(g)') /\ at'[g] = at[g]
    BY <2>2, <2>3 DEF Stopped, Quiet, Up, hostVars, TypeOK
  <2>6. UNCHANGED pkg
    BY <2>3 DEF hostVars, Stopped
  <2>7. at'[h] = "done" => Quiet(h)'
    BY <2>4 DEF Stopped, Quiet, Up, TypeOK
  <2>8. at'[h] # "skip"
    BY <2>2 DEF TypeOK
  <2> QED BY <1>d, <2>1, <2>5, <2>6, <2>7, <2>8 DEF StoppedStay, HasUnit
<1>3. ASSUME NEW h \in Hosts, SkipHost(h) PROVE StoppedStay'
  <2>1. stage' = "hosts" /\ UNCHANGED <<hostVars, victims>> /\ ~HasUnit(h) /\ at' = [at EXCEPT ![h] = "skip"]
    BY <1>3 DEF SkipHost, Turn
  <2> QED BY <1>d, <2>1 DEF StoppedStay, HasUnit, Quiet, Up, hostVars, TypeOK
<1>4. ASSUME NEW h \in Hosts, SkipExtras(h) \/ OrderPower(h) \/ SshReturns(h) \/ HostHealthy(h)
      PROVE  FALSE
  BY <1>4, <1>a DEF SkipExtras, OrderPower, SshReturns, HostHealthy
<1>5. ASSUME Abandon \/ Crash \/ LoopFails PROVE StoppedStay'
  BY <1>5 DEF Abandon, Crash, LoopFails, End, StoppedStay
<1>6. ASSUME LoopEnds PROVE StoppedStay'
  <2>1. UNCHANGED <<hostVars, victims>> /\ at' = [h \in Hosts |-> "todo"]
    BY <1>6 DEF LoopEnds, End
  <2>2. \A h \in Hosts : HasUnit(h) => h \in victims \/ Quiet(h)
    BY <1>6, <1>a, <1>d DEF LoopEnds, Ends
  <2> QED BY <2>1, <2>2 DEF StoppedStay, HasUnit, Quiet, Up, hostVars
<1>7. ASSUME Restart \/ StopByAdmin \/ Update \/ AdminFails \/ Healthy \/ Converged \/ WaitFails
      PROVE  FALSE
  BY <1>7, <1>s DEF Restart, StopByAdmin, Update, AdminFails, Healthy, Converged, WaitFails
<1>8. ASSUME Refresh \/ UNCHANGED vars PROVE StoppedStay'
  BY <1>8 DEF Refresh, vars, hostVars, StoppedStay, HasUnit, Quiet, Up
<1>9. ASSUME NEW h \in Hosts, Machine(h) PROVE StoppedStay'
  <2>1. UNCHANGED <<pkg, stage, at, result>> /\ victims \subseteq victims'
    BY <1>9, MachineEffect
  <2>2. \A g \in Hosts : g # h => (Quiet(g) => Quiet(g)')
    BY <1>9, MachineEffect DEF Quiet, Up
  <2>3. Quiet(h) => Quiet(h)' \/ h \in victims'
    <3>1. SUFFICES ASSUME Quiet(h) PROVE Quiet(h)' \/ h \in victims'
      OBVIOUS
    <3>2. /\ live'[h] = 0
          /\ (power'[h] = power[h] /\ UNCHANGED <<job, wanted>>) \/ Noted(h)
      BY <1>9, <3>1, MachineEffect DEF Quiet
    <3> QED BY <3>1, <3>2 DEF Quiet, Up, Noted
  <2> QED BY <2>1, <2>2, <2>3 DEF StoppedStay, HasUnit
<1> QED BY <1>1, <1>2, <1>3, <1>4, <1>5, <1>6, <1>7, <1>8, <1>9 DEF Next, HostStep, Conclude

\* Files are only added.
LEMMA FilesGrow ==
  ASSUME TypeOK, Machinery, [Next]_vars
  PROVE  enabled' = enabled /\ \A h \in Hosts : files[h] \subseteq files'[h]
<1>1. enabled' = enabled
  BY DEF Next, HostStep, Machine, Conclude, Begin, Command, SkipHost, SkipExtras, OrderPower, SshReturns,
         HostHealthy, HostFails, LoopFails, LoopEnds, Restart, StopByAdmin, Update, AdminFails,
         Healthy, Converged, WaitFails, GoDown, Boot, ServerUp, Reexec, ServerFails, Revive,
         Abandon, Crash, Refresh, vars
<1>2. ASSUME UNCHANGED files PROVE \A h \in Hosts : files[h] \subseteq files'[h]
  BY <1>2
<1>3. ASSUME NEW h \in Hosts, Command(h) \/ HostFails(h)
      PROVE  \A g \in Hosts : files[g] \subseteq files'[g]
  <2>1. UNCHANGED files \/ \E S : Copied(h, S)
    BY <1>3 DEF Command, HostFails, Effect, Restarted, Started, Stopped, Installed, hostVars
  <2> QED BY <1>2, <2>1 DEF Copied, TypeOK
<1>4. ASSUME NEW h \in Hosts, Machine(h) PROVE \A g \in Hosts : files[g] \subseteq files'[g]
  BY <1>4, MachineEffect
<1>5. ASSUME \/ Restart \/ StopByAdmin \/ Update \/ AdminFails
             \/ \E h \in Hosts : OrderPower(h)
      PROVE  UNCHANGED files
  BY <1>5 DEF Restart, StopByAdmin, Update, AdminFails, OrderPower, Ordered
<1>6. UNCHANGED hostVars => UNCHANGED files
  BY DEF hostVars
<1> QED BY <1>1, <1>2, <1>3, <1>4, <1>5, <1>6, Untouched DEF Next, HostStep, Conclude

LEMMA ProvisioningStep ==
  TypeOK /\ Machinery /\ Stages /\ Provisioning /\ [Next]_vars => Provisioning'
<1> SUFFICES ASSUME TypeOK, Machinery, Stages, Provisioning, [Next]_vars PROVE Provisioning'
  OBVIOUS
<1>f. \A h \in Hosts : files'[h] = {} => h \notin enabled'
  BY FilesGrow DEF Provisioning
<1>1. ASSUME Begin PROVE Provisioning'
  <2>1. stage' # "idle" /\ \A h \in Hosts : at'[h] = "todo"
    BY <1>1 DEF Begin, Stages
  <2> QED BY <1>f, <2>1 DEF Provisioning
<1> SUFFICES ASSUME op' = op, op.kind = "redeploy" PROVE Provisioning'
  BY <1>1, <1>f, SameOperation DEF Provisioning
<1>s. stage \in {"idle", "hosts"}
  BY NotAdmin
<1>a. \A h \in Hosts : at[h] \notin {"ssh", "bad", "skip"} /\ (at[h] # "todo" => h \in op.targets)
  BY DEF Stages
<1>o. \A g, h \in op.targets : g = h
  <2>1. IsFiniteSet(op.targets) /\ Cardinality(op.targets) = 1
    BY Requested, HostAssumption, FS_Subset DEF Stages
  <2>2. \E x : op.targets = {x}
    BY <2>1, FS_Singleton
  <2> QED BY <2>2
<1>2. ASSUME stage' = "idle", result' # "succeeded", \A h \in Hosts : at'[h] = "todo"
      PROVE  Provisioning'
  BY <1>2, <1>f DEF Provisioning
\* A step on h that leaves the other hosts, which are not targets, alone.
<1>3. ASSUME NEW h \in Hosts, Command(h) PROVE Provisioning'
  <2>1. /\ Turn(h) /\ stage' = "hosts" /\ h \in op.targets /\ Effect(h) /\ Up(h)
        /\ at' = [at EXCEPT ![h] = After(h)] /\ victims' = victims /\ enabled' = enabled
    BY <1>3 DEF Command, Turn
  <2>2. \A g \in Hosts : g # h => at[g] = "todo" /\ at'[g] = "todo"
    BY <1>a, <1>o, <2>1 DEF TypeOK
  <2>3. at'[h] = After(h) /\ at[h] \in {"todo", "clean", "half", "ready", "stopped", "installed"}
    BY <1>a, <2>1 DEF Turn, Over, TypeOK
  <2>4. ASSUME files' = files, Whole(h) PROVE Whole(h)'
    BY <2>1, <2>4 DEF Whole, HalfProvisioned
  <2>p. /\ at[h] # "todo" => h \notin enabled
        /\ at[h] = "clean" => "env" \notin files[h]
        /\ at[h] = "half" => "env" \in files[h]
        /\ at[h] \in {"ready", "stopped", "installed"} => Whole(h)
        /\ at[h] \in {"stopped", "installed"} => live[h] = 0 /\ job[h] = "none" /\ h \notin wanted
        /\ at[h] = "installed" => Replacing(h)
    BY DEF Provisioning
  <2>5. SUFFICES
          /\ h \notin enabled
          /\ After(h) = "clean" => "env" \notin files'[h]
          /\ After(h) = "half" => "env" \in files'[h]
          /\ After(h) \in {"ready", "stopped", "installed", "wait"} => Whole(h)'
          /\ After(h) \in {"stopped", "installed"} =>
               live'[h] = 0 /\ job'[h] = "none" /\ h \notin wanted'
          /\ After(h) \in {"installed", "wait"} => Replacing(h)'
    <3>1. After(h) # "done"
      BY <2>3, AfterValues
    <3> QED BY <1>f, <2>1, <2>2, <2>3, <3>1 DEF Provisioning
  <2>6. CASE at[h] = "todo"
    <3>1. files[h] = {} /\ files' = files /\ After(h) = "clean"
      BY <2>1, <2>6, AfterValues DEF Effect, IsClean, hostVars
    <3> QED BY <3>1 DEF Provisioning
  <2>7. CASE at[h] = "clean"
    <3>1. Copied(h, {"env"}) /\ After(h) = "half"
      BY <2>1, <2>p, <2>7, AfterValues DEF Effect
    <3> QED BY <2>p, <2>7, <3>1 DEF Copied, TypeOK
  <2>8. CASE at[h] = "half"
    <3>1. After(h) = "ready"
      BY <2>8, AfterValues
    <3>2. PICK g \in Sources(h) : Copied(h, files[g] \cap {"extras"})
      BY <2>1, <2>8 DEF Effect
    <3>3. g \in Hosts \ {h} /\ "env" \in files[g] /\ files'[g] = files[g]
          /\ files'[h] = files[h] \cup (files[g] \cap {"extras"})
      BY <3>2 DEF Sources, Copied, TypeOK
    <3>4. Whole(h)'
      <4>1. CASE "extras" \in files[g]
        BY <2>p, <2>8, <3>3, <4>1 DEF Whole, Config
      <4>2. CASE "extras" \notin files[g]
        BY <3>3, <4>2 DEF Whole, HalfProvisioned
      <4> QED BY <4>1, <4>2
    <3> QED BY <2>p, <2>8, <3>1, <3>4
  <2>9. CASE at[h] = "ready"
    <3>1. After(h) = "stopped" /\ Stopped(h)
      BY <2>1, <2>9, AfterValues DEF Effect
    <3> QED BY <2>p, <2>4, <2>9, <3>1 DEF Stopped, TypeOK
  <2>10. CASE at[h] = "stopped"
    <3>1. After(h) = "installed" /\ Installed(h)
      BY <2>1, <2>10, AfterValues DEF Effect
    <3> QED BY <2>p, <2>4, <2>10, <3>1 DEF Installed, Replacing, TypeOK
  <2>11. CASE at[h] = "installed"
    <3>1. After(h) = "wait" /\ Started(h)
      BY <2>1, <2>11, AfterValues DEF Effect
    <3> QED BY <2>p, <2>4, <2>11, <3>1 DEF Started, Replacing, TypeOK
  <2> QED BY <2>3, <2>6, <2>7, <2>8, <2>9, <2>10, <2>11
<1>4. ASSUME NEW h \in Hosts, HostFails(h) PROVE Provisioning'
  BY <1>2, <1>4 DEF HostFails, End, GoesOn, AtOnce
<1>5. ASSUME NEW h \in Hosts, SkipHost(h) \/ OrderPower(h) \/ SshReturns(h) PROVE FALSE
  BY <1>5, <1>a DEF SkipHost, OrderPower, SshReturns
<1>6. ASSUME NEW h \in Hosts, SkipExtras(h) PROVE Provisioning'
  <2>1. /\ stage' = "hosts" /\ at[h] = "half" /\ at' = [at EXCEPT ![h] = "ready"]
        /\ victims' = victims \cup {h} /\ UNCHANGED <<hostVars, enabled>> /\ h \in op.targets
    BY <1>6 DEF SkipExtras, Turn
  <2>2. \A g \in Hosts : g # h => at'[g] = "todo"
    BY <1>a, <1>o, <2>1 DEF TypeOK
  <2>3. h \notin enabled /\ Whole(h)' /\ at'[h] = "ready"
    BY <2>1 DEF Provisioning, Whole, TypeOK
  <2> QED BY <1>f, <2>1, <2>2, <2>3 DEF Provisioning
<1>7. ASSUME NEW h \in Hosts, HostHealthy(h) PROVE Provisioning'
  <2>1. /\ stage' = "hosts" /\ at[h] = "wait" /\ at' = [at EXCEPT ![h] = "done"]
        /\ UNCHANGED <<hostVars, enabled, victims>> /\ h \in op.targets
    BY <1>7, <1>a DEF HostHealthy
  <2>2. \A g \in Hosts : g # h => at'[g] = "todo"
    BY <1>a, <1>o, <2>1 DEF TypeOK
  <2>3. h \notin enabled /\ Whole(h)' /\ Replacing(h)' /\ at'[h] = "done"
    BY <2>1 DEF Provisioning, Whole, HalfProvisioned, Replacing, hostVars, TypeOK
  <2> QED BY <1>f, <2>1, <2>2, <2>3 DEF Provisioning
<1>8. ASSUME Abandon \/ Crash \/ LoopFails PROVE Provisioning'
  BY <1>2, <1>8 DEF Abandon, Crash, LoopFails, End
<1>9. ASSUME LoopEnds PROVE Provisioning'
  <2>1. UNCHANGED <<hostVars, victims>> /\ \A h \in Hosts : at'[h] = "todo"
    BY <1>9 DEF LoopEnds, End
  <2>2. \A h \in op.targets : at[h] = "done" /\ h \in Hosts
    BY <1>9, <1>a, Requested DEF LoopEnds, Ends
  <2>3. \A h \in op.targets : Whole(h) /\ Replacing(h)
    BY <2>2 DEF Provisioning
  <2>4. \A h \in op.targets : (Whole(h) /\ Replacing(h))'
    BY <2>1, <2>3 DEF Whole, HalfProvisioned, Replacing, hostVars
  <2> QED BY <1>f, <2>1, <2>4 DEF Provisioning
<1>10. ASSUME Restart \/ StopByAdmin \/ Update \/ AdminFails \/ Healthy \/ Converged \/ WaitFails
       PROVE  FALSE
  BY <1>10, <1>s DEF Restart, StopByAdmin, Update, AdminFails, Healthy, Converged, WaitFails
<1>11. ASSUME Refresh \/ UNCHANGED vars PROVE Provisioning'
  BY <1>11 DEF Refresh, vars, hostVars, Provisioning, Whole, HalfProvisioned, Replacing
<1>12. ASSUME NEW x \in Hosts, Machine(x) PROVE Provisioning'
  <2>1. UNCHANGED <<disk, enabled, stage, at, result>> /\ victims \subseteq victims'
    BY <1>12, MachineEffect
  <2>2. \A g \in Hosts : /\ "env" \in files'[g] <=> "env" \in files[g]
                         /\ "extras" \in files'[g] <=> "extras" \in files[g]
    BY <1>12, MachineEffect
  <2>3. \A h \in Hosts : Whole(h) => Whole(h)'
    BY <2>1, <2>2 DEF Whole, HalfProvisioned, Config
  <2>4. \A h \in Hosts : Replacing(h) => Replacing(h)'
    BY <1>12, <2>1, MachineEffect DEF Replacing
  <2>5. \A h \in Hosts :
          live[h] = 0 /\ job[h] = "none" /\ h \notin wanted /\ h \notin enabled =>
            live'[h] = 0 /\ job'[h] = "none" /\ h \notin wanted'
    BY <1>12, MachineEffect
  <2>6. op.targets \subseteq Hosts
    BY Requested
  <2> QED BY <1>f, <2>1, <2>2, <2>3, <2>4, <2>5, <2>6 DEF Provisioning
<1> QED BY <1>1, <1>3, <1>4, <1>5, <1>6, <1>7, <1>8, <1>9, <1>10, <1>11, <1>12
        DEF Next, HostStep, Conclude

-----------------------------------------------------------------------------
(* Every reachable state of the hosts and of the operation on them          *)
(* satisfies the invariant, for any number of hosts.                        *)
THEOREM Invariance == Spec => []IInv
<1>1. IInv /\ [Next]_vars => IInv'
  BY TypeStep, MachineryStep, StagesStep, OneDownStep, UpgradeStep, StoppedStep, ProvisioningStep
  DEF IInv
<1> QED BY InitInvariant, <1>1, PTL DEF Spec

(* The state of the hosts is well formed: what runs, runs on a host that is *)
(* up and has no start under way; the cluster row holds a release.          *)
THEOREM TypeCorrect == Spec => []TypeOK
<1>1. IInv => TypeOK
  BY DEF IInv
<1> QED BY Invariance, <1>1, PTL

(* A rolling restart has at most one server down that ran when it began,    *)
(* however many hosts there are (rollingRestartExecutor).                   *)
THEOREM OneDownAtMost == Spec => []OneAtATime
<1>1. IInv => OneAtATime
  <2> SUFFICES ASSUME IInv, op.kind = "rolling" PROVE Cardinality(TakenDown) <= 1
    BY DEF OneAtATime, TakenDown
  <2>1. CASE TakenDown = {}
    BY <2>1, FS_EmptySet
  <2>2. CASE TakenDown # {}
    <3>1. PICK h : h \in TakenDown
      BY <2>2
    <3>2. TakenDown = {h}
      BY <3>1 DEF IInv, OneDown
    <3> QED BY <3>2, FS_Singleton
  <2> QED BY <2>1, <2>2
<1> QED BY Invariance, <1>1, PTL

(* An upgrade to a release that reports success leaves no server with an    *)
(* older one.                                                               *)
THEOREM UpgradesAreUniform == Spec => []UpgradeIsUniform
<1>1. IInv => UpgradeIsUniform
  BY DEF IInv
<1> QED BY Invariance, <1>1, PTL

(* A host reported as provisioned has all of the configuration, unless a    *)
(* probe failed or a source was itself half provisioned.                    *)
THEOREM ProvisionedAreWhole == Spec => []ProvisionedIsWhole
<1>1. IInv => ProvisionedIsWhole
  <2> SUFFICES ASSUME IInv, stage = "idle", result = "succeeded", op.kind = "redeploy",
                      NEW h \in op.targets
               PROVE  Whole(h) /\ Replacing(h)
    BY DEF ProvisionedIsWhole, Whole, Replacing
  <2> QED BY DEF IInv, Provisioning
<1> QED BY Invariance, <1>1, PTL

(* A cluster that was stopped stays so, but for hosts that reboot.          *)
THEOREM StopsStick == Spec => []StopSticks
<1>1. IInv => StopSticks
  BY DEF IInv, StoppedStay, StopSticks, Quiet
<1> QED BY Invariance, <1>1, PTL
=============================================================================
