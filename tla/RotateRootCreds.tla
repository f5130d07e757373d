--------------------------- MODULE RotateRootCreds ---------------------------
(***************************************************************************)
(* The rotation of a Buckit cluster's root password                        *)
(* (internal/operations/rotate_root_creds.go).                             *)
(*                                                                         *)
(* A server reads its root password from /etc/default/minio (primary) or,  *)
(* when that file points to it, from MINIO_CONFIG_ENV_FILE (second).       *)
(* systemd hands the primary file to the server when the unit starts; a    *)
(* re-exec (admin ServiceRestart) keeps that environment and reads only    *)
(* the second file again.  A file is reduced to the root password in it    *)
(* and to whether it points to the second one.                             *)
(*                                                                         *)
(* Rotations follow one another under the cluster's lock; hosts are worked *)
(* on one by one, in any order here.  Every remote command may fail, with  *)
(* or without having worked; a write that failed may leave an empty file.  *)
(***************************************************************************)
EXTENDS Naturals

CONSTANTS
  Hosts,      \* nodes of the cluster
  Passwords,  \* root passwords
  Initial,    \* the password the cluster starts with
  MaxOps,     \* bound: rotations begun
  None

\* A primary file, and what resolve finds on a host.
Texts == [pw : Passwords \cup {None}, points : BOOLEAN]
Found == [prim : Texts, sec : Passwords \cup {None}]

ASSUME RotateAssumption ==
  /\ Initial \in Passwords /\ MaxOps \in Nat
  /\ None \notin Passwords \cup Found

VARIABLES
  primary,   \* primary[h]: /etc/default/minio
  second,    \* second[h]: password in MINIO_CONFIG_ENV_FILE, None without one
  env,       \* env[h]: the primary file h's server was started with
  live,      \* live[h]: the password h's server accepts, None if it is down
  managed,   \* hosts that have the systemd unit
  stored,    \* the password in cluster_admin
  stage,     \* what the executor is doing, or "idle"
  at,        \* at[h]: h's progress in the stage
  orig,      \* orig[h]: the files read by resolve, None when h is skipped
  access,    \* rc.adminCreds, the password bm uses
  newpw,     \* params.newPassword
  canceled,  \* the run's context is canceled
  dirty,     \* an undo of the current stage failed
  result,    \* how the last rotation ended
  ops        \* rotations begun

fileVars == <<primary, second>>
serverVars == <<env, live>>
runVars == <<orig, access, newpw, ops>>
vars == <<fileVars, serverVars, managed, stored, stage, at, runVars, canceled, dirty, result>>

Primary(pw, points) == [pw |-> pw, points |-> points]
Normal == Primary(None, TRUE)    \* what normalization leaves
Empty == Primary(None, FALSE)

\* "undone": files restored; "dirty": an undo failed; "abandoned": canceled
\* between two hosts; "stuck": the rollback of the rolling restart failed.
Results == {"none", "succeeded", "refused", "undone", "dirty", "abandoned", "stuck",
            "restart_failed", "unsaved", "unhealthy", "lost"}

\* resolveCurrentRootCreds, and what a server does with its environment p.
RootPassword(p, s) == IF p.points /\ s # None THEN s ELSE p.pw

Planned == {h \in Hosts : orig[h] # None}
Need == {h \in Planned : ~orig[h].prim.points}
Current(h) == RootPassword(orig[h].prim, orig[h].sec)

Members == IF stage \in {"normalize", "reload"} THEN Need ELSE Planned

\* Mutant: the health check uses the credentials of any node.
M_Healthy(p) == \E h \in Hosts : live[h] = p

\* allOnline: the nodes find each other and bm with password p.
Healthy(p) == \A h \in Hosts : live[h] = p

-----------------------------------------------------------------------------
Init ==
  /\ primary \in [Hosts -> {Primary(Initial, FALSE), Normal}]
  /\ second = [h \in Hosts |-> IF primary[h].points THEN Initial ELSE None]
  /\ env = primary
  /\ live = [h \in Hosts |-> Initial]
  /\ managed \in SUBSET Hosts
  /\ stored = Initial
  /\ stage = "idle" /\ at = [h \in Hosts |-> "todo"]
  /\ orig = [h \in Hosts |-> None]
  /\ access = Initial /\ newpw = Initial
  /\ canceled = FALSE /\ dirty = FALSE
  /\ result = "none" /\ ops = 0

Goto(s) == stage' = s /\ at' = [h \in Hosts |-> "todo"]

End(r) ==
  /\ Goto("idle") /\ result' = r /\ canceled' = FALSE /\ dirty' = FALSE

\* Execute: validated, dispatched, and load()ed.
Begin(p) ==
  /\ stage = "idle" /\ ops < MaxOps
  /\ Goto("check")
  /\ ops' = ops + 1 /\ newpw' = p /\ access' = stored
  /\ orig' = [h \in Hosts |-> None]
  /\ result' = "none"
  /\ UNCHANGED <<fileVars, serverVars, managed, stored, canceled, dirty>>

CheckHealth ==
  /\ stage = "check" /\ ~canceled /\ Healthy(access)
  /\ Goto("resolve")
  /\ UNCHANGED <<fileVars, serverVars, managed, stored, runVars, canceled, dirty, result>>

\* Mutant: files without a root password are accepted.
M_Resolve(h) ==
  /\ stage = "resolve" /\ ~canceled /\ at[h] = "todo" /\ h \in managed
  /\ orig' = [orig EXCEPT ![h] = [prim |-> primary[h], sec |-> second[h]]]
  /\ at' = [at EXCEPT ![h] = "done"]
  /\ UNCHANGED <<fileVars, serverVars, managed, stored, stage, access, newpw, ops,
                 canceled, dirty, result>>

\* resolveRotateRootCredsTarget, after the probe for the unit.
Resolve(h) ==
  /\ stage = "resolve" /\ ~canceled /\ at[h] = "todo" /\ h \in managed
  /\ RootPassword(primary[h], second[h]) # None
  /\ orig' = [orig EXCEPT ![h] = [prim |-> primary[h], sec |-> second[h]]]
  /\ at' = [at EXCEPT ![h] = "done"]
  /\ UNCHANGED <<fileVars, serverVars, managed, stored, stage, access, newpw, ops,
                 canceled, dirty, result>>

Skip(h) ==
  /\ stage = "resolve" /\ ~canceled /\ at[h] = "todo" /\ h \notin managed
  /\ at' = [at EXCEPT ![h] = "done"]
  /\ UNCHANGED <<fileVars, serverVars, managed, stored, stage, runVars, canceled, dirty, result>>

\* Unhealthy, unreachable, unreadable: nothing was changed.
Refuse ==
  /\ stage \in {"check", "resolve"}
  /\ End("refused")
  /\ UNCHANGED <<fileVars, serverVars, managed, stored, runVars>>

Resolved ==
  /\ stage = "resolve" /\ \A h \in Hosts : at[h] = "done"
  /\ IF \A h \in Planned : Current(h) = newpw
       THEN End("refused")
       ELSE /\ Goto(IF Need # {} THEN "normalize" ELSE "write")
            /\ UNCHANGED <<canceled, dirty, result>>
  /\ UNCHANGED <<fileVars, serverVars, managed, stored, runVars>>

-----------------------------------------------------------------------------
(* applyRotateRootCredsTarget: the second file, then the primary one; for   *)
(* the normalization with the current password, for the rotation with the   *)
(* new one.                                                                 *)

Todo(h) == h \in Members /\ at[h] = "todo" /\ \A g \in Hosts : at[g] # "half"

\* Mutant: normalization writes the new password at once.
M_Password(h) == newpw

Password(h) == IF stage = "normalize" THEN Current(h) ELSE newpw

WriteSecond(h) ==
  /\ stage \in {"normalize", "write"} /\ ~canceled /\ Todo(h)
  /\ second' = [second EXCEPT ![h] = Password(h)]
  /\ at' = [at EXCEPT ![h] = "half"]
  /\ UNCHANGED <<primary, serverVars, managed, stored, stage, runVars, canceled, dirty, result>>

WritePrimary(h) ==
  /\ stage \in {"normalize", "write"} /\ ~canceled /\ at[h] = "half"
  /\ primary' = [primary EXCEPT ![h] = Normal]
  /\ at' = [at EXCEPT ![h] = "done"]
  /\ UNCHANGED <<second, serverVars, managed, stored, stage, runVars, canceled, dirty, result>>

ApplyRemains(h) ==
  IF at[h] = "half" THEN {primary[h], Normal, Empty} \X {second[h]}
                    ELSE {primary[h]} \X {second[h], Password(h), None}

SetFiles(h, r) ==
  /\ primary' = [primary EXCEPT ![h] = r[1]]
  /\ second' = [second EXCEPT ![h] = r[2]]

\* Mutant: the host whose write failed is not undone.
M_ApplyFails(h) ==
  /\ stage \in {"normalize", "write"} /\ (Todo(h) \/ at[h] = "half")
  /\ \E r \in ApplyRemains(h) : SetFiles(h, r)
  /\ stage' = IF stage = "normalize" THEN "undo_normalize" ELSE "undo_write"
  /\ at' = [at EXCEPT ![h] = "todo"]
  /\ UNCHANGED <<serverVars, managed, stored, runVars, canceled, dirty, result>>

\* Mutant: the failure is logged and the other hosts go on.
M_ApplyGoesOn(h) ==
  /\ stage \in {"normalize", "write"} /\ (Todo(h) \/ at[h] = "half")
  /\ \E r \in ApplyRemains(h) : SetFiles(h, r)
  /\ at' = [at EXCEPT ![h] = "done"]
  /\ UNCHANGED <<serverVars, managed, stored, stage, runVars, canceled, dirty, result>>

\* The host that failed is undone with those done before.
ApplyFails(h) ==
  /\ stage \in {"normalize", "write"} /\ (Todo(h) \/ at[h] = "half")
  /\ \E r \in ApplyRemains(h) : SetFiles(h, r)
  /\ stage' = IF stage = "normalize" THEN "undo_normalize" ELSE "undo_write"
  /\ at' = [at EXCEPT ![h] = "bad"]
  /\ UNCHANGED <<serverVars, managed, stored, runVars, canceled, dirty, result>>

\* ctx.Err() at the head of the loop: no undo.
Abandon ==
  /\ stage \in {"normalize", "write"} /\ canceled /\ \E h \in Hosts : Todo(h)
  /\ End("abandoned")
  /\ UNCHANGED <<fileVars, serverVars, managed, stored, runVars>>

AllDone == \A h \in Members : at[h] = "done"

Normalized ==
  /\ stage = "normalize" /\ AllDone
  /\ Goto("reload")
  /\ UNCHANGED <<fileVars, serverVars, managed, stored, runVars, canceled, dirty, result>>

-----------------------------------------------------------------------------
(* rollbackRotateRootCredTargets, and rollingRestartTargets with its own    *)
(* rollback.                                                                *)

ToUndo(h) == at[h] \in {"done", "bad"}

\* The texts a target holds: pass 2 starts from the normalized files.
Base(h) == IF stage = "undo_write" /\ h \in Need
             THEN [prim |-> Normal, sec |-> Current(h)] ELSE orig[h]

\* restoreRotateRootCredTarget: the primary file, then the second.
RestoreRemains(h) ==
  {<<primary[h], second[h]>>, <<Empty, second[h]>>, <<Base(h).prim, second[h]>>,
   <<Base(h).prim, None>>, <<Base(h).prim, Base(h).sec>>}

Undo(h) ==
  /\ stage \in {"undo_normalize", "undo_write"} /\ ~canceled /\ ToUndo(h)
  /\ SetFiles(h, <<Base(h).prim, Base(h).sec>>)
  /\ at' = [at EXCEPT ![h] = "todo"]
  /\ UNCHANGED <<serverVars, managed, stored, stage, runVars, canceled, dirty, result>>

\* Logged, and the next host is undone.
UndoFails(h) ==
  /\ stage \in {"undo_normalize", "undo_write"} /\ ToUndo(h)
  /\ \E r \in RestoreRemains(h) : SetFiles(h, r)
  /\ at' = [at EXCEPT ![h] = "todo"]
  /\ dirty' = TRUE
  /\ UNCHANGED <<serverVars, managed, stored, stage, runVars, canceled, result>>

\* Mutant: it waits until every host is undone.
M_Undone ==
  /\ stage \in {"undo_normalize", "undo_write"} /\ \A h \in Hosts : at[h] = "todo"
  /\ ~dirty
  /\ End("undone")
  /\ UNCHANGED <<fileVars, serverVars, managed, stored, runVars>>

Undone ==
  /\ stage \in {"undo_normalize", "undo_write"} /\ \A h \in Hosts : at[h] = "todo"
  /\ End(IF dirty THEN "dirty" ELSE "undone")
  /\ UNCHANGED <<fileVars, serverVars, managed, stored, runVars>>

\* systemctl restart, or a reboot.
Load(h) ==
  /\ env' = [env EXCEPT ![h] = primary[h]]
  /\ live' = [live EXCEPT ![h] = RootPassword(primary[h], second[h])]

\* The unit was restarted or not, and may not have come up.
LoadFails(h) ==
  \/ Load(h)
  \/ UNCHANGED serverVars
  \/ live' = [live EXCEPT ![h] = None] /\ env' = [env EXCEPT ![h] = primary[h]]

Reload(h) ==
  /\ stage = "reload" /\ ~canceled /\ Todo(h)
  /\ Load(h)
  /\ at' = [at EXCEPT ![h] = "done"]
  /\ UNCHANGED <<fileVars, managed, stored, stage, runVars, canceled, dirty, result>>

ReloadFails(h) ==
  /\ stage = "reload" /\ Todo(h)
  /\ LoadFails(h)
  /\ stage' = "revert"
  /\ at' = [at EXCEPT ![h] = "bad"]
  /\ UNCHANGED <<fileVars, managed, stored, runVars, canceled, dirty, result>>

Reloaded ==
  /\ stage = "reload" /\ AllDone
  /\ Goto("write")
  /\ UNCHANGED <<fileVars, serverVars, managed, stored, runVars, canceled, dirty, result>>

\* rollbackRotateRootCredTargetsWithRestart
RevertFiles(h) ==
  /\ stage = "revert" /\ ~canceled /\ ToUndo(h) /\ \A g \in Hosts : at[g] # "half"
  /\ SetFiles(h, <<orig[h].prim, orig[h].sec>>)
  /\ at' = [at EXCEPT ![h] = "half"]
  /\ UNCHANGED <<serverVars, managed, stored, stage, runVars, canceled, dirty, result>>

RevertRestart(h) ==
  /\ stage = "revert" /\ ~canceled /\ at[h] = "half"
  /\ Load(h)
  /\ at' = [at EXCEPT ![h] = "todo"]
  /\ UNCHANGED <<fileVars, managed, stored, stage, runVars, canceled, dirty, result>>

RevertFails(h) ==
  /\ stage = "revert"
  /\ \/ ToUndo(h) /\ (\E r \in RestoreRemains(h) : SetFiles(h, r)) /\ UNCHANGED serverVars
     \/ at[h] = "half" /\ LoadFails(h) /\ UNCHANGED fileVars
  /\ End("stuck")
  /\ UNCHANGED <<managed, stored, runVars>>

Reverted ==
  /\ stage = "revert" /\ \A h \in Hosts : at[h] = "todo"
  /\ End("undone")
  /\ UNCHANGED <<fileVars, serverVars, managed, stored, runVars>>

-----------------------------------------------------------------------------
Written ==
  /\ stage = "write" /\ AllDone
  /\ Goto("restart")
  /\ UNCHANGED <<fileVars, serverVars, managed, stored, runVars, canceled, dirty, result>>

Reexec(S) ==
  live' = [h \in Hosts |-> IF h \in S /\ live[h] # None
                             THEN RootPassword(env[h], second[h]) ELSE live[h]]

\* ServiceRestart is accepted; it may not reach every node.
Restart ==
  /\ stage = "restart" /\ ~canceled
  /\ \E h \in Hosts : live[h] = access
  /\ \E S \in (SUBSET Hosts) \ {{}} : Reexec(S)
  /\ Goto("persist")
  /\ UNCHANGED <<fileVars, env, managed, stored, runVars, canceled, dirty, result>>

\* The connection may drop after the request was served.
RestartFails ==
  /\ stage = "restart"
  /\ \E S \in SUBSET Hosts : Reexec(S)
  /\ End("restart_failed")
  /\ UNCHANGED <<fileVars, env, managed, stored, runVars>>

\* persistRotatedAdminCreds
Persist ==
  /\ stage = "persist" /\ ~canceled
  /\ stored' = newpw
  /\ Goto("wait")
  /\ UNCHANGED <<fileVars, serverVars, managed, runVars, canceled, dirty, result>>

\* The last attempt may still commit, see TaskManager.
PersistFails ==
  /\ stage = "persist"
  /\ stored' \in {stored, newpw}
  /\ End("unsaved")
  /\ UNCHANGED <<fileVars, serverVars, managed, runVars>>

\* waitClusterHealthy with a client for the new password.
Succeed ==
  /\ stage = "wait" /\ ~canceled /\ Healthy(newpw)
  /\ End("succeeded")
  /\ UNCHANGED <<fileVars, serverVars, managed, stored, runVars>>

WaitFails ==
  /\ stage = "wait"
  /\ End("unhealthy")
  /\ UNCHANGED <<fileVars, serverVars, managed, stored, runVars>>

-----------------------------------------------------------------------------
(* The environment.                                                         *)

Cancel ==
  /\ stage # "idle" /\ ~canceled
  /\ canceled' = TRUE
  /\ UNCHANGED <<fileVars, serverVars, managed, stored, stage, at, runVars, dirty, result>>

\* bm ends in the middle of a rotation.
Crash ==
  /\ stage # "idle"
  /\ End("lost")
  /\ UNCHANGED <<fileVars, serverVars, managed, stored, runVars>>

Reboot(h) ==
  /\ Load(h)
  /\ UNCHANGED <<fileVars, managed, stored, stage, at, runVars, canceled, dirty, result>>

\* The operator stores the password the cluster accepts (putAdminCreds).
Reconfigure(p) ==
  /\ stage = "idle" /\ Healthy(p)
  /\ stored' = p
  /\ UNCHANGED <<fileVars, serverVars, managed, stage, at, runVars, canceled, dirty, result>>

HostStep(h) ==
  \/ Resolve(h) \/ Skip(h)
  \/ WriteSecond(h) \/ WritePrimary(h) \/ ApplyFails(h)
  \/ Undo(h) \/ UndoFails(h)
  \/ Reload(h) \/ ReloadFails(h)
  \/ RevertFiles(h) \/ RevertRestart(h) \/ RevertFails(h)

Conclude ==
  \/ CheckHealth \/ Refuse \/ Resolved \/ Abandon \/ Normalized \/ Undone
  \/ Reloaded \/ Reverted \/ Written \/ Restart \/ RestartFails
  \/ Persist \/ PersistFails \/ Succeed \/ WaitFails

Next ==
  \/ \E p \in Passwords : Begin(p) \/ Reconfigure(p)
  \/ \E h \in Hosts : HostStep(h) \/ Reboot(h)
  \/ Conclude
  \/ Cancel \/ Crash

Spec == Init /\ [][Next]_vars

(* Fairness: remote commands, admin calls and health waits have deadlines,  *)
(* so every host is dealt with and the executor goes on.                    *)
FairSpec ==
  /\ Spec
  /\ \A h \in Hosts : WF_vars(HostStep(h))
  /\ WF_vars(Conclude)

-----------------------------------------------------------------------------
(* Properties.                                                              *)

TypeOK ==
  /\ primary \in [Hosts -> Texts] /\ env \in [Hosts -> Texts]
  /\ second \in [Hosts -> Passwords \cup {None}]
  /\ live \in [Hosts -> Passwords \cup {None}]
  /\ managed \subseteq Hosts
  /\ stored \in Passwords /\ access \in Passwords /\ newpw \in Passwords
  /\ stage \in {"idle", "check", "resolve", "normalize", "undo_normalize", "reload",
                "revert", "write", "undo_write", "restart", "persist", "wait"}
  /\ at \in [Hosts -> {"todo", "half", "done", "bad"}]
  /\ orig \in [Hosts -> Found \cup {None}]
  /\ \A h \in Planned : Current(h) \in Passwords
  /\ canceled \in BOOLEAN /\ dirty \in BOOLEAN
  /\ result \in Results
  /\ ops \in 0 .. MaxOps

\* After a rotation that succeeded every server accepts the new password, bm
\* has it stored, and no reboot brings the old one back (Execute waits for
\* health with the new credentials before it reports success).
SuccessIsReal ==
  stage = "idle" /\ result = "succeeded" =>
    /\ stored = newpw /\ Healthy(newpw)
    /\ \A h \in Planned : RootPassword(primary[h], second[h]) = newpw

\* While nodes are normalized and restarted the root password does not change:
\* a reboot in between, at any step, brings up the password the node had
\* (applyRotateRootCredsTarget writes the second file before the primary).
KeepsPassword ==
  stage \in {"normalize", "reload"} =>
    \A h \in Planned : RootPassword(primary[h], second[h]) = Current(h)

\* A rotation that failed while writing and reports every file reverted leaves
\* each node's password as it was, also that of the node whose write failed
\* half way and of nodes normalized before (rollbackRotateRootCredTargets).
UndoneIsUndone ==
  stage = "idle" /\ result = "undone" =>
    \A h \in Planned : RootPassword(primary[h], second[h]) = Current(h)

\* What a rotation reports is what is on every node, of success and of an undo.
ReportsAreTrue == SuccessIsReal /\ UndoneIsUndone

\* bm stores a new password only when every node it manages will start with
\* it, or already accepts it: no order of failures makes bm forget the
\* password of a cluster that still has the old one on its disks.
StoredNeverAhead ==
  [][stored' # stored =>
       \/ \A h \in Planned : RootPassword(primary[h], second[h]) = stored'
       \/ Healthy(stored')]_vars

\* Every rotation ends, whatever fails.
OperationEnds == stage # "idle" ~> stage = "idle"

\* catalog.tsx: the current password is moved into the reloadable env file on
\* each node that does not have it there, with a rolling restart, so that the
\* restart through the admin API loads the new password on every node.
RestartTakesEffect ==
  stage = "restart" => \A h \in Planned : RootPassword(env[h], second[h]) = newpw
=============================================================================
