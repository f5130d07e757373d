---------------------------- MODULE RotateProofs ----------------------------
(* Theorems about RotateRootCreds, for any hosts and passwords and any      *)
(* number of rotations.                                                     *)
EXTENDS RotateRootCreds, TLAPS

Holds(h, p, s) == primary[h] = p /\ second[h] = s
AsFound(h) == Holds(h, orig[h].prim, orig[h].sec)
AsNormalized(h) == IF h \in Need THEN Holds(h, Normal, Current(h)) ELSE AsFound(h)
AsRotated(h) == Holds(h, Normal, newpw)

(* The files of a host, by stage and by how far the host is in it.          *)
HostFiles(h) ==
  /\ stage \in {"check", "resolve"} => AsFound(h)
  /\ stage = "normalize" =>
       /\ at[h] \in {"todo", "bad"} \/ h \notin Need => AsFound(h)
       /\ at[h] = "half" => h \in Need /\ Holds(h, orig[h].prim, Current(h))
       /\ at[h] = "done" => AsNormalized(h)
  /\ stage = "undo_normalize" /\ ~dirty /\ at[h] = "todo" => AsFound(h)
  /\ stage = "reload" => AsNormalized(h)
  /\ stage = "revert" => AsNormalized(h) \/ AsFound(h)
  /\ stage = "write" =>
       /\ at[h] = "todo" => AsNormalized(h)
       /\ at[h] = "half" => second[h] = newpw
       /\ at[h] = "done" => AsRotated(h)
  /\ stage = "undo_write" /\ ~dirty /\ at[h] = "todo" => AsNormalized(h)
  /\ stage \in {"restart", "persist", "wait"} => AsRotated(h)

FilesByStage == \A h \in Planned : HostFiles(h)

(* A host that is worked on is one whose files were read.                   *)
WorkIsPlanned ==
  stage \notin {"check", "resolve"} => \A h \in Hosts : at[h] # "todo" => h \in Planned

(* Hosts without the unit are left alone: they have the first password, in  *)
(* their files, in their environment and in their server.                   *)
UnmanagedKeep ==
  /\ Planned \subseteq managed
  /\ \A h \in Hosts \ managed :
       /\ RootPassword(primary[h], second[h]) = Initial
       /\ RootPassword(env[h], second[h]) = Initial
       /\ live[h] = Initial

(* A rotation that changes something has a host to change, and changes every *)
(* one with the unit.                                                       *)
EveryHost ==
  /\ stage = "resolve" => \A h \in managed : at[h] = "done" => h \in Planned
  /\ \/ stage \notin {"idle", "check", "resolve"}
     \/ stage = "idle" /\ result = "succeeded"
     => Planned # {} /\ managed \subseteq Planned
  /\ stage = "wait" => stored = newpw

IInv ==
  /\ TypeOK /\ WorkIsPlanned /\ FilesByStage /\ UnmanagedKeep
  /\ EveryHost /\ SuccessIsReal /\ UndoneIsUndone

-----------------------------------------------------------------------------
(* Types. *)

LEMMA InitInvariant == Init => IInv
<1> SUFFICES ASSUME Init PROVE IInv
  OBVIOUS
<1> USE RotateAssumption
<1>1. Planned = {}
  BY DEF Init, Planned
<1>2. TypeOK
  <2>0. Primary(Initial, FALSE) \in Texts /\ Normal \in Texts
    BY DEF Texts, Primary, Normal
  <2>1. /\ primary \in [Hosts -> Texts] /\ env \in [Hosts -> Texts]
        /\ second \in [Hosts -> Passwords \cup {None}]
    BY <2>0 DEF Init
  <2>2. live \in [Hosts -> Passwords \cup {None}]
    BY DEF Init
  <2>3. /\ at \in [Hosts -> {"todo", "half", "done", "bad"}]
        /\ orig \in [Hosts -> Found \cup {None}]
    BY DEF Init
  <2>4. ops \in 0 .. MaxOps
    BY DEF Init
  <2> QED BY <1>1, <2>1, <2>2, <2>3, <2>4 DEF Init, TypeOK, Results
<1>3. UnmanagedKeep
  BY <1>1 DEF Init, UnmanagedKeep, RootPassword, Primary, Normal
<1> QED BY <1>1, <1>2, <1>3
        DEF Init, IInv, WorkIsPlanned, FilesByStage, EveryHost, SuccessIsReal, UndoneIsUndone

\* What a host accepts, and what it is given, are passwords.
LEMMA PasswordTypes ==
  ASSUME TypeOK
  PROVE  /\ \A h \in Hosts : RootPassword(primary[h], second[h]) \in Passwords \cup {None}
         /\ \A h \in Hosts : RootPassword(env[h], second[h]) \in Passwords \cup {None}
         /\ \A h \in Planned : Current(h) \in Passwords /\ Password(h) \in Passwords
         /\ Normal \in Texts /\ Empty \in Texts
  BY DEF TypeOK, Texts, Found, RootPassword, Password, Primary, Normal, Empty

LEMMA RemainsTypes ==
  ASSUME TypeOK, NEW h \in Hosts, h \in Planned,
         NEW r, r \in ApplyRemains(h) \/ r \in RestoreRemains(h)
  PROVE  /\ r[1] \in Texts /\ r[2] \in Passwords \cup {None}
         /\ r = <<r[1], r[2]>>
<1>1. /\ primary[h] \in Texts /\ second[h] \in Passwords \cup {None}
      /\ orig[h].prim \in Texts /\ orig[h].sec \in Passwords \cup {None}
  BY DEF TypeOK, Planned, Found
<1>2. Base(h).prim \in Texts /\ Base(h).sec \in Passwords \cup {None}
  BY <1>1, PasswordTypes DEF Base
<1> QED BY <1>1, <1>2, PasswordTypes DEF ApplyRemains, RestoreRemains

\* Files are replaced by files, and a server loads what is in them.
LEMMA SetFilesType ==
  ASSUME TypeOK, NEW h \in Hosts, NEW p \in Texts, NEW q \in Passwords \cup {None},
         SetFiles(h, <<p, q>>)
  PROVE  primary' \in [Hosts -> Texts] /\ second' \in [Hosts -> Passwords \cup {None}]
  BY DEF TypeOK, SetFiles

LEMMA LoadType ==
  ASSUME TypeOK, NEW h \in Hosts, Load(h) \/ LoadFails(h) \/ UNCHANGED serverVars
  PROVE  env' \in [Hosts -> Texts] /\ live' \in [Hosts -> Passwords \cup {None}]
  BY PasswordTypes DEF TypeOK, Load, LoadFails, serverVars

LEMMA ReexecType ==
  ASSUME TypeOK, NEW S \in SUBSET Hosts, Reexec(S)
  PROVE  live' \in [Hosts -> Passwords \cup {None}]
  BY PasswordTypes DEF TypeOK, Reexec

LEMMA OrigKept ==
  ASSUME UNCHANGED orig
  PROVE  /\ Planned' = Planned /\ Need' = Need
         /\ \A h \in Hosts : Current(h)' = Current(h)
  BY DEF Planned, Need, Current

LEMMA TypeStep == TypeOK /\ WorkIsPlanned /\ [Next]_vars => TypeOK'
<1> SUFFICES ASSUME TypeOK, WorkIsPlanned, [Next]_vars PROVE TypeOK'
  OBVIOUS
<1> DEFINE FilesOK == primary \in [Hosts -> Texts] /\ second \in [Hosts -> Passwords \cup {None}]
           ServersOK == env \in [Hosts -> Texts] /\ live \in [Hosts -> Passwords \cup {None}]
           StageOK == /\ stage \in {"idle", "check", "resolve", "normalize", "undo_normalize",
                                    "reload", "revert", "write", "undo_write", "restart",
                                    "persist", "wait"}
                      /\ at \in [Hosts -> {"todo", "half", "done", "bad"}]
                      /\ canceled \in BOOLEAN /\ dirty \in BOOLEAN /\ result \in Results
\* A step that does not begin a rotation or read a host's files.
<1>1. ASSUME FilesOK', ServersOK', StageOK', stored' \in Passwords, UNCHANGED <<managed, runVars>>
      PROVE  TypeOK'
  BY <1>1, OrigKept DEF TypeOK, runVars, Planned, Current
<1>2. FilesOK /\ ServersOK /\ StageOK /\ stored \in Passwords
  BY DEF TypeOK
<1>3. ASSUME UNCHANGED <<fileVars, serverVars>> PROVE FilesOK' /\ ServersOK'
  BY <1>2, <1>3 DEF fileVars, serverVars
<1> HIDE DEF FilesOK, ServersOK
<1>4. ASSUME NEW p \in Passwords, Begin(p) PROVE TypeOK'
  BY <1>4, RotateAssumption DEF Begin, TypeOK, Goto, fileVars, serverVars, Results, Planned
<1>5. ASSUME NEW p \in Passwords, Reconfigure(p) PROVE TypeOK'
  BY <1>1, <1>2, <1>3, <1>5 DEF Reconfigure
<1>6. ASSUME NEW h \in Hosts, Resolve(h) PROVE TypeOK'
  <2>1. [prim |-> primary[h], sec |-> second[h]] \in Found
    BY DEF TypeOK, Found
  <2>2. orig' \in [Hosts -> Found \cup {None}]
    BY <1>6, <2>1 DEF Resolve, TypeOK
  <2>3. \A g \in Hosts : g \in Planned' => Current(g)' \in Passwords
    BY <1>6, <2>2, PasswordTypes DEF Resolve, TypeOK, Planned, Current, RootPassword
  <2> QED BY <1>6, <2>2, <2>3 DEF Resolve, TypeOK, fileVars, serverVars, Planned
<1>7. ASSUME NEW h \in Hosts, Skip(h) PROVE TypeOK'
  BY <1>1, <1>2, <1>3, <1>7 DEF Skip
<1>8. ASSUME NEW h \in Hosts, WriteSecond(h) \/ WritePrimary(h) PROVE TypeOK'
  <2>1. h \in Planned
    BY <1>8 DEF WriteSecond, WritePrimary, Todo, Members, Need, WorkIsPlanned
  <2>2. FilesOK' /\ ServersOK'
    BY <1>2, <1>8, <2>1, PasswordTypes DEF WriteSecond, WritePrimary, FilesOK, ServersOK, serverVars
  <2> QED BY <1>1, <1>2, <1>8, <2>2 DEF WriteSecond, WritePrimary
<1>9. ASSUME NEW h \in Hosts, ApplyFails(h) PROVE TypeOK'
  <2>1. h \in Planned
    BY <1>9 DEF ApplyFails, Todo, Members, Need, WorkIsPlanned
  <2>2. FilesOK' /\ ServersOK'
    BY <1>2, <1>9, <2>1, RemainsTypes DEF ApplyFails, SetFiles, FilesOK, ServersOK, serverVars
  <2> QED BY <1>1, <1>2, <1>9, <2>2 DEF ApplyFails
<1>10. ASSUME NEW h \in Hosts, Undo(h) \/ UndoFails(h) PROVE TypeOK'
  <2>1. h \in Planned
    BY <1>10 DEF Undo, UndoFails, ToUndo, WorkIsPlanned
  <2>2. <<Base(h).prim, Base(h).sec>> \in RestoreRemains(h)
    BY DEF RestoreRemains
  <2>3. FilesOK' /\ ServersOK'
    BY <1>2, <1>10, <2>1, <2>2, RemainsTypes
    DEF Undo, UndoFails, SetFiles, FilesOK, ServersOK, serverVars
  <2> QED BY <1>1, <1>2, <1>10, <2>3 DEF Undo, UndoFails
<1>11. ASSUME NEW h \in Hosts, Reload(h) \/ ReloadFails(h) \/ RevertRestart(h) PROVE TypeOK'
  <2>1. FilesOK' /\ ServersOK'
    BY <1>2, <1>11, LoadType DEF Reload, ReloadFails, RevertRestart, FilesOK, ServersOK, fileVars
  <2> QED BY <1>1, <1>2, <1>11, <2>1 DEF Reload, ReloadFails, RevertRestart
<1>12. ASSUME NEW h \in Hosts, RevertFiles(h) PROVE TypeOK'
  <2>1. h \in Planned
    BY <1>12 DEF RevertFiles, ToUndo, WorkIsPlanned
  <2>2. <<orig[h].prim, orig[h].sec>> \in RestoreRemains(h)
    BY <1>12 DEF RestoreRemains, Base, RevertFiles
  <2>3. FilesOK' /\ ServersOK'
    BY <1>2, <1>12, <2>1, <2>2, RemainsTypes
    DEF RevertFiles, SetFiles, FilesOK, ServersOK, serverVars
  <2> QED BY <1>1, <1>2, <1>12, <2>3 DEF RevertFiles
<1>13. ASSUME NEW h \in Hosts, RevertFails(h) PROVE TypeOK'
  <2>1. h \in Planned
    BY <1>13 DEF RevertFails, ToUndo, WorkIsPlanned
  <2>2. ASSUME NEW r \in RestoreRemains(h), SetFiles(h, r), UNCHANGED serverVars
        PROVE  FilesOK' /\ ServersOK'
    BY <1>2, <2>1, <2>2, RemainsTypes DEF SetFiles, FilesOK, ServersOK, serverVars
  <2>3. ASSUME LoadFails(h), UNCHANGED fileVars PROVE FilesOK' /\ ServersOK'
    BY <1>2, <2>3, LoadType DEF FilesOK, ServersOK, fileVars
  <2>4. FilesOK' /\ ServersOK'
    BY <1>13, <2>2, <2>3 DEF RevertFails
  <2> QED BY <1>1, <1>2, <1>13, <2>4 DEF RevertFails, End, Goto, Results
<1>14. ASSUME Restart \/ RestartFails PROVE TypeOK'
  <2>1. FilesOK' /\ ServersOK'
    BY <1>2, <1>14, ReexecType DEF Restart, RestartFails, FilesOK, ServersOK, fileVars
  <2> QED BY <1>1, <1>2, <1>14, <2>1 DEF Restart, RestartFails, End, Goto, Results
<1>15. ASSUME Conclude, ~Restart, ~RestartFails PROVE TypeOK'
  <2>1. stored' \in Passwords
    BY <1>15 DEF TypeOK, Conclude, CheckHealth, Refuse, Resolved, Abandon, Normalized, Undone,
                 Reloaded, Reverted, Written, Persist, PersistFails, Succeed, WaitFails
  <2>2. UNCHANGED <<fileVars, serverVars, managed, runVars>>
    BY <1>15 DEF Conclude, CheckHealth, Refuse, Resolved, Abandon, Normalized, Undone,
                 Reloaded, Reverted, Written, Persist, PersistFails, Succeed, WaitFails
  <2>3. StageOK'
    BY <1>2, <1>15 DEF Conclude, CheckHealth, Refuse, Resolved, Abandon, Normalized, Undone,
                 Reloaded, Reverted, Written, Persist, PersistFails, Succeed, WaitFails,
                 End, Goto, Results
  <2> QED BY <1>1, <1>3, <2>1, <2>2, <2>3
<1>16. ASSUME Cancel \/ Crash PROVE TypeOK'
  BY <1>1, <1>2, <1>3, <1>16 DEF Cancel, Crash, End, Goto, Results
<1>17. ASSUME NEW h \in Hosts, Reboot(h) PROVE TypeOK'
  <2>1. FilesOK' /\ ServersOK'
    BY <1>2, <1>17, LoadType DEF Reboot, FilesOK, ServersOK, fileVars
  <2> QED BY <1>1, <1>2, <1>17, <2>1 DEF Reboot
<1>18. ASSUME UNCHANGED vars PROVE TypeOK'
  BY <1>1, <1>2, <1>3, <1>18 DEF vars, runVars
<1> QED BY <1>4, <1>5, <1>6, <1>7, <1>8, <1>9, <1>10, <1>11, <1>12, <1>13, <1>14, <1>15,
           <1>16, <1>17, <1>18 DEF Next, HostStep

-----------------------------------------------------------------------------
(* The parts of the invariant. *)

LEMMA WorkStep == TypeOK /\ WorkIsPlanned /\ [Next]_vars => WorkIsPlanned'
<1> SUFFICES ASSUME TypeOK, WorkIsPlanned, [Next]_vars PROVE WorkIsPlanned'
  OBVIOUS
<1> USE DEF WorkIsPlanned, TypeOK, Goto, End, runVars
<1>1. ASSUME NEW p \in Passwords, Begin(p) \/ Reconfigure(p) PROVE WorkIsPlanned'
  BY <1>1, OrigKept DEF Begin, Reconfigure
<1>2. ASSUME NEW h \in Hosts, Resolve(h) \/ Skip(h) PROVE WorkIsPlanned'
  BY <1>2 DEF Resolve, Skip
<1>3. ASSUME NEW h \in Hosts, HostStep(h), ~Resolve(h), ~Skip(h) PROVE WorkIsPlanned'
  <2>1. UNCHANGED orig
    BY <1>3 DEF HostStep, WriteSecond, WritePrimary, ApplyFails, Undo, UndoFails, Reload,
                ReloadFails, RevertFiles, RevertRestart, RevertFails
  <2> QED BY <1>3, <2>1, OrigKept
      DEF HostStep, WriteSecond, WritePrimary, ApplyFails, Undo, UndoFails, Reload, ReloadFails,
          RevertFiles, RevertRestart, RevertFails, Todo, ToUndo, Members, Need
<1>4. ASSUME NEW h \in Hosts, Reboot(h) PROVE WorkIsPlanned'
  BY <1>4, OrigKept DEF Reboot
<1>5. ASSUME Conclude PROVE WorkIsPlanned'
  BY <1>5 DEF Conclude, CheckHealth, Refuse, Resolved, Abandon, Normalized, Undone, Reloaded,
              Reverted, Written, Restart, RestartFails, Persist, PersistFails, Succeed, WaitFails
<1>6. ASSUME Cancel \/ Crash \/ UNCHANGED vars PROVE WorkIsPlanned'
  BY <1>6, OrigKept DEF Cancel, Crash, vars
<1> QED BY <1>1, <1>2, <1>3, <1>4, <1>5, <1>6 DEF Next

LEMMA UnmanagedStep ==
  TypeOK /\ WorkIsPlanned /\ UnmanagedKeep /\ [Next]_vars => UnmanagedKeep'
<1> SUFFICES ASSUME TypeOK, WorkIsPlanned, UnmanagedKeep, [Next]_vars PROVE UnmanagedKeep'
  OBVIOUS
<1> USE DEF UnmanagedKeep, TypeOK, Goto, End, runVars, fileVars, serverVars
<1>1. ASSUME NEW p \in Passwords, Begin(p) \/ Reconfigure(p) PROVE UnmanagedKeep'
  BY <1>1, OrigKept DEF Begin, Reconfigure, Planned
<1>2. ASSUME NEW h \in Hosts, Resolve(h) \/ Skip(h) PROVE UnmanagedKeep'
  BY <1>2, OrigKept DEF Resolve, Skip, Planned
<1>3. ASSUME NEW h \in Hosts, HostStep(h), ~Resolve(h), ~Skip(h) PROVE UnmanagedKeep'
  <2>1. UNCHANGED orig /\ UNCHANGED managed
    BY <1>3 DEF HostStep, WriteSecond, WritePrimary, ApplyFails, Undo, UndoFails, Reload,
                ReloadFails, RevertFiles, RevertRestart, RevertFails
  <2>2. h \in Planned
    BY <1>3 DEF HostStep, WriteSecond, WritePrimary, ApplyFails, Undo, UndoFails, Reload,
                ReloadFails, RevertFiles, RevertRestart, RevertFails, Todo, ToUndo, Members, Need,
                WorkIsPlanned
  <2>3. \A g \in Hosts \ {h} : UNCHANGED <<primary[g], second[g], env[g], live[g]>>
    BY <1>3 DEF HostStep, WriteSecond, WritePrimary, ApplyFails, Undo, UndoFails, Reload,
                ReloadFails, RevertFiles, RevertRestart, RevertFails, SetFiles, Load, LoadFails
  <2> QED BY <2>1, <2>2, <2>3, OrigKept
<1>4. ASSUME NEW h \in Hosts, Reboot(h) PROVE UnmanagedKeep'
  BY <1>4, OrigKept DEF Reboot, Load
<1>5. ASSUME Conclude PROVE UnmanagedKeep'
  <2>1. UNCHANGED <<orig, managed, primary, second, env>>
    BY <1>5 DEF Conclude, CheckHealth, Refuse, Resolved, Abandon, Normalized, Undone, Reloaded,
                Reverted, Written, Restart, RestartFails, Persist, PersistFails, Succeed, WaitFails
  <2>2. UNCHANGED live \/ \E S \in SUBSET Hosts : Reexec(S)
    BY <1>5 DEF Conclude, CheckHealth, Refuse, Resolved, Abandon, Normalized, Undone, Reloaded,
                Reverted, Written, Restart, RestartFails, Persist, PersistFails, Succeed, WaitFails
  <2> QED BY <2>1, <2>2, OrigKept DEF Reexec
<1>6. ASSUME Cancel \/ Crash \/ UNCHANGED vars PROVE UnmanagedKeep'
  BY <1>6, OrigKept DEF Cancel, Crash, vars
<1> QED BY <1>1, <1>2, <1>3, <1>4, <1>5, <1>6 DEF Next

\* The parts of a host whose files are not touched.
LEMMA PartsKept ==
  ASSUME UNCHANGED <<orig, newpw>>, NEW h \in Hosts, UNCHANGED <<primary[h], second[h]>>
  PROVE  /\ AsFound(h)' <=> AsFound(h)
         /\ AsNormalized(h)' <=> AsNormalized(h)
         /\ AsRotated(h)' <=> AsRotated(h)
         /\ Holds(h, orig[h].prim, Current(h))' <=> Holds(h, orig[h].prim, Current(h))
  BY OrigKept DEF AsFound, AsNormalized, AsRotated, Holds, Normal

\* A host that is not worked on, in a stage that goes on, keeps its part.
LEMMA OthersKept ==
  ASSUME FilesByStage, UNCHANGED <<orig, newpw>>, NEW g \in Hosts, g \in Planned,
         UNCHANGED <<primary[g], second[g], at[g], stage>>, dirty => dirty'
  PROVE  HostFiles(g)'
<1>1. HostFiles(g)
  BY DEF FilesByStage
<1> QED BY <1>1, PartsKept, OrigKept DEF HostFiles

LEMMA FilesStep == TypeOK /\ WorkIsPlanned /\ FilesByStage /\ [Next]_vars => FilesByStage'
<1> SUFFICES ASSUME TypeOK, WorkIsPlanned, FilesByStage, [Next]_vars PROVE FilesByStage'
  OBVIOUS
<1> USE DEF TypeOK, Goto, End, runVars, fileVars, serverVars
<1>0. ASSUME UNCHANGED orig, \A g \in Planned : HostFiles(g)' PROVE FilesByStage'
  BY <1>0, OrigKept DEF FilesByStage
<1>e. ASSUME stage' = "idle" PROVE FilesByStage'
  BY <1>e DEF FilesByStage, HostFiles
<1>h. \A g \in Planned : g \in Hosts /\ HostFiles(g)
  BY DEF FilesByStage, Planned
<1>1. ASSUME NEW p \in Passwords, Begin(p) PROVE FilesByStage'
  BY <1>1 DEF Begin, Planned, FilesByStage
<1>2. ASSUME NEW p \in Passwords, Reconfigure(p) PROVE FilesByStage'
  BY <1>e, <1>2 DEF Reconfigure
<1>3. ASSUME NEW h \in Hosts, Resolve(h) PROVE FilesByStage'
  BY <1>3 DEF Resolve, Planned, AsFound, Holds, FilesByStage, HostFiles
<1>4. ASSUME NEW h \in Hosts, Skip(h) PROVE FilesByStage'
  BY <1>0, <1>h, <1>4, PartsKept DEF Skip, HostFiles
<1>6. ASSUME NEW h \in Hosts, WriteSecond(h) PROVE FilesByStage'
  <2>1. \A g \in Planned \ {h} : HostFiles(g)'
    BY <1>6, OthersKept, <1>h DEF WriteSecond
  <2>2. CASE stage = "normalize"
    <3>1. h \in Need /\ AsFound(h)
      BY <1>6, <1>h, <2>2 DEF WriteSecond, Todo, Members, HostFiles, Need
    <3>2. h \in Need' /\ Holds(h, orig[h].prim, Current(h))'
      BY <1>6, <2>2, <3>1, OrigKept DEF WriteSecond, AsFound, Holds, Password
    <3>3. HostFiles(h)'
      BY <1>6, <2>2, <3>2 DEF WriteSecond, HostFiles
    <3> QED BY <1>0, <1>6, <2>1, <3>3 DEF WriteSecond
  <2>3. CASE stage = "write"
    <3>1. HostFiles(h)'
      BY <1>6, <2>3 DEF WriteSecond, HostFiles, Password
    <3> QED BY <1>0, <1>6, <2>1, <3>1 DEF WriteSecond
  <2> QED BY <1>6, <2>2, <2>3 DEF WriteSecond
<1>7. ASSUME NEW h \in Hosts, WritePrimary(h) PROVE FilesByStage'
  <2>1. \A g \in Planned \ {h} : HostFiles(g)'
    BY <1>7, OthersKept, <1>h DEF WritePrimary
  <2>2. h \in Planned /\ HostFiles(h)
    BY <1>7, <1>h DEF WritePrimary, WorkIsPlanned
  <2>3. stage = "normalize" => AsNormalized(h)' /\ h \in Need'
    BY <1>7, <2>2, OrigKept DEF WritePrimary, HostFiles, AsNormalized, Holds, Normal
  <2>4. stage = "write" => AsRotated(h)'
    BY <1>7, <2>2 DEF WritePrimary, HostFiles, AsRotated, Holds, Normal
  <2>5. HostFiles(h)'
    BY <1>7, <2>3, <2>4 DEF WritePrimary, HostFiles
  <2> QED BY <1>0, <1>7, <2>1, <2>5 DEF WritePrimary
<1>8. ASSUME NEW h \in Hosts, ApplyFails(h) PROVE FilesByStage'
  <2>1. ASSUME NEW g \in Planned, g # h PROVE HostFiles(g)'
    <3>1. UNCHANGED <<primary[g], second[g], at[g], orig, newpw>>
      BY <1>8, <1>h, <2>1 DEF ApplyFails, SetFiles
    <3> QED BY <1>8, <1>h, <3>1, PartsKept DEF ApplyFails, HostFiles
  <2>2. HostFiles(h)'
    BY <1>8 DEF ApplyFails, HostFiles
  <2> QED BY <1>0, <1>8, <2>1, <2>2 DEF ApplyFails
<1>9. ASSUME NEW h \in Hosts, Undo(h) PROVE FilesByStage'
  <2>1. \A g \in Planned \ {h} : HostFiles(g)'
    BY <1>9, OthersKept, <1>h DEF Undo, SetFiles
  <2>2. stage = "undo_normalize" => AsFound(h)'
    BY <1>9 DEF Undo, SetFiles, Base, AsFound, Holds
  <2>3. stage = "undo_write" => AsNormalized(h)'
    BY <1>9, OrigKept DEF Undo, SetFiles, Base, AsNormalized, AsFound, Holds, Normal
  <2>4. HostFiles(h)'
    BY <1>9, <2>2, <2>3 DEF Undo, HostFiles
  <2> QED BY <1>0, <1>9, <2>1, <2>4 DEF Undo
<1>10. ASSUME NEW h \in Hosts, UndoFails(h) PROVE FilesByStage'
  BY <1>10 DEF UndoFails, FilesByStage, HostFiles
<1>11. ASSUME NEW h \in Hosts, Reload(h) \/ ReloadFails(h) \/ RevertRestart(h) PROVE FilesByStage'
  BY <1>0, <1>h, <1>11, PartsKept DEF Reload, ReloadFails, RevertRestart, HostFiles
<1>12. ASSUME NEW h \in Hosts, RevertFiles(h) PROVE FilesByStage'
  <2>1. \A g \in Planned \ {h} : HostFiles(g)'
    BY <1>12, OthersKept, <1>h DEF RevertFiles, SetFiles
  <2>2. AsFound(h)'
    BY <1>12 DEF RevertFiles, SetFiles, AsFound, Holds
  <2>3. HostFiles(h)'
    BY <1>12, <2>2 DEF RevertFiles, HostFiles
  <2> QED BY <1>0, <1>12, <2>1, <2>3 DEF RevertFiles
<1>13. ASSUME NEW h \in Hosts, RevertFails(h) PROVE FilesByStage'
  BY <1>e, <1>13 DEF RevertFails
<1>14. ASSUME NEW h \in Hosts, Reboot(h) PROVE FilesByStage'
  BY <1>0, <1>h, <1>14, OthersKept DEF Reboot
<1>15. ASSUME Conclude PROVE FilesByStage'
  <2>1. UNCHANGED <<primary, second, orig, newpw>>
    BY <1>15 DEF Conclude, CheckHealth, Refuse, Resolved, Abandon, Normalized, Undone, Reloaded,
                 Reverted, Written, Restart, RestartFails, Persist, PersistFails, Succeed, WaitFails
  <2>2. ASSUME CheckHealth PROVE FilesByStage'
    BY <1>0, <1>h, <2>1, <2>2, PartsKept DEF CheckHealth, HostFiles
  <2>3. ASSUME Resolved PROVE FilesByStage'
    BY <1>0, <1>e, <1>h, <2>1, <2>3, PartsKept DEF Resolved, AsNormalized, HostFiles
  <2>4. ASSUME Normalized PROVE FilesByStage'
    BY <1>0, <1>h, <2>1, <2>4, PartsKept
    DEF Normalized, AllDone, Members, AsNormalized, HostFiles, Need
  <2>5. ASSUME Reloaded PROVE FilesByStage'
    BY <1>0, <1>h, <2>1, <2>5, PartsKept DEF Reloaded, HostFiles
  <2>6. ASSUME Written PROVE FilesByStage'
    BY <1>0, <1>h, <2>1, <2>6, PartsKept DEF Written, AllDone, Members, HostFiles
  <2>7. ASSUME Restart \/ Persist PROVE FilesByStage'
    BY <1>0, <1>h, <2>1, <2>7, PartsKept DEF Restart, Persist, HostFiles
  <2>8. ASSUME \/ Refuse \/ Abandon \/ Undone \/ Reverted
               \/ RestartFails \/ PersistFails \/ Succeed \/ WaitFails
        PROVE  FilesByStage'
    BY <1>e, <2>8
    DEF Refuse, Abandon, Undone, Reverted, RestartFails, PersistFails, Succeed, WaitFails
  <2> QED BY <1>15, <2>2, <2>3, <2>4, <2>5, <2>6, <2>7, <2>8 DEF Conclude
<1>16. ASSUME Cancel \/ Crash \/ UNCHANGED vars PROVE FilesByStage'
  <2>1. CASE Crash
    BY <1>e, <2>1 DEF Crash
  <2>2. CASE Cancel \/ UNCHANGED vars
    BY <1>0, <1>h, <2>2, OthersKept DEF Cancel, vars
  <2> QED BY <1>16, <2>1, <2>2
<1> QED BY <1>1, <1>2, <1>3, <1>4, <1>6, <1>7, <1>8, <1>9, <1>10, <1>11, <1>12, <1>13, <1>14,
           <1>15, <1>16 DEF Next, HostStep

\* The password a host will start with, by what its files are.
LEMMA PasswordOfFiles ==
  ASSUME TypeOK, NEW h \in Hosts, h \in Planned
  PROVE  /\ AsFound(h) \/ AsNormalized(h) => RootPassword(primary[h], second[h]) = Current(h)
         /\ AsRotated(h) => RootPassword(primary[h], second[h]) = newpw
<1>1. Current(h) # None /\ newpw # None
  BY RotateAssumption DEF TypeOK
<1> QED BY <1>1 DEF AsFound, AsNormalized, AsRotated, Holds, Normal, Primary, RootPassword, Current

LEMMA EveryHostStep == TypeOK /\ EveryHost /\ [Next]_vars => EveryHost'
<1> SUFFICES ASSUME TypeOK, EveryHost, [Next]_vars PROVE EveryHost'
  OBVIOUS
<1> USE DEF EveryHost, Goto, End, runVars
<1>1. ASSUME NEW p \in Passwords, Begin(p) \/ Reconfigure(p) PROVE EveryHost'
  BY <1>1, OrigKept DEF Begin, Reconfigure
<1>2. ASSUME NEW h \in Hosts, HostStep(h) \/ Reboot(h) PROVE EveryHost'
  <2>1. CASE Resolve(h)
    <3>1. [prim |-> primary[h], sec |-> second[h]] # None
      BY RotateAssumption DEF TypeOK, Found
    <3> QED BY <2>1, <3>1 DEF Resolve, TypeOK, Planned
  <2>2. CASE Skip(h)
    BY <2>2, OrigKept DEF Skip, TypeOK
  <2> QED BY <1>2, <2>1, <2>2, OrigKept
      DEF HostStep, WriteSecond, WritePrimary, ApplyFails, Undo, UndoFails, Reload,
          ReloadFails, RevertFiles, RevertRestart, RevertFails, Reboot
<1>3. ASSUME Conclude PROVE EveryHost'
  <2>1. /\ UNCHANGED <<orig, newpw, managed>> /\ Planned' = Planned
    BY <1>3, OrigKept
    DEF Conclude, CheckHealth, Refuse, Resolved, Abandon, Normalized, Undone, Reloaded, Reverted,
        Written, Restart, RestartFails, Persist, PersistFails, Succeed, WaitFails
  <2>2. CASE Resolved
    BY <2>1, <2>2 DEF Resolved, TypeOK
  <2>3. CASE Refuse \/ Abandon \/ Undone \/ Reverted \/ RestartFails \/ PersistFails \/ WaitFails
    BY <2>3 DEF Refuse, Abandon, Undone, Reverted, RestartFails, PersistFails, WaitFails
  <2>4. CASE CheckHealth \/ Normalized \/ Reloaded \/ Written \/ Restart \/ Persist
    BY <2>1, <2>4 DEF TypeOK, CheckHealth, Normalized, Reloaded, Written, Restart, Persist
  <2>5. CASE Succeed
    BY <2>1, <2>5 DEF Succeed
  <2> QED BY <1>3, <2>2, <2>3, <2>4, <2>5 DEF Conclude
<1>4. ASSUME Cancel \/ Crash \/ UNCHANGED vars PROVE EveryHost'
  BY <1>4, OrigKept DEF Cancel, Crash, vars
<1> QED BY <1>1, <1>2, <1>3, <1>4 DEF Next

\* What keeps an outcome of the last rotation: between two rotations hosts
\* reboot and the operator stores a password that every server accepts.
LEMMA IdleSteps ==
  ASSUME [Next]_vars, stage = "idle", stage' = "idle"
  PROVE  /\ UNCHANGED <<fileVars, managed, runVars, result>>
         /\ \/ UNCHANGED <<serverVars, stored>>
            \/ UNCHANGED stored /\ \E h \in Hosts : Load(h)
            \/ UNCHANGED serverVars /\ \E p \in Passwords : Healthy(p) /\ stored' = p
  BY DEF Next, Begin, Reconfigure, HostStep, Resolve, Skip, WriteSecond, WritePrimary,
         ApplyFails, Undo, UndoFails, Reload, ReloadFails, RevertFiles, RevertRestart,
         RevertFails, Reboot, Conclude, CheckHealth, Refuse, Resolved, Abandon, Normalized,
         Undone, Reloaded, Reverted, Written, Restart, RestartFails, Persist, PersistFails,
         Succeed, WaitFails, Cancel, Crash, vars, runVars, Goto

LEMMA SuccessStep == IInv /\ [Next]_vars => SuccessIsReal'
<1> SUFFICES ASSUME IInv, [Next]_vars, stage' = "idle", result' = "succeeded"
             PROVE  /\ stored' = newpw' /\ \A h \in Hosts : live'[h] = newpw'
                    /\ \A h \in Planned' : RootPassword(primary'[h], second'[h]) = newpw'
  BY DEF SuccessIsReal, Healthy, RootPassword
<1> USE DEF IInv, TypeOK, Goto, End, runVars, fileVars, serverVars
\* Already there: a reboot loads the new password, or the only one there is;
\* what is stored then is what every server accepts.
<1>1. CASE stage = "idle"
  <2>1. UNCHANGED <<primary, second, managed, orig, newpw, result>>
    BY <1>1, IdleSteps
  <2>2. /\ stored = newpw /\ Planned # {} /\ managed \subseteq Planned
        /\ \A h \in Hosts : live[h] = newpw
        /\ \A h \in Planned : RootPassword(primary[h], second[h]) = newpw
    BY <1>1, <2>1 DEF SuccessIsReal, EveryHost, Healthy
  <2>3. \A h \in Hosts : RootPassword(primary[h], second[h]) = newpw
    BY <2>2 DEF UnmanagedKeep
  <2>4. ASSUME NEW p \in Passwords, Healthy(p) PROVE p = newpw
    BY <2>2, <2>4 DEF Healthy, Planned
  <2>5. stored' = newpw
    BY <1>1, <2>2, <2>4, IdleSteps
  <2>6. \A h \in Hosts : live'[h] = newpw
    BY <1>1, <2>2, <2>3, IdleSteps DEF Load
  <2> QED BY <2>1, <2>2, <2>5, <2>6, OrigKept
<1>2. CASE stage # "idle"
  <2>1. Succeed
    BY <1>2 DEF Next, Begin, Reconfigure, HostStep, Resolve, Skip, WriteSecond, WritePrimary,
                ApplyFails, Undo, UndoFails, Reload, ReloadFails, RevertFiles, RevertRestart,
                RevertFails, Reboot, Conclude, CheckHealth, Refuse, Resolved, Abandon,
                Normalized, Undone, Reloaded, Reverted, Written, Restart, RestartFails, Persist,
                PersistFails, WaitFails, Cancel, Crash, vars
  <2>2. \A h \in Planned : RootPassword(primary[h], second[h]) = newpw
    BY <2>1, PasswordOfFiles DEF Succeed, FilesByStage, HostFiles, Planned
  <2> QED BY <2>1, <2>2, OrigKept DEF Succeed, EveryHost, Healthy
<1> QED BY <1>1, <1>2

LEMMA UndoneStep == IInv /\ [Next]_vars => UndoneIsUndone'
<1> SUFFICES ASSUME IInv, [Next]_vars, stage' = "idle", result' = "undone"
             PROVE  \A h \in Planned' : RootPassword(primary'[h], second'[h]) = Current(h)'
  BY DEF UndoneIsUndone, RootPassword
<1> USE DEF IInv, TypeOK, Goto, End, runVars, fileVars, serverVars
<1>1. CASE stage = "idle"
  <2>1. UNCHANGED <<primary, second, orig, result>>
    BY <1>1, IdleSteps
  <2> QED BY <1>1, <2>1, OrigKept DEF UndoneIsUndone, Planned
<1>2. CASE stage # "idle"
  <2>1. (Undone /\ ~dirty) \/ Reverted
    BY <1>2 DEF Next, Begin, Reconfigure, HostStep, Resolve, Skip, WriteSecond, WritePrimary,
                ApplyFails, Undo, UndoFails, Reload, ReloadFails, RevertFiles, RevertRestart,
                RevertFails, Reboot, Conclude, CheckHealth, Refuse, Resolved, Abandon,
                Normalized, Undone, Reloaded, Written, Restart, RestartFails, Persist, Succeed,
                PersistFails, WaitFails, Cancel, Crash, vars
  <2>2. UNCHANGED <<primary, second, orig>>
    BY <2>1 DEF Undone, Reverted
  <2>3. \A h \in Planned : AsFound(h) \/ AsNormalized(h)
    BY <2>1 DEF Undone, Reverted, FilesByStage, HostFiles, Planned
  <2> QED BY <2>2, <2>3, PasswordOfFiles, OrigKept DEF Planned
<1> QED BY <1>1, <1>2

-----------------------------------------------------------------------------
(* The inductive invariant: what the files of every host hold in each stage *)
(* (rotate_root_creds.go, Execute and the functions it calls).              *)
THEOREM Invariance == Spec => []IInv
<1>1. IInv /\ [Next]_vars => IInv'
  BY TypeStep, WorkStep, FilesStep, UnmanagedStep, EveryHostStep, SuccessStep, UndoneStep DEF IInv
<1> QED BY InitInvariant, <1>1, PTL DEF Spec

(* Type correctness. *)
THEOREM TypeCorrect == Spec => []TypeOK
<1>1. IInv => TypeOK
  BY DEF IInv
<1> QED BY <1>1, Invariance, PTL

(* A rotation that succeeded changed the password of every server, in its   *)
(* files and in bm's store; one that reports its files reverted changed no  *)
(* password (Execute, rollbackRotateRootCredTargets).                       *)
THEOREM TrueReports == Spec => []ReportsAreTrue
<1>1. IInv => ReportsAreTrue
  BY DEF IInv, ReportsAreTrue
<1> QED BY <1>1, Invariance, PTL

(* While nodes are normalized and restarted, a reboot at any step brings up *)
(* the password the node had (applyRotateRootCredsTarget).                  *)
THEOREM PasswordKept == Spec => []KeepsPassword
<1>1. IInv => KeepsPassword
  <2> SUFFICES ASSUME IInv, stage \in {"normalize", "reload"}, NEW h \in Planned
               PROVE  RootPassword(primary[h], second[h]) = Current(h)
    BY DEF KeepsPassword
  <2>1. h \in Hosts /\ TypeOK /\ HostFiles(h)
    BY DEF IInv, FilesByStage, Planned
  <2>2. CASE at[h] = "half" /\ stage = "normalize"
    BY <2>1, <2>2 DEF HostFiles, Holds, RootPassword, Current, Need
  <2> QED BY <2>1, <2>2, PasswordOfFiles DEF HostFiles, TypeOK
<1> QED BY <1>1, Invariance, PTL

(* bm stores a new password only when every node it manages will start with *)
(* it, or already accepts it (persistRotatedAdminCreds, putAdminCreds).     *)
THEOREM NeverAhead == Spec => StoredNeverAhead
<1> DEFINE Safe == \/ \A h \in Planned : RootPassword(primary[h], second[h]) = stored'
                   \/ Healthy(stored')
<1>1. IInv /\ [Next]_vars => [stored' # stored => Safe]_vars
  <2> SUFFICES ASSUME IInv, Next, stored' # stored PROVE Safe
    BY DEF vars
  <2>1. ASSUME NEW p \in Passwords, Reconfigure(p) PROVE Safe
    BY <2>1 DEF Reconfigure, Healthy
  <2>2. ASSUME Persist \/ PersistFails PROVE Safe
    <3>1. stage = "persist" /\ stored' = newpw
      BY <2>2 DEF Persist, PersistFails
    <3> QED BY <3>1, PasswordOfFiles DEF IInv, FilesByStage, HostFiles, Planned
  <2>3. Persist \/ PersistFails \/ \E p \in Passwords : Reconfigure(p)
    BY DEF Next, Begin, HostStep, Resolve, Skip, WriteSecond, WritePrimary, ApplyFails, Undo,
           UndoFails, Reload, ReloadFails, RevertFiles, RevertRestart, RevertFails, Reboot,
           Conclude, CheckHealth, Refuse, Resolved, Abandon, Normalized, Undone, Reloaded,
           Reverted, Written, Restart, RestartFails, Succeed, WaitFails, Cancel, Crash
  <2> QED BY <2>1, <2>2, <2>3
<1> QED BY <1>1, Invariance, PTL DEF Spec, StoredNeverAhead
=============================================================================
