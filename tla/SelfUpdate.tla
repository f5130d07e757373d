----------------------------- MODULE SelfUpdate -----------------------------
(***************************************************************************)
(* The manager's update of itself (internal/update): a pointer names the   *)
(* latest release and its checksum; an update asks for the pointer twice,  *)
(* downloads the binary, then its signature, and puts it in the place of   *)
(* the program's file, which the next start runs.  Requests are not        *)
(* serialised.                                                             *)
(*                                                                         *)
(* A build is a tag and how many times it was uploaded.  A tag has a time, *)
(* and is stable, or has a suffix: of a hotfix, or of a build from git,    *)
(* which is never released.  The pointer moves forward.                    *)
(***************************************************************************)
EXTENDS Naturals, FiniteSets

CONSTANTS
  Updates,       \* update requests in flight at once
  ReleaseTags,   \* the manager's own releases: time, kind and suffix
  InitialTags,   \* what may be running at first, builds from git included
  MaxRebuilds,   \* uploads of one release (bound)
  NoRelease

ASSUME SelfUpdateAssumption ==
  /\ MaxRebuilds \in Nat \ {0}
  /\ \A t \in ReleaseTags : t.time \in Nat /\ t.kind \in {"stable", "hotfix"} /\ t.suffix \in Nat
  /\ \A t \in InitialTags : t.time \in Nat /\ t.suffix \in Nat

\* compareReleaseTags(a, b) > 0: the later; at one time, the stable one, but for a
\* build from git, which is as good; of two with suffixes, the greater suffix.
Newer(a, b) ==
  \/ a.time > b.time
  \/ /\ a.time = b.time
     /\ \/ a.kind = "stable" /\ b.kind = "hotfix"
        \/ a.kind # "stable" /\ b.kind # "stable" /\ a.suffix > b.suffix

VARIABLES
  uploaded,  \* uploads of each release, 0: none
  signed,    \* the upload its signature belongs to, 0: none
  pointer,   \* the build the pointer names, with its checksum
  exe,       \* the build in the program's file
  running,   \* the tag of the program that runs
  update     \* each request

updateVars == <<uploaded, signed, pointer, exe, running, update>>

NoUpdate == [at |-> "idle", seen |-> NoRelease, release |-> NoRelease, body |-> NoRelease]

UpdateInit ==
  /\ \E t \in ReleaseTags :
       /\ uploaded = [x \in ReleaseTags |-> IF x = t THEN 1 ELSE 0]
       /\ pointer = [tag |-> t, upload |-> 1]
  /\ signed = uploaded
  /\ \E t \in InitialTags : exe = [tag |-> t, upload |-> 0] /\ running = t
  /\ update = [u \in Updates |-> NoUpdate]

UploadRelease(t) ==
  /\ uploaded[t] < MaxRebuilds
  /\ uploaded' = [uploaded EXCEPT ![t] = @ + 1]
  /\ UNCHANGED <<signed, pointer, exe, running, update>>

SignRelease(t) ==
  /\ signed[t] < uploaded[t]
  /\ signed' = [signed EXCEPT ![t] = uploaded[t]]
  /\ UNCHANGED <<uploaded, pointer, exe, running, update>>

MovePointer(t) ==
  /\ t = pointer.tag \/ Newer(t, pointer.tag)
  /\ uploaded[t] > 0
  /\ pointer' = [tag |-> t, upload |-> uploaded[t]]
  /\ UNCHANGED <<uploaded, signed, exe, running, update>>

Moves(u, from, to) == update[u].at = from /\ update' = [update EXCEPT ![u].at = to]

\* The version found in the file: the running one when it is there, else the first.
InstalledVersion == exe.tag

\* Check: the file is read, then the pointer.
ReadInstalled(u) ==
  /\ update[u].at \in {"idle", "upToDate", "restart", "applied", "error"}
  /\ update' = [update EXCEPT ![u] = [NoUpdate EXCEPT !.at = "check", !.seen = InstalledVersion]]
  /\ UNCHANGED <<uploaded, signed, pointer, exe, running>>

\* Apply's decisions: nothing newer (and perhaps a restart to make), or go on.
Decide(u) ==
  /\ \/ Moves(u, "check", IF Newer(pointer.tag, update[u].seen) THEN "refetch"
                          ELSE IF update[u].seen # running THEN "restart" ELSE "upToDate")
     \/ Moves(u, "check", "error")
  /\ UNCHANGED <<uploaded, signed, pointer, exe, running>>

\* The pointer again; this is the release that is installed.
FetchLatest(u) ==
  /\ \/ /\ update[u].at = "refetch"
        /\ update' = [update EXCEPT ![u].at = "download", ![u].release = pointer]
     \/ Moves(u, "refetch", "error")
  /\ UNCHANGED <<uploaded, signed, pointer, exe, running>>

DownloadRelease(u) ==
  /\ \/ /\ update[u].at = "download"
        /\ update' = [update EXCEPT ![u].at = "verify",
                        ![u].body = [tag |-> update[u].release.tag, upload |-> uploaded[update[u].release.tag]]]
     \/ Moves(u, "download", "error")
  /\ UNCHANGED <<uploaded, signed, pointer, exe, running>>

\* What selfupdate accepts: the body has the pointer's checksum and the signature's.
Accepts(u, signature) ==
  /\ update[u].body = update[u].release
  /\ signature = update[u].body.upload

\* The signature is loaded, the body checked against both, the file replaced.
ApplyUpdate(u) ==
  /\ update[u].at = "verify"
  /\ \/ /\ Accepts(u, signed[update[u].release.tag])
        /\ exe' = update[u].body
        /\ Moves(u, "verify", "applied")
     \/ Moves(u, "verify", "error") /\ UNCHANGED exe
  /\ UNCHANGED <<uploaded, signed, pointer, running>>

RestartManager ==
  /\ running' = exe.tag
  /\ update' = [u \in Updates |-> NoUpdate]
  /\ UNCHANGED <<uploaded, signed, pointer, exe>>

UpdateNext ==
  \/ \E t \in ReleaseTags : UploadRelease(t) \/ SignRelease(t) \/ MovePointer(t)
  \/ \E u \in Updates : ReadInstalled(u) \/ Decide(u) \/ FetchLatest(u) \/ DownloadRelease(u) \/ ApplyUpdate(u)
  \/ RestartManager

-----------------------------------------------------------------------------
(* Between an update's calls the pointer, the binary and the signature may *)
(* each be replaced, and another update may finish: still what an update   *)
(* puts in place of the program is the build its pointer named, one that   *)
(* was signed, and not older than what the update had found there          *)
(* (update/service.go:115-196).                                            *)
UpdateIsVerified ==
  \A u \in Updates : update[u].at = "applied" =>
    /\ update[u].body = update[u].release
    /\ ~Newer(update[u].seen, update[u].body.tag)
    /\ signed[update[u].body.tag] >= update[u].body.upload
=============================================================================
