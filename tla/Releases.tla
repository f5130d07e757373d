------------------------------ MODULE Releases ------------------------------
(***************************************************************************)
(* The Buckit releases as the manager sees them (internal/deploy:          *)
(* versions.go, checksum.go): a listing cached for five minutes, from      *)
(* which a file is picked for a package kind, system and architecture, and *)
(* the files themselves, which the release site may publish or publish     *)
(* again, file and checksum apart, between any two of the manager's calls. *)
(*                                                                         *)
(* A file is what the listing says of it.  What is downloaded is a build:  *)
(* the tag, the file and how many times the release had been uploaded.     *)
(* The checksum of a build is the build itself.                            *)
(***************************************************************************)
EXTENDS Naturals, FiniteSets, Sequences, SequencesExt

CONSTANTS
  MaxTag,      \* release tags, in order
  MaxUploads,  \* uploads of one release (bound)
  Listing,     \* what each release lists: a sequence of files
  None

ASSUME ReleasesAssumption == MaxTag \in Nat \ {0} /\ MaxUploads \in Nat \ {0}

Tags == 1..MaxTag
Arches == {"amd64", "arm64"}

VARIABLES
  asset,    \* uploads of a release's files so far, 0: not published
  sidecar,  \* the upload its checksum files belong to
  listed    \* the cached listing: the upload each digest was computed from, or None

siteVars == <<asset, sidecar, listed>>

SiteInit ==
  /\ asset = [t \in Tags |-> IF t = 1 THEN 1 ELSE 0]
  /\ sidecar = asset
  /\ listed = None

UploadFiles(t) ==
  /\ asset[t] < MaxUploads
  /\ asset' = [asset EXCEPT ![t] = @ + 1]
  /\ UNCHANGED <<sidecar, listed>>

UploadSidecars(t) ==
  /\ sidecar[t] < asset[t]
  /\ sidecar' = [sidecar EXCEPT ![t] = asset[t]]
  /\ UNCHANGED <<asset, listed>>

\* Five minutes have passed.
ListingExpires ==
  /\ listed # None
  /\ listed' = None
  /\ UNCHANGED <<asset, sidecar>>

SiteNext == (\E t \in Tags : UploadFiles(t) \/ UploadSidecars(t)) \/ ListingExpires

-----------------------------------------------------------------------------
\* What a release's files are picked from.

FirstOf(files, Test(_)) ==
  LET i == SelectInSeq(files, Test) IN IF i = 0 THEN None ELSE files[i]

ReleaseArtifact(files, kind, arch) ==
  FirstOf(files, LAMBDA f : f.kind = kind /\ (arch = "" \/ f.arch = arch))

\* An artifact: the file to download, the files whose sidecars are asked for a
\* checksum, in order, and the file whose listed digest is the last resort.
Matched(f) ==
  [file |-> f, sidecars |-> <<f>>, digest |-> IF f.digest THEN f ELSE None]

\* Without a file of the architecture, the release's first rpm, beside the first
\* digest any of its rpms has.
RPMArtifactForArch(files, arch) ==
  LET own     == ReleaseArtifact(files, "rpm", arch)
      generic == FirstOf(files, LAMBDA f : f.kind = "rpm" /\ f.arch \in Arches)
  IN  IF own # None THEN Matched(own)
      ELSE IF generic = None THEN None
      ELSE [file |-> generic, sidecars |-> <<generic>>,
            digest |-> FirstOf(files, LAMBDA f : f.kind = "rpm" /\ f.arch \in Arches /\ f.digest)]

DebArtifactForArch(files, arch) ==
  LET own     == ReleaseArtifact(files, "deb", arch)
      generic == ReleaseArtifact(files, "deb", "")
  IN  IF own # None THEN Matched(own)
      ELSE IF generic = None THEN None
      ELSE [file |-> generic, sidecars |-> <<generic>>, digest |-> None]

BinaryArtifactForOSArch(files, os, arch) ==
  LET own == FirstOf(files, LAMBDA f : f.kind = "binary" /\ f.os = os /\ f.arch = arch)
  IN  IF own = None THEN None ELSE Matched(own)

ResolveArtifact(files, kind, arch) ==
  IF kind = "deb" THEN DebArtifactForArch(files, arch) ELSE RPMArtifactForArch(files, arch)

\* A custom URL: its suffix says what it is, and its own sidecars vouch for it.
CustomArtifactFromURL(kind) ==
  Matched([kind |-> kind, os |-> "linux", arch |-> "", digest |-> FALSE])

-----------------------------------------------------------------------------
\* Calls to the site, each of which may fail.

\* The listings a call may get: the cached one, or the current one, or None.
SupportedVersions == IF listed # None THEN {listed} ELSE {asset, None}

\* A listing that was fetched is kept; a failure leaves the cache as it was.
Remember(versions) == listed' = IF versions = None THEN listed ELSE versions

VersionByTag(versions, t) ==
  IF versions = None THEN None ELSE IF versions[t] = 0 THEN None ELSE Listing[t]

BuildOf(t, file, upload) == [tag |-> t, file |-> file, upload |-> upload]

\* The checksums a call may end with: a sidecar's, in order, then the listed digest.
FetchChecksum(t, artifact, versions) ==
  {BuildOf(t, artifact.sidecars[i], sidecar[t]) : i \in DOMAIN artifact.sidecars}
    \cup {IF artifact.digest = None THEN None
          ELSE BuildOf(t, artifact.digest, versions[t])}

Download(t, file) == BuildOf(t, file, asset[t])
=============================================================================
