----------------------------- MODULE DeployPlan -----------------------------
(***************************************************************************)
(* What a deployment draft is turned into (internal/deploy: params.go,     *)
(* volumes.go, tls.go and the environment of install.go; the same choices  *)
(* in internal/localdeploy): which drafts are accepted, how many drives    *)
(* make an erasure set, and how hosts and mounts are written as patterns.  *)
(*                                                                         *)
(* A name is a sequence of characters: digits are 0..9, anything else a    *)
(* number from 10 on.                                                      *)
(***************************************************************************)
EXTENDS Releases

ASSUME DeployPlanAssumption == None \notin Nat /\ None \notin Nat \X Nat

Names == Seq(Nat)

IsDigit(c) == c \in 0..9

\* Decimal writing, and its padding to a width.
Decimal[n \in Nat] == IF n < 10 THEN <<n>> ELSE Decimal[n \div 10] \o <<n % 10>>
Padded(n, width) ==
  LET d == Decimal[n] IN [i \in 1..(IF width > Len(d) THEN width - Len(d) ELSE 0) |-> 0] \o d
Number(digits) ==
  LET value[i \in 0..Len(digits)] == IF i = 0 THEN 0 ELSE 10 * value[i - 1] + digits[i]
  IN  value[Len(digits)]

-----------------------------------------------------------------------------
\* Sizes.

TotalDriveCount(p) == Len(p.hosts) * Len(p.mounts)

SetSizes == 2..16

DefaultSetSize(total) ==
  LET divisors == {s \in SetSizes : total % s = 0}
  IN  IF divisors = {} THEN 0 ELSE Max(divisors)

ResolvedSetSize(p) == IF p.setSize > 0 THEN p.setSize ELSE DefaultSetSize(TotalDriveCount(p))

DefaultParityBlocks(setSize) ==
  IF setSize <= 1 THEN 0
  ELSE IF setSize <= 3 THEN 1
  ELSE IF setSize <= 5 THEN 2
  ELSE IF setSize <= 7 THEN 3
  ELSE 4

EffectiveParity(p) ==
  IF p.parity # 0 \/ TotalDriveCount(p) <= 1 THEN p.parity
  ELSE DefaultParityBlocks(ResolvedSetSize(p))

\* Mutant: drives that do not divide into sets are accepted.
M_ValidateTopology(p) ==
  LET total == TotalDriveCount(p)
      size  == ResolvedSetSize(p)
  IN  IF total <= 1 THEN p.parity = 0
      ELSE size \in SetSizes /\ EffectiveParity(p) \in 1..(size \div 2)

ValidateTopology(p) ==
  LET total == TotalDriveCount(p)
      size  == ResolvedSetSize(p)
  IN  IF total <= 1 THEN p.parity = 0
      ELSE /\ size \in SetSizes
           /\ total % size = 0
           /\ EffectiveParity(p) \in 1..(size \div 2)

-----------------------------------------------------------------------------
\* Patterns.  One stands for the names pre \o n \o suf, n from lo to hi, written
\* with at least width digits; a literal has no range.

Literal(name) == [pre |-> name, range |-> None, width |-> 0, suf |-> <<>>]

NamesOf(pattern) ==
  IF pattern.range = None THEN {pattern.pre}
  ELSE {pattern.pre \o Padded(n, pattern.width) \o pattern.suf :
          n \in pattern.range[1]..pattern.range[2]}

Middles(list) ==
  LET pre == LongestCommonPrefix(ToSet(list))
      suf == LongestCommonPrefix({Reverse(s) : s \in ToSet(list)})
  IN  [i \in DOMAIN list |-> SubSeq(list[i], Len(pre) + 1, Len(list[i]) - Len(suf))]

StartsWithZero(digits) == Len(digits) > 1 /\ digits[1] = 0

\* None: no pattern fits.  Padding is decided by the first name listed.
DetectNumericPattern(list) ==
  LET middles == Middles(list)
      pre     == LongestCommonPrefix(ToSet(list))
      suf     == Reverse(LongestCommonPrefix({Reverse(s) : s \in ToSet(list)}))
      numbers == {Number(middles[i]) : i \in DOMAIN middles}
      padded  == StartsWithZero(middles[1])
      width   == IF padded THEN Len(middles[1]) ELSE 0
  IN  IF Len(list) = 1 THEN Literal(list[1])
      ELSE IF /\ \A i \in DOMAIN middles : middles[i] # <<>> /\ \A j \in DOMAIN middles[i] : IsDigit(middles[i][j])
              /\ padded => \A i \in DOMAIN middles : Len(middles[i]) = width
              /\ Cardinality(numbers) = Len(list)
              /\ Max(numbers) - Min(numbers) = Len(list) - 1
           THEN [pre |-> pre, range |-> <<Min(numbers), Max(numbers)>>, width |-> width, suf |-> suf]
           ELSE None

Patterns(list) ==
  LET fit == DetectNumericPattern(list)
  IN  IF fit # None THEN {fit} ELSE {Literal(name) : name \in ToSet(list)}

\* The arguments of the server: a pattern of hosts, but for a single host, with
\* one of paths.
RenderVolumes(p) ==
  [host : IF Len(p.hosts) = 1 THEN {None} ELSE Patterns(p.hosts), path : Patterns(p.mounts)]

\* The drives they name.
Endpoints(p, volumes) ==
  UNION {(IF v.host = None THEN ToSet(p.hosts) ELSE NamesOf(v.host)) \X NamesOf(v.path) : v \in volumes}

-----------------------------------------------------------------------------
\* The draft, and the environment written on every host.

\* Blank hosts go, with what was discovered of them; zero means the default.
FromDraft(d) ==
  LET kept(list) ==
        FlattenSeq([i \in DOMAIN d.hosts |-> IF d.hosts[i] = <<>> THEN <<>> ELSE <<list[i]>>])
      p == [d EXCEPT !.hosts   = kept(d.hosts),
                     !.arch    = kept(d.arch),
                     !.port    = IF @ = 0 THEN 9000 ELSE @,
                     !.console = IF @ = 0 THEN 9001 ELSE @]
  IN  [p EXCEPT !.parity = IF TotalDriveCount(p) > 1 /\ @ = 0 THEN EffectiveParity(p) ELSE @]

\* "" when nothing was discovered, None when hosts differ.
ClusterArch(p) ==
  LET seen == ToSet(p.arch) \ {""}
  IN  IF seen = {} THEN "" ELSE IF Cardinality(seen) = 1 THEN CHOOSE a \in seen : TRUE ELSE None

ArtifactForKind(p, versions, kind) ==
  LET files == VersionByTag(versions, p.version)
  IN  IF p.custom # None THEN IF p.custom = kind THEN CustomArtifactFromURL(kind) ELSE None
      ELSE IF ClusterArch(p) = None \/ files = None THEN None
      ELSE ResolveArtifact(files, kind, ClusterArch(p))

ArtifactURL(p, versions) ==
  \/ p.custom # None
  \/ \E kind \in {"rpm", "deb"} : ArtifactForKind(p, versions, kind) # None

ValidateTLS(p) ==
  p.tls # None => p.tls.sound /\ p.serverURL # "http" /\ ToSet(p.hosts) \subseteq p.tls.names

Validate(p, versions) ==
  /\ p.creds # None
  /\ p.hosts # <<>>
  /\ p.mounts # <<>>
  /\ ValidateTopology(p)
  /\ ArtifactURL(p, versions)
  /\ ValidateTLS(p)

RenderConfigEnv(p) ==
  LET size == ResolvedSetSize(p)
      many == TotalDriveCount(p) > 1
  IN  [volumes |-> RenderVolumes(p), port |-> p.port, console |-> p.console,
       tls     |-> p.tls # None, serverURL |-> p.serverURL,
       setSize |-> IF many /\ size # DefaultSetSize(TotalDriveCount(p)) THEN size ELSE None,
       parity  |-> IF many /\ EffectiveParity(p) # DefaultParityBlocks(size)
                   THEN EffectiveParity(p) ELSE None]

-----------------------------------------------------------------------------
\* The local preparation's own choices.

\* The largest size that divides the drives, found as the one with the fewest sets.
ComputeSetSize(count) ==
  LET sizes == {s \in SetSizes : count % s = 0}
  IN  IF count <= 1 THEN count
      ELSE IF sizes = {} THEN None
      ELSE CHOOSE s \in sizes : \A other \in sizes : count \div s <= count \div other

\* Mutant: the table differs from the server's for five drives and fewer.
M_LocalParityBlocks(drives) ==
  CASE drives = 1 -> 0 [] drives \in 2..5 -> 1 [] drives \in {6, 7} -> 3 [] OTHER -> 4

LocalParityBlocks(drives) ==
  CASE drives = 1 -> 0 [] drives \in {2, 3} -> 1 [] drives \in {4, 5} -> 2
    [] drives \in {6, 7} -> 3 [] OTHER -> 4

\* None: refused.
NormalizeParity(requested, count, setSize) ==
  IF count <= 1 THEN IF requested > 0 THEN None ELSE 0
  ELSE IF requested = 0 THEN LocalParityBlocks(setSize)
  ELSE IF requested <= setSize \div 2 THEN requested ELSE None

\* A data path is the sequence of its directories; a raw one may end in a range.
DataPaths == Seq(Nat)
RawPaths == [dir : DataPaths, range : {None} \cup (Nat \X Nat)]

ExpandPathPattern(raw) ==
  IF raw.range = None THEN <<raw.dir>>
  ELSE [i \in 1..(raw.range[2] - raw.range[1] + 1) |-> Append(raw.dir, raw.range[1] + i - 1)]

PathsOverlap(a, b) == IsPrefix(a, b) \/ IsPrefix(b, a)

\* The paths, or None: a range that descends, a path twice, one inside another, or
\* one that has something in it already.
NormalizeDataPaths(raw, nonEmpty) ==
  LET paths == FlattenSeq([i \in DOMAIN raw |-> ExpandPathPattern(raw[i])])
  IN  IF /\ raw # <<>>
         /\ \A i \in DOMAIN raw : raw[i].range # None => raw[i].range[1] <= raw[i].range[2]
         /\ \A i, j \in DOMAIN paths : i # j => ~PathsOverlap(paths[i], paths[j])
         /\ ToSet(paths) \cap nonEmpty = {}
      THEN paths ELSE None

-----------------------------------------------------------------------------
(* A plan that was accepted is the one the operator drew: the server is    *)
(* told of exactly the drives of the draft, an erasure set keeps at least  *)
(* half its drives for data and divides the drives evenly, and the         *)
(* server's own defaults, where the environment is silent, give the same   *)
(* set size and parity.  (Names in which only some numbers are padded are  *)
(* left out: volumes.go looks at the first one only.  A number that does   *)
(* not fit the machine's integers is no pattern in the code.)              *)
PlanIsFaithful(p) ==
  LET env    == RenderConfigEnv(p)
      total  == TotalDriveCount(p)
      size   == IF env.setSize = None THEN DefaultSetSize(total) ELSE env.setSize
      parity == IF env.parity = None THEN DefaultParityBlocks(size) ELSE env.parity
      plain(list) == \A i \in DOMAIN list :
                       StartsWithZero(Middles(list)[i]) => StartsWithZero(Middles(list)[1])
  IN  /\ plain(p.hosts) /\ plain(p.mounts) =>
           Endpoints(p, env.volumes) = ToSet(p.hosts) \X ToSet(p.mounts)
      /\ total > 1 => /\ parity = EffectiveParity(p) /\ 2 * parity <= size
                      /\ total % size = 0
=============================================================================
