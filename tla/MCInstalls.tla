----------------------------- MODULE MCInstalls -----------------------------
EXTENDS Installs, TLC

MCFile(kind, os, arch, digest) == [kind |-> kind, os |-> os, arch |-> arch, digest |-> digest]

\* No rpm for amd64, and no digest for the deb or the windows binary.
MCListing ==
  <<<<MCFile("rpm", "linux", "arm64", TRUE), MCFile("deb", "linux", "amd64", FALSE),
      MCFile("binary", "darwin", "arm64", TRUE), MCFile("binary", "windows", "arm64", FALSE)>>>>

MCHostKind == [h \in Hosts |-> IF h = 1 THEN "rpm" ELSE "deb"]

Node(digits) == <<10>> \o digits
Disk(n) == <<20, n>>

MCDraft(hosts, mounts, creds) ==
  [hosts |-> hosts, arch |-> [i \in DOMAIN hosts |-> "amd64"], mounts |-> mounts, creds |-> creds,
   parity |-> 0, setSize |-> 0, port |-> 0, console |-> 0, tls |-> None,
   serverURL |-> None, custom |-> None, version |-> 1, ssh |-> "key"]

Pair == <<Node(<<1>>), Node(<<2>>)>>
MCTls(names) == [sound |-> TRUE, names |-> names]

\* Three hosts and more are planned, not installed.
Planned ==
  {[MCDraft(hosts, mounts, "c1") EXCEPT !.parity = parity, !.setSize = size] :
     hosts \in {<<Node(<<9>>), Node(<<1, 0>>), Node(<<1, 1>>)>>,
                <<Node(<<1, 0>>), Node(<<0, 9>>), Node(<<0, 8>>)>>,
                <<Node(<<0, 8>>), Node(<<0, 9>>), <<>>, Node(<<1, 0>>)>>,
                <<Node(<<1>>), Node(<<3>>), Node(<<4>>)>>,
                <<Node(<<1>>), Node(<<1>>), Node(<<2>>), Node(<<3>>)>>},
     mounts \in {<<Disk(1), Disk(2)>>, <<Disk(1), Disk(3)>>, <<Disk(2), Disk(3), Disk(1), Disk(4)>>},
     parity \in 0..4, size \in {0, 2, 3, 6, 12}}

MCDrafts ==
  <<Planned \cup
      {[MCDraft(Pair, <<Disk(1), Disk(2)>>, "c1") EXCEPT !.tls = MCTls(ToSet(Pair))],
       MCDraft(<<Node(<<1>>)>>, <<Disk(1)>>, "c1")},
    {MCDraft(<<Node(<<1>>)>>, <<Disk(1)>>, "c2"),
     [MCDraft(<<<<>>, Node(<<1>>)>>, <<Disk(1), Disk(2)>>, "c1") EXCEPT !.custom = "rpm"]}>>

MCRequest(raw, parity, tls, creds) ==
  [paths |-> raw, parity |-> parity, tls |-> tls, creds |-> creds, port |-> 9000, console |-> 9001,
   custom |-> FALSE, version |-> 1, arch |-> "arm64", root |-> <<1, 2>>]

Ranged(dir, lo, hi) == [dir |-> dir, range |-> <<lo, hi>>]
One(path) == [dir |-> path, range |-> None]

MCRequests ==
  {MCRequest(<<Ranged(<<30>>, 1, 4)>>, parity, tls, "c1") :
     parity \in {0, 1, 3}, tls \in {None, [sound |-> TRUE, id |-> 1], [sound |-> FALSE, id |-> 2]}}
  \cup {MCRequest(<<One(<<30, 4>>), One(<<31>>)>>, 0, None, "c2"),
        MCRequest(<<One(<<1, 2, 11>>)>>, 0, None, "c1"), MCRequest(<<One(<<30>>), One(<<30, 1>>)>>, 0, None, "c1")}

MCTag(time, kind, suffix) == [time |-> time, kind |-> kind, suffix |-> suffix]
MCReleaseTags == {MCTag(1, "hotfix", 2), MCTag(1, "stable", 0), MCTag(2, "stable", 0)}
MCInitialTags == {MCTag(1, "hotfix", 2), MCTag(1, "git", 1)}

InstallSymmetry == Permutations(Updates)
=============================================================================
