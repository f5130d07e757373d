-------------------------- MODULE MCClusterRegistry --------------------------
EXTENDS ClusterRegistry, TLC

\* Requests, credentials and ports are compared for equality only.
RegistrySymmetry == Permutations(Slots) \cup Permutations(Creds) \cup Permutations(Ports)

MCAnswers ==
  {[engine |-> "minio", facts |-> [i \in Nodes |-> [state |-> "offline", drive |-> "failed"]]]}
=============================================================================
