\* Two hosts: with the package, started otherwise, or clean; two operations.
SPECIFICATION FairSpec
CONSTANTS
  Hosts = {h1, h2}
  MaxVersion = 2
  MaxOps = 2
INVARIANTS
  TypeOK
  OneAtATime
  UpgradeIsUniform
  ProvisionedIsWhole
  StopSticks
PROPERTY
  OperationEnds
CHECK_DEADLOCK FALSE
