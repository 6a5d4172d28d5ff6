CONSTANTS
  None = None
  PlatformNamed = {"product-platform"}
  Conventional <- MCConventional
  GithubOrg = "org"
  Contents <- MCContents
  Instances = {a1, a2}
  TTL = 1
  MaxRead = 0
  MaxFaults = 1

SPECIFICATION Spec

INVARIANT TypeOK
INVARIANT StalenessIsBounded
INVARIANT MisalignmentEnds
INVARIANT OwnersLagForAReason

CHECK_DEADLOCK FALSE
SYMMETRY Sym
