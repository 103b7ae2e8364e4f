SPECIFICATION Spec
CONSTANTS
  r1 = r1
  r2 = r2
  r3 = r3
  n1 = n1
  n2 = n2
  p1 = p1
  p2 = p2
  Requests = {r1, r2, r3}
  Names = {n1, n2}
  Pools = {p1}
  NameOf <- TwoNames
  PoolOf <- OnePool
  Builds = {1, 2, 3, 4}
  FaultKinds = {"fail", "error", "lag", "crash", "delete"}
  MaxFaults = 1
SYMMETRY Symmetry
INVARIANTS TypeOK ReturnsItsImage OneBuildUntilOneFails DuplicatesNeedAFault OneLeftoverPerFault
PROPERTIES ServesImages
