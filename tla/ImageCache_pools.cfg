SPECIFICATION Spec
CONSTANTS
  r1 = r1
  r2 = r2
  r3 = r3
  n1 = n1
  n2 = n2
  p1 = p1
  p2 = p2
  Requests = {r1, r2}
  Names = {n1}
  Pools = {p1, p2}
  NameOf <- OneName
  PoolOf <- TwoPools
  Builds = {1, 2}
  FaultKinds = {"fail"}
  MaxFaults = 0
INVARIANTS TemplateInPool
