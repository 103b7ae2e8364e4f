SPECIFICATION FairSpec
CONSTANTS
  r1 = r1
  r2 = r2
  n1 = n1
  n2 = n2
  Requests = {r1, r2}
  Names = {n1, n2}
  NameOf <- SameImage
  TemplateIds = {"t1", "t2", "t3", "t4"}
  Deployments <- AllDeployments
  MaxFaults = 2
  MaxInt = 5000
CHECK_DEADLOCK FALSE
INVARIANTS TypeOK CreatesOnlyAccepted ClonesItsImage RunsOnlyUsable
PROPERTIES StartsUp Served TornDown
