SPECIFICATION FairSpec
CONSTANTS
  Requests = {r1}
  VmIds = {1, 2}
  VdiIds = {1, 2, 3, 4, 5, 6}
  NoReq = NoReq
  FaultKinds = {"crash", "reject", "guest"}
  MaxFaults = 4
  Prompt = TRUE
PROPERTIES TeardownCompletes ProvisioningCompletes KeepsLife
