SPECIFICATION Spec
CONSTANTS
  Requests = {r1}
  VmIds = {1, 2}
  VdiIds = {1, 2, 3, 4}
  NoReq = NoReq
  FaultKinds = {"crash"}
  MaxFaults = 1
  Prompt = TRUE
INVARIANTS MemoryPinnedAtPowerOn
