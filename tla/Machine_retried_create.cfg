SPECIFICATION Spec
CONSTANTS
  Requests = {r1}
  VmIds = {1, 2, 3}
  VdiIds = {1, 2, 3, 4, 5}
  NoReq = NoReq
  FaultKinds = {"drop"}
  MaxFaults = 1
  Prompt = TRUE
INVARIANTS OneVmPerRequest
