SPECIFICATION Spec
CONSTANTS
  Requests = {r1, r2}
  VmIds = {1, 2}
  VdiIds = {1, 2, 3, 4}
  NoReq = NoReq
  FaultKinds = {"drop", "crash", "guest"}
  MaxFaults = 1
  Prompt = FALSE
SYMMETRY Symmetry
INVARIANTS TypeOK ConfiguredAtPowerOn Ownership StartsAreConfigured StraysNeedFaults
PROPERTIES DestroysOnlyTornDown
