SPECIFICATION Spec
CONSTANTS
  Requests = {r1, r2}
  VmIds = {1, 2}
  VdiIds = {1, 2, 3, 4}
  NoReq = NoReq
  FaultKinds = {"crash", "reject", "guest"}
  MaxFaults = 2
  Prompt = TRUE
SYMMETRY Symmetry
INVARIANTS OneConfigDrive OneVmPerRequest NothingLeftBehind StraysNeedFaults
PROPERTIES ReadyNamesTheMachine
