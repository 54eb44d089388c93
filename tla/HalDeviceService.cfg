SPECIFICATION Spec
CONSTANTS
  ConstantPoll = FALSE
  Requests = {"start", "stop"}
  SetupMayFail = FALSE
  MaxCmd = 1
  MaxCb = 3
  Devices = {d1, d2}
  NoDevice = NoDevice
  Texts = {}
  MaxId = 1
  MaxSnep = 1
INVARIANT
  ObjectsMatchEntries
PROPERTY ImplementsSessionService
