SPECIFICATION Spec
CONSTANTS
  ConstantPoll = TRUE
  Requests = {}
  SetupMayFail = FALSE
  MaxCmd = 1
  MaxCb = 1
  Devices = {d1}
  NoDevice = NoDevice
  Texts = {m1}
  MaxId = 0
  MaxSnep = 1
INVARIANT UnregisteredIsNotCalled
