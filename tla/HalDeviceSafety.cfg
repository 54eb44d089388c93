SPECIFICATION Spec
CONSTANTS
  ConstantPoll = TRUE
  Requests = {}
  SetupMayFail = FALSE
  MaxCmd = 1
  MaxCb = 3
  Devices = {d1, d2}
  NoDevice = NoDevice
  Texts = {m1, m2}
  MaxId = 1
  MaxSnep = 1
SYMMETRY Symmetry
INVARIANTS
  TypeOK
  RefsExact
  NoInternalAbort
  LastMessageShown
