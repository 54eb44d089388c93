SPECIFICATION FairSpec
CONSTANTS
  ConstantPoll = TRUE
  Requests = {"push"}
  SetupMayFail = FALSE
  MaxCmd = 1
  MaxCb = 1
  Devices = {d1}
  NoDevice = NoDevice
  Texts = {}
  MaxId = 0
  MaxSnep = 1
INVARIANTS
  RefsExact
  MarkersDoNotPileUp
PROPERTIES
  SnepThreadReturns
  GoneDevicesAreWithdrawn
