SPECIFICATION Spec
CONSTANTS
  ConstantPoll = FALSE
  Requests = {"start", "write"}
  SetupMayFail = FALSE
  MaxCmd = 2
  MaxCb = 4
  Tags = {t1, t2}
  NoTag = NoTag
  MaxId = 1
INVARIANT WriteReachesItsTag
