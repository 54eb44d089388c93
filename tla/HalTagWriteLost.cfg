SPECIFICATION Spec
CONSTANTS
  ConstantPoll = TRUE
  Requests = {"write"}
  SetupMayFail = FALSE
  MaxCmd = 1
  MaxCb = 2
  Tags = {t1}
  NoTag = NoTag
  MaxId = 1
INVARIANT WriteFindsItsEntry
