SPECIFICATION FairSpec
CONSTANTS
  ConstantPoll = TRUE
  Requests = {}
  SetupMayFail = FALSE
  MaxCmd = 1
  MaxCb = 1
  Tags = {t1}
  NoTag = NoTag
  MaxId = 0
PROPERTY FreeJoinsThread
