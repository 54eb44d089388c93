SPECIFICATION FairSpec
CONSTANTS
  ConstantPoll = TRUE
  Requests = {"start", "write"}
  SetupMayFail = FALSE
  MaxCmd = 1
  MaxCb = 3
  Tags = {t1, t2}
  NoTag = NoTag
  MaxId = 1
PROPERTIES
  ImplementsSessionService
  GoneTagsAreWithdrawn
  PollingResumes
