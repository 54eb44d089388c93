SPECIFICATION Spec
CONSTANTS
  ConstantPoll = TRUE
  Requests = {"start", "stop", "write"}
  SetupMayFail = TRUE
  MaxCmd = 2
  MaxCb = 3
  Tags = {t1, t2}
  NoTag = NoTag
  MaxId = 2
SYMMETRY Symmetry
INVARIANTS
  TypeOK
  NoInternalAbort
  RefsExact
  ObjectsMatchEntries
  WriteReachesItsEntry
  NothingLeaks
  BusShowsRadio
