SPECIFICATION Spec
CONSTANTS
  Ids = {0, 1}
  MaxRecords = 2
  Messages = {m1, m2}
  NoMessage = NoMessage
  MaxSources = 4
SYMMETRY Symmetry
INVARIANTS
  TreeIsSound
  TagsComeWithTheirRecords
  ClientIsInformed
CHECK_DEADLOCK FALSE
