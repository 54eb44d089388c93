SPECIFICATION Spec
CONSTANTS
  Threads = {t1, t2, t3}
  Careless = {}
  NoThread = NoThread
  Cells = {c1, c2, c3}
  Tokens = {r1, r2, r3, r4}
  MaxId = 2
SYMMETRY Symmetry
INVARIANTS
  TouchesLiveEntries
  CountsReferences
  NothingForgotten
PROPERTY ImplementsRefCounting
