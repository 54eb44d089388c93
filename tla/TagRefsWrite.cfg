SPECIFICATION Spec
CONSTANTS
  Threads = {t1, t2}
  Careless = {t1}
  NoThread = NoThread
  Cells = {c1, c2}
  Tokens = {r1, r2}
  MaxId = 1
INVARIANT TouchesLiveEntries
