SPECIFICATION Spec
CONSTANTS
  N = 3
  Files = {f1, f2, f3, f4}
  Clients = {c1, c2}
  NoFile = NoFile
  NoData = NoData
  Dead = Dead
  Failed = Failed
  Unwatchable = {}
  MaxVersion = 0
  MaxLock = 3
  MaxReads = 2
  Hangup = FALSE
SYMMETRY Symmetry
INVARIANT ServedIntact
INVARIANT RightFile
PROPERTY RefinesLRU
CHECK_DEADLOCK FALSE
