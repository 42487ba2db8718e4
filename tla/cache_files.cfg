SPECIFICATION Spec
CONSTANTS
  N = 2
  Files = {f1, f2}
  Clients = {c1}
  NoFile = NoFile
  NoData = NoData
  Dead = Dead
  Failed = Failed
  Unwatchable = {f1, f2}
  MaxVersion = 1
  MaxLock = 1
  MaxReads = 2
  Hangup = TRUE
SYMMETRY Symmetry
INVARIANT TypeOK
INVARIANT WatchLeadsToItem
CHECK_DEADLOCK FALSE
