SPECIFICATION Spec
CONSTANTS
  MaxSlots = 2
  MaxConns = 3
  MaxFds = 2
  MaxQueue = 2
  MaxReads = 2
  IdRange = 100
  MaxWs = 1
INVARIANT TypeOK
INVARIANT SlotsPartitioned
INVARIANT WritesCounted
INVARIANT LateDropped
INVARIANT WsIndexOwned
INVARIANT DescriptorOwned
INVARIANT AnswersItsClient
INVARIANT OneWrite
CHECK_DEADLOCK FALSE
