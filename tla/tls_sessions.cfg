SPECIFICATION FairSpec
CONSTANTS
  FirstSlot = 1
  MaxSlots = 2
  MaxConns = 2
  MaxQueue = 2
  Records = 4
  EarlyData = "whole"
INVARIANT TypeOK
INVARIANT WritesCounted
INVARIANT OutputBufferOwned
INVARIANT NothingLost
 
 
CHECK_DEADLOCK FALSE
