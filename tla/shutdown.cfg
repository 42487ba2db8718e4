SPECIFICATION FairSpec
CONSTANTS
  NumThreads = 3
  MaxSignals = 2
INVARIANT TypeOK
INVARIANT NoStrayPost
INVARIANT EndsAfterThreads
PROPERTY SigintEnds
CHECK_DEADLOCK FALSE
