SPECIFICATION FairSpec
CONSTANTS
  Headers = 2
  READ_SIZE = 3
  EventSize = 1
  Sizes <- MCSizes
  Errors <- MCErrors
  Watched = {f1, f2}
  Ignored = Ignored
  Burst = 2
  Lowest = 30
INVARIANT TypeOK
INVARIANT AnswerIntact
PROPERTY InBounds
PROPERTY Answered
PROPERTY ChangeNoticed
CHECK_DEADLOCK FALSE
