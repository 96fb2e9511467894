SPECIFICATION FairSpec
CONSTANTS
  StdinCapacity = 1
  MaxFrames = 3
INVARIANTS HostAnswers
PROPERTIES InvokeReturns
CHECK_DEADLOCK FALSE
