SPECIFICATION FairSpec
CONSTANTS
  Inst = {i1, i2}
  NoInst = NoInst
  NumEvents = 3
  Timestamp <- BurstTimestamp
  MaxTime = 1
  Overlap = 1
  MaxCatchup = 1
  FirstLookback = 1
  BatchSize = 2
  MaxAttempts = 2
  InOrder = TRUE
  MaxFaults = 1
  MaxCrashes = 1
  MaxStalls = 0
INVARIANT NothingSkippedInOrder
PROPERTIES ImplementsQueue EventuallyResolvedIfNoFault
