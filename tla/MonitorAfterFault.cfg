SPECIFICATION FairSpec
CONSTANTS
  Inst = {i1}
  NoInst = NoInst
  NumEvents = 1
  Timestamp <- BurstTimestamp
  MaxTime = 0
  Overlap = 0
  MaxCatchup = 1
  FirstLookback = 1
  BatchSize = 1
  MaxAttempts = 2
  InOrder = TRUE
  MaxFaults = 1
  MaxCrashes = 0
  MaxStalls = 0
PROPERTY EventuallyResolved
