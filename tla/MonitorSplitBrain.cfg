SPECIFICATION Spec
CONSTANTS
  Inst = {i1, i2}
  NoInst = NoInst
  NumEvents = 3
  Timestamp <- SteadyTimestamp
  MaxTime = 2
  Overlap = 0
  MaxCatchup = 1
  FirstLookback = 1
  BatchSize = 2
  MaxAttempts = 2
  InOrder = FALSE
  MaxFaults = 0
  MaxCrashes = 0
  MaxStalls = 1
SYMMETRY InstSymmetry
INVARIANTS TypeOK AtLeastOnce HeadOfLine
