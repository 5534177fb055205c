SPECIFICATION FairSpec
CONSTANTS
  gpt = gpt
  mini = mini
  p1 = p1
  p2 = p2
  Model = {gpt, mini}
  CheapModel = mini
  PriceIn <- In
  PriceOut <- Out
  BilledAs <- Same
  GuardNum = 1
  GuardDen = 2
  DefaultMaxOutput = 2
  Slot = {c1, c2}
  Creator = {k1}
  Budget = 3
  InputSlack = 0
  ModelLimit = 3
  MaxUnbooked = 1
  DoubleReport = FALSE
  MaxLost = 1
  MaxExpiries = 1
  MaxSteps = 2
  MaxConcurrent = 1
  LoopWindow = 2
  LoopRepeats = 1
  Request <- Calls
  NoRequest = NoRequest
  NoOutcome = NoOutcome
INVARIANTS ChargesBooked ChargesWithinCeiling
PROPERTIES ImplementsAtomicLedger CapDrainsIfReported
CHECK_DEADLOCK FALSE
