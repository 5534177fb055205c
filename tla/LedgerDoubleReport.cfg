SPECIFICATION Spec
CONSTANTS
  gpt = gpt
  mini = mini
  p1 = p1
  p2 = p2
  Model = {gpt, mini}
  CheapModel = mini
  PriceIn <- In
  PriceOut <- Out
  BilledAs <- Same
  GuardNum = 1
  GuardDen = 2
  DefaultMaxOutput = 2
  Slot = {c1, c2}
  Creator = {k1}
  Budget = 5
  InputSlack = 0
  ModelLimit = 2
  MaxUnbooked = 0
  DoubleReport = TRUE
  MaxLost = 0
  MaxExpiries = 0
  MaxSteps = 2
  MaxConcurrent = 1
  LoopWindow = 2
  LoopRepeats = 3
  Request <- Calls
  NoRequest = NoRequest
  NoOutcome = NoOutcome
SYMMETRY SlotSymmetry
INVARIANT ReservationsCounted
