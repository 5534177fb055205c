SPECIFICATION AllSpec
CONSTANTS
  Part = {"config", "keys", "prices"}
  Consumer = {c1}
  Execution = {x1, x2}
  Request = {r1}
  NoDoc = NoDoc
  Edit <- MCEdit
  GlobalEdit <- MCGlobalEdit
  DefaultGlobal <- MCDefaultGlobal
  FieldOrder <- MCFieldOrder
  FirstDoc <- MCFirstDoc
  Cost <- MCCost
  Scenario <- MCScenario
  Client = {a, b}
  Key = {k1, k2}
  Group = {g}
  NoGroup = NoGroup
  None = None
  Handler = {h1, h2}
  MaxCalls = 4
  MaxBreaks = 1
  Model <- MCModel
  Retail <- MCRetail
  Override <- MCOverride
  PriceRequest = {q1, q2}
  NoPricing = NoPricing
  Absent = Absent
  MaxSaves = 3
  MaxSyncs = 1
CHECK_DEADLOCK FALSE
INVARIANTS EditsSurvive WorkingKeysAreMapped RevokedKeysAreDead PinnedPricesHold
PROPERTIES DowngradesHold ConfigConverges ConfigOutlivesKeys
