SPECIFICATION Spec
CONSTANTS
  Holder = {h1, h2}
  Budget = 3
  Size = 2
  Ttl = 1
  MaxCost = 2
  MaxTime = 2
  MaxTokens = 4
  MaxSpent = 4
SYMMETRY HolderSymmetry
INVARIANTS  NothingSettledTwice
