SPECIFICATION AllSpec
CONSTANTS
  Part = {"eventhouse"}
  CsvRows = 3
  MaxSeeds = 3
  MaxReplays = 2
  MaxSecrets = 3
  MaxWorkIqApps = 2
  MaxApps = 2
  MaxScripts = 3
  MaxEdits = 1
  LakeTable = {a, b}
  MaxWorkspaces = 2
  MaxAgents = 2
  MaxChainRuns = 6
CHECK_DEADLOCK FALSE
INVARIANT RerunsKeepOneBatch
