SPECIFICATION LiveSpec
CONSTANTS
  f = f
  g = g
  h = h
  Games <- MCGames
  Candidates = {}
  Pairs <- TwoPairs
  Runs = {r1}
  NoRow = NoRow
  NoBatch = NoBatch
  NoProgress = NoProgress
  NoRun = NoRun
  None = None
  Retries = 0
  Consents = {TRUE}
  Causes = {"application-deadline"}
  Mutations <- OtherMutations
  MaxEdits = 1
  MaxFaults = 1
  MaxCrashes = 1
INVARIANTS
  CompletedMeansWhole
PROPERTIES
  EveryRunSettles
  EveryBatchResolves
CHECK_DEADLOCK FALSE
