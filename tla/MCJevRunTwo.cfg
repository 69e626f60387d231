SPECIFICATION Spec
CONSTANTS
  f = f
  g = g
  h = h
  Games <- MCGames
  Candidates = {}
  Pairs <- OnePair
  Runs = {r1, r2}
  NoRow = NoRow
  NoBatch = NoBatch
  NoProgress = NoProgress
  NoRun = NoRun
  None = None
  Retries = 0
  Consents = {TRUE}
  Causes = {"owner-cancelled"}
  Mutations <- OtherMutations
  MaxEdits = 0
  MaxFaults = 1
  MaxCrashes = 1
SYMMETRY RunSymmetry
INVARIANTS
  ProgressShowsBatch
  LiveRunOwnsBatch
  ToldOutcomeIsDurable
CHECK_DEADLOCK FALSE
