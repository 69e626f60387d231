SPECIFICATION Spec
CONSTANTS
  f = f
  g = g
  h = h
  Games <- MCGames
  Candidates = {}
  Pairs <- OnePair
  Runs = {r1}
  NoRow = NoRow
  NoBatch = NoBatch
  NoProgress = NoProgress
  NoRun = NoRun
  None = None
  Retries = 1
  Consents = {TRUE}
  Causes = {"owner-cancelled"}
  Mutations <- AnyMutation
  MaxEdits = 2
  MaxFaults = 1
  MaxCrashes = 1
INVARIANTS
  NoStaleJudgment
PROPERTIES
  NotesNeedPermission
CHECK_DEADLOCK FALSE
