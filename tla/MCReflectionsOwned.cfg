SPECIFICATION Spec
CONSTANTS
  g1 = g1
  Empty = Empty
  Unread = Unread
  Broken = Broken
  Questions <- TwoQuestions
  Games <- OneGame
  Priors  = {}
  Requests <- EnableLast
  MaxBatches = 1
  MaxRevision = 1
  MaxFaults = 0
  MaxCrashes = 0
PROPERTY
  LiveAttemptIsNotInterrupted
