SPECIFICATION Spec
CONSTANTS
  g1 = g1
  Empty = Empty
  Unread = Unread
  Broken = Broken
  Questions <- OneQuestion
  Games <- OneGame
  Priors <- AnyPrior
  Requests <- Endings
  MaxBatches = 1
  MaxRevision = 2
  MaxFaults = 1
  MaxCrashes = 1
INVARIANTS
  AtRestCacheIsHonest
  LiveAttemptIsRunning
  OutcomesAgree
PROPERTIES
  PublicationIsFenced
  AcceptedChangeHasPurged
  NoSupersededNoteShown
  RefreshingShownIsReal
