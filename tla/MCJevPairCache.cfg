SPECIFICATION CacheSpec
CONSTANTS
  a = a
  b = b
  c = c
  Games <- MCGames
  Candidates <- MCCandidates
  Pairs <- MCPairs
  Runs = {r1, r2}
  Evidence = {e1, e2}
  RunningReports = {running}
  TerminalReports = {completed, interrupted}
  NoRow = NoRow
  NoBatch = NoBatch
  NoProgress = NoProgress
  NoRun = NoRun
  MaxToken = 2
  MaxRevision = 2
INVARIANTS
  StagedBelongsToBatch
  BatchMatchesFate
  EveryRowValid
PROPERTIES
  TokenMarksEveryChange
  RevisionMarksEveryChange
  SealedOutcomeIsFinal
  PublishesWholeRuns
CHECK_DEADLOCK FALSE
