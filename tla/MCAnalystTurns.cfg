SPECIFICATION FairSpec
CONSTANTS
  c1 = c1
  c2 = c2
  Calls <- TwoCalls
  Conversations = {"v", "w"}
  RequestIds = {"o", "p", "q"}
  Capabilities = {"k", "l"}
  Asked <- TwoOfOne
  Earlier <- OtherUsed
  Limit = 2
  OpeningEvents = 1
  AnswerEvents = 1
INVARIANTS
  AnsweringTurnIsActive
  ToldMatchesRegistry
  RetainedWithinLimit
PROPERTIES
  StreamEndsWithTerminal
  EveryTurnSettles
CHECK_DEADLOCK FALSE
