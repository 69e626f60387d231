SPECIFICATION FairSpec
CONSTANTS
  r1 = r1
  r2 = r2
  d1 = d1
  d2 = d2
  Requests = {r1, r2}
  Collection = collection
  Shelf = shelf
  Data = {d1, d2}
  Enabled = {d2}
  None = None
  Gone = Gone
  Startup = startup
  Transitions = {1}
  MaxChanges = 2
INVARIANTS
  EntryIsWhatItIdentifies
  JoinedFlightIsPending
PROPERTIES
  AnswersAreCurrent
  EveryRequestIsAnswered
CHECK_DEADLOCK FALSE
