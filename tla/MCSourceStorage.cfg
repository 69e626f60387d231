SPECIFICATION Spec
CONSTANTS
  collection = collection
  settings = settings
  d1 = d1
  d2 = d2
  Files = {collection, settings}
  Collection = collection
  Data = {d1, d2}
  Default = d1
  None = None
  Absent = Absent
  Broken = Broken
  Attempts = 2
  Scenarios <- AnyCircumstances
  MaxSaves = 1
INVARIANTS
  VectorIsHonest
  AuthorityFencesCaches
PROPERTIES
  AnswersAreOneInstant
  ExternalChangeIsAttributed
CHECK_DEADLOCK FALSE
