SPECIFICATION FairSpec
CONSTANTS
  Workspace = {"1", "2"}
  None = None
  MaxEvents = 4
INVARIANTS
  TypeOK
  StripIsCurrent
PROPERTIES
  CatchesUp
CHECK_DEADLOCK FALSE
