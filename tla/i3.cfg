SPECIFICATION FairSpec
CONSTANTS
  Workspace = {"1", "2"}
  Output = {"left", "right"}
  Bar = "left"
  MaxConfig = 2
  Heartbeat = 3
  Debounce = 1
  None = None
  MaxEvents = 3
INVARIANTS
  StaleForABit
PROPERTIES
  GapsSettle
CHECK_DEADLOCK FALSE
