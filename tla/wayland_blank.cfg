SPECIFICATION FairSpec
CONSTANTS
  Panel = {"top"}
  Size = {20, 30}
  MaxCommands = 4
  MaxEvents = 0
  None = None
CHECK_DEADLOCK FALSE
PROPERTIES
  ShowsLatest
