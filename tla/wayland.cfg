SPECIFICATION FairSpec
CONSTANTS
  Panel = {"top"}
  Size = {20, 30}
  MaxCommands = 5
  MaxEvents = 1
  None = None
INVARIANTS
  ProtocolKept
PROPERTIES
  PaintableAgain
CHECK_DEADLOCK FALSE
