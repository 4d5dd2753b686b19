SPECIFICATION Spec
CONSTANTS
  Tag = {"osd"}
  None = None
  Requests <- Clients
  MaxCalls = 3
  MaxEvents = 1
PROPERTIES
  UntaggedStack
CHECK_DEADLOCK FALSE
