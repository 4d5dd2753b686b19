SPECIFICATION Spec
CONSTANTS
  Pkg = {"clock", "weather"}
  Imports <- TwoImports
  MaxCommit = 2
  MaxEvents = 2
  First = First
  Dev = Dev
  Unread = Unread
  None = None
CHECK_DEADLOCK FALSE
PROPERTIES
  PinsMoveOnRequest
