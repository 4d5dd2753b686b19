SPECIFICATION FairSpec
CONSTANTS
  Pkg = {"clock", "weather"}
  Imports <- TwoImports
  MaxCommit = 2
  MaxEvents = 2
  First = First
  Dev = Dev
  Unread = Unread
  None = None
INVARIANTS
  CacheIsWhole
  PinnedIsPlaced
PROPERTIES
  ThreadsKeepPins
  SettlesOnPins
CHECK_DEADLOCK FALSE
