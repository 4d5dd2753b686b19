SPECIFICATION FairSpec
CONSTANTS
  Tag = {"osd"}
  None = None
  Requests <- Clients
  MaxCalls = 3
  MaxEvents = 1
INVARIANTS
  AnnouncedOnce
  OnePopupPerTag
PROPERTIES
  ExpiryHitsItsOwn
  TimedGo
CHECK_DEADLOCK FALSE
