SPECIFICATION FairSpec
CONSTANTS
  Element = {"slider", "button"}
  Click = {"button"}
  Drag = {"slider"}
  Channel = {vol}
  ChannelOf <- OneModule
  Position = {"low", "high"}
  MaxEvents = 4
  MaxPresses = 2
  MaxUnprompted = 1
  SlowPass = TRUE
  None = None
INVARIANTS
  PressesDelivered
PROPERTIES
  NewestIsRead
