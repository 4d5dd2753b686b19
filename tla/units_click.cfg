SPECIFICATION FairSpec
CONSTANTS
  Layout = {"dock", "plain"}
  Data = {"none", "x", "y"}
  NoData = "none"
  Globals = {"off", "on"}
  NoGlobals = "off"
  Item <- Items
  Declares <- Layouts
  Throws = Throws
  Manages <- Hooks
  Claims <- Port
  MaxLoads = 2
  MaxEvents = 3
PROPERTIES
  ClicksConverge
CHECK_DEADLOCK FALSE
