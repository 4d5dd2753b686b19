SPECIFICATION FairSpec
CONSTANTS
  Name = {"day", "night", "map"}
  Calls <- ChartAndMap
  Asset = {"d3"}
  MaxLoads = 2
  MaxEvents = 2
  Blank = Blank
PROPERTIES
  StoresOnlyCurrent
  NeverBlankAgain
  DrawnInTheEnd
CHECK_DEADLOCK FALSE
