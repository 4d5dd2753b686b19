SPECIFICATION FairSpec
CONSTANTS
  Panel = {1}
  Wall = {bg}
  Output = {"o1"}
  Content = {"a", "b", "fig"}
  Figures = {"fig"}
  Size = {"small", "big", "screen"}
  Place = {"left", "right", "origin"}
  Layouts <- OnePanel
  MaxPass = 2
  MaxPicture = 1
  Unreliable = {}
  None = None
PROPERTIES
  CropIsBehindPanel
