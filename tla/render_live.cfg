SPECIFICATION FairSpec
CONSTANTS
  Panel = {1}
  Wall = {bg}
  Output = {"o1"}
  Content = {"a", "b", "fig"}
  Figures = {"fig"}
  Size = {"small", "big", "screen"}
  Place = {"left", "right", "origin"}
  Layouts <- Lively
  MaxPass = 3
  MaxPicture = 1
  Unreliable = {}
  None = None
PROPERTIES
  EndsOnLatestFrame
  Converges
