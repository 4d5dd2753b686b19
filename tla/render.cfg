SPECIFICATION Spec
CONSTANTS
  Panel = {1, 2}
  Wall = {bg}
  Output = {"o1"}
  Content = {"a", "b", "fig"}
  Figures = {"fig"}
  Size = {"small", "big", "screen"}
  Place = {"left", "right", "origin"}
  Layouts <- TwoPanels
  MaxPass = 3
  MaxPicture = 1
  Unreliable = {2}
  None = None
INVARIANTS
  NothingGetsAhead
  StaleSizeOnlyWhenGone
  PictureNotOlderThanStamp
  SamplesCurrentWallpaper
  WallpaperBeforePanels
PROPERTIES
  PaintsFit
