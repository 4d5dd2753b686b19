SPECIFICATION Spec
CONSTANTS
  Panel = {1}
  Wall = {bg}
  Output = {"o1", "o2"}
  Content = {"a", "b", "fig"}
  Figures = {"fig"}
  Size = {"small", "big", "screen"}
  Place = {"left", "right", "origin"}
  Layouts <- WallpaperMoves
  MaxPass = 2
  MaxPicture = 1
  Unreliable = {}
  None = None
INVARIANTS
  NoWallpaperNoBackdrop
