SPECIFICATION Spec
CONSTANTS
  Width = 4
  Height = 3
  Word = 8
  Sizes = {1, 2, 5}
  Quarters = {0, 2, 3, 5, 9, 16}
  MaxPanels = 2
INVARIANTS
  TypeOK
  EdgesApart
  Tiled
  WindowsMeetContents
CHECK_DEADLOCK FALSE
