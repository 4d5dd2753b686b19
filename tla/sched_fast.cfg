SPECIFICATION Spec
CONSTANTS
  Target = {1, 2, 3, 4}
  Floor = 3
  Draws = {1, 2}
  None = None
PROPERTIES
  PromptIsServed
