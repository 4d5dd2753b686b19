SPECIFICATION Spec
CONSTANTS
  Button = {"play", "bell"}
  Slider = {"vol"}
  Plain = {"mute"}
  Track = {"dim"}
  Renders <- Bars
  None = None
  MaxEvents = 4
PROPERTIES
  KeptRunsItsOwn
