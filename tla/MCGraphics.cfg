SPECIFICATION Spec
CONSTANTS
  High = 16384
  Input <- MCInput
  Main = main
  Drawers = {d1, d2}
  Modes <- MCModes
  Pixels <- MCPixels
  Colours <- MCColours
  Bioses <- MCBioses
  WINDOW = 224
  MODE = 225
  MaxDraws = 2
  MaxSessions = 2
PROPERTIES
  VmConfined
  PixelInPlace
CHECK_DEADLOCK FALSE
