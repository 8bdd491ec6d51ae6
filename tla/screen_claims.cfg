\* Claims that the code does not keep: TLC reports the first that fails.
CONSTANTS
  SCREEN_X_SIZE = 3
  SCREEN_Y_SIZE = 2
  Glyphs = {65}
SPECIFICATION Spec
PROPERTIES ClearHomes
