\* Every region of a small screen; texts of up to six characters.
CONSTANTS
  SCREEN_X_SIZE = 3
  SCREEN_Y_SIZE = 2
  Glyphs = {65}
  MAX_TYPED = 6
SPECIFICATION TextSpec
INVARIANTS TypeOK WindowShowsText
PROPERTIES OutsideUntouched
