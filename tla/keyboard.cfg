\* A letter with Shift and Ctrl, so ctrl-D too, and Enter.
CONSTANTS
  C_BUFSIZE = 3
  Keys = {42, 29, 32, 28}
  N_CODES = 2
  Sizes = {1, 3}
SPECIFICATION FairSpec
PROPERTIES ImplementsStream TypedAsMeant CodesTaken
