\* Claims that the code does not keep: TLC reports the first that fails.
CONSTANTS
  C_BUFSIZE = 3
  Keys = {32, 28, 58}
  N_CODES = 2
  Sizes = {4}
SPECIFICATION FairSpec
PROPERTIES UndefinedIgnored ReadReturns
