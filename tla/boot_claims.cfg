\* Claims that the code does not keep: TLC reports the first that fails.
CONSTANTS
  COMMANDS <- NotSo
  FREE_WORDS = 9
  N_INFO = 256
  IO_ERRORS = TRUE
  GEOMETRIES <- Floppies
  MAX_KEYS = 1
  BSS <- Bss
  N_PROCS = 1
  PID_FIRST_USER = 2
  PID_LIMIT = 6
  TIME_MOD = 3
  QUANT_STD = 2
  BUF_SIZE = 1
  C_BUFSIZE = 2
SPECIFICATION PowerUpSpec
INVARIANTS ProgramsFit LoadedInOrder BuiltWhole AllLoaded NotTooBig LoadsOnlyTable MapHoldsKernelSize
PROPERTIES NoReset
\* A boot stops in the kernel or in a loop after a message.
CHECK_DEADLOCK FALSE
