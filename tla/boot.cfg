\* Image builder and boot: good command lines and bad ones, three disks, and the kernel's start.
CONSTANTS
  COMMANDS <- Commands
  FREE_WORDS = 7
  N_INFO = 256
  IO_ERRORS = TRUE
  GEOMETRIES <- Disks
  MAX_KEYS = 1
  BSS <- Bss
  N_PROCS = 1
  PID_FIRST_USER = 2
  PID_LIMIT = 6
  TIME_MOD = 3
  QUANT_STD = 2
  BUF_SIZE = 1
  C_BUFSIZE = 2
SPECIFICATION PowerUpSpec
INVARIANTS LoadedAsBuilt NothingElseLoaded KernelFindsMachine StartsInInit
PROPERTIES BootEnds
\* A boot stops in the kernel or in a loop after a message.
CHECK_DEADLOCK FALSE
