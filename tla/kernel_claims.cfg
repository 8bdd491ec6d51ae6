\* Claims that the code does not keep: TLC reports the first that fails.
CONSTANTS
  N_PROCS = 1
  PID_FIRST_USER = 2
  PID_LIMIT = 5
  TIME_MOD = 1
  QUANT_STD = 1
  BUF_SIZE = 1
  C_BUFSIZE = 2
  Calls = {"exit", "fork", "kill", "wait", "tick", "key", "rx", "read_console"}
  ExitStatuses = {0}
  ExecPrios = {0, 7}
  SleepTimes = {0}
  Sizes = {1}
  Chars = {65}
SPECIFICATION Spec
INVARIANTS WaitNeedsAChild NobodyWaitsForAnExited KillFindsOnlyProcesses BlockedReaderMeansNoInput
PROPERTIES ConsoleNeverBlocks
\* A panicked system is stopped for good.
CHECK_DEADLOCK FALSE
