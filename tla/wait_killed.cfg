\* A killed child is not collected by wait().
CONSTANTS
  N_PROCS = 0
  PID_FIRST_USER = 2
  PID_LIMIT = 4
  TIME_MOD = 1
  QUANT_STD = 1
  BUF_SIZE = 1
  C_BUFSIZE = 2
  Calls = {"fork", "kill", "wait"}
  ExitStatuses = {0}
  ExecPrios = {0, 7}
  SleepTimes = {0}
  Sizes = {0}
  Chars = {65}
SPECIFICATION Spec
PROPERTY WaitBlocksOnlyIfNoneTerminated
CHECK_DEADLOCK FALSE
