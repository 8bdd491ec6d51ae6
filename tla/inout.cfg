\* Readers, serial characters and keys, with the calls that only return a value.
CONSTANTS
  N_PROCS = 0
  PID_FIRST_USER = 2
  PID_LIMIT = 4
  TIME_MOD = 1
  QUANT_STD = 1
  BUF_SIZE = 2
  C_BUFSIZE = 3
  Calls = {"read_console", "read_sio", "read_bad", "write", "rx", "key", "fork", "kill", "bogus", "tick", "getpid", "getppid", "getstatus", "wait", "exit"}
  ExitStatuses = {0}
  ExecPrios = {0, 7}
  SleepTimes = {0}
  Sizes = {0, 1, 2, 3}
  Chars = {65}
SPECIFICATION Spec
INVARIANTS TypeOK QnodeBalance OnlyUserPanics
\* A panicked system is stopped for good.
CHECK_DEADLOCK FALSE
