\* Sleepers with different and equal wakeup times, the clock wrapping, two-tick quanta; the clock keeps running.
CONSTANTS
  N_PROCS = 0
  PID_FIRST_USER = 2
  PID_LIMIT = 5
  TIME_MOD = 4
  QUANT_STD = 2
  BUF_SIZE = 1
  C_BUFSIZE = 2
  Calls = {"sleep", "tick", "fork", "exec", "exit", "gettime"}
  ExitStatuses = {0}
  ExecPrios = {0, 7}
  SleepTimes = {0, 1, 3}
  Sizes = {0}
  Chars = {65}
SPECIFICATION FairSpec
PROPERTIES TickWakesDue AwakenedFirst SleepersWake SystemReadyRuns
\* A panicked system is stopped for good.
CHECK_DEADLOCK FALSE
