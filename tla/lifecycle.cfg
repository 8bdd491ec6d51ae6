\* Four PCBs, up to four children of anybody, every way a process can end.
CONSTANTS
  N_PROCS = 1
  PID_FIRST_USER = 2
  PID_LIMIT = 6
  TIME_MOD = 1
  QUANT_STD = 1
  BUF_SIZE = 1
  C_BUFSIZE = 2
  Calls = {"exit", "kill", "wait", "fork", "tick"}
  ExitStatuses = {0}
  ExecPrios = {0, 7}
  SleepTimes = {0}
  Sizes = {0}
  Chars = {65}
SPECIFICATION Spec
INVARIANTS Placement StackOwnership ProcessTree ChildrenFit WaitMissesNoExit
PROPERTIES ReapedByParent
\* A panicked system is stopped for good.
CHECK_DEADLOCK FALSE
