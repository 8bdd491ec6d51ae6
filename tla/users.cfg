\* The programs of user.c, in small selections; two PCBs more than init, idle and one program.
CONSTANTS
  N_PROCS = 2
  PID_FIRST_USER = 2
  PID_LIMIT = 20
  TIME_MOD = 4
  QUANT_STD = 1
  BUF_SIZE = 1
  C_BUFSIZE = 2
  Calls = {"exit", "bogus", "kill", "wait", "fork", "exec", "sleep", "read_sio", "write", "getpid", "getppid", "gettime", "tick", "rx"}
  ExitStatuses = {0}
  ExecPrios = {1, 2, 3}
  SleepTimes = {0, 1, 2, 3}
  Sizes = {1}
  Chars = {65}
  MANY = 2
  TICK = 10
  SELECTIONS <- Selections
SPECIFICATION UserFairSpec
INVARIANTS OnlyExpectedOutput
PROPERTIES Reaped ProgramsFinish
