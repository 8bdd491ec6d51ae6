\* Two processes that call, spawn, exit and are interrupted at every instruction.
CONSTANTS
  Process = {1, 2}
  MAX_CALLS = 1
  FORKS_ANYWHERE = FALSE
  FAULTS = {2}
  LINES = {0, 4, 12}
SPECIFICATION Spec
INVARIANTS OwnFrame NoLineLockedOut
PROPERTIES OwnProcessors
\* An unexpected interrupt stops the system for good.
CHECK_DEADLOCK FALSE
