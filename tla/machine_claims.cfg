\* Claims that the code does not keep: TLC reports the first that fails.
CONSTANTS
  Process = {1, 2}
  MAX_CALLS = 1
  FORKS_ANYWHERE = TRUE
  FAULTS = {2}
  LINES = {0, 4, 12}
SPECIFICATION Spec
INVARIANTS ForkedFrame
\* An unexpected interrupt stops the system for good.
CHECK_DEADLOCK FALSE
