CONSTANT
  MaxProcesses = 4
SPECIFICATION Spec
INVARIANT TeardownIsComplete
\* The session ends, and every NVDA with it.
CHECK_DEADLOCK FALSE
