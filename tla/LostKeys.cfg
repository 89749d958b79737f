SPECIFICATION Spec
CONSTANTS
  MaxJobs = 3
  MaxKeys = 2
INVARIANT SentIsComplete
\* When NVDA has gone and the RPC thread is down nothing is left to do.
CHECK_DEADLOCK FALSE
