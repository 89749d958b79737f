SPECIFICATION FairSpec
CONSTANTS
  MaxJobs = 3
  MaxKeys = 2
PROPERTY IdleMeansQuiet
\* When NVDA has gone and the RPC thread is down nothing is left to do.
CHECK_DEADLOCK FALSE
