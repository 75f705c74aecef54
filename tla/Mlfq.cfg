SPECIFICATION FairSpec
CONSTANTS
  NPROC = 3
  NCPU = 1
  NQUEUE = 2
  QSIZE = 3
  TicksToDur = 1
  AgeLimit = 1
  MaxPid = 3
  MaxTicks = 1
PROPERTY RunnableRuns
CHECK_DEADLOCK FALSE
