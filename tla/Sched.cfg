SPECIFICATION FairSpec
CONSTANTS
  NPROC = 3
  NCPU = 2
  Policies = {"PBS", "FCFS"}
  Ctimes = {0, 1}
  Priorities = {10, 90}
  MaxChanges = 2
PROPERTIES
  BestRuns
  EqualShare
  ScanEnds
CHECK_DEADLOCK FALSE
