CONSTANTS
  NPROC = 3
  NCPU = 1
  MaxPid = 3
  TickMod = 1
  UserCalls = {"fork", "wait", "kill", "sleep"}
  SleepArgs = {1}
  KillPids = {2}
SPECIFICATION FairSpec
PROPERTIES
  RunnableRuns
  KilledExits
  OrphansReaped
