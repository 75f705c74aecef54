CONSTANTS
  NPROC = 3
  NCPU = 2
  MaxPid = 3
  TickMod = 2
  UserCalls = {"fork", "wait", "exit", "kill", "sleep"}
  SleepArgs = {1}
  KillPids = {2}
SPECIFICATION Spec
INVARIANTS
  SwitchProtocol
  ParentAlive
  NoLostWait
  NoLostTick
  EmbryoOwned
PROPERTY ReapedOffCPU
