SPECIFICATION FairSpec
CONSTANTS
  Proc = {p1, p2}
  NoProc = NoProc
  NBLOCK = 3
  LogBlock = {1}
  Indirect = {2}
  NBUF = 2
  Faults = {FALSE}
  MaxWrites = 1
INVARIANTS
  RefcntExact
  CleanIsStored
  QueueActive
PROPERTIES
  ImplementsStore
  IderwReturns
  NoStandstill
CHECK_DEADLOCK FALSE
