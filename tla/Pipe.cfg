SPECIFICATION FairSpec
CONSTANTS
  Reader = {r1, r2}
  Writer = {w1, w2}
  Byte = {0, 1, 2, 3}
  PIPESIZE = 2
  CounterMod = 4
  Buffers <- MCBuffers
  ReadSizes = {2}
  MaxWrites = 1
  Killable = {w1, r1}
INVARIANTS
  NoLostWakeup
  ClosedUnused
PROPERTIES
  ImplementsQueue
  CallsReturn
CHECK_DEADLOCK FALSE
