SPECIFICATION FairSpec
CONSTANTS
  Proc = {p1, p2}
  Block = {b1, b2, b3, b4}
  Behind = b1
  MAXOPBLOCKS = 2
  OpBlocks = 2
  LOGSIZE = 4
  LogBlocks = 5
  MaxOps = 2
INVARIANTS
  QuietMeansDurable
PROPERTIES
  ImplementsAtomicDisk
  OpAdmitted
CHECK_DEADLOCK FALSE
