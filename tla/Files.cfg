SPECIFICATION Spec
CONSTANTS
  Proc = {p1, p2}
  NFILE = 2
  NOFILE = 2
  BSIZE = 2
  NDIRECT = 1
  NINUM = 3
  NMETA = 1
  FSSIZE = 9
  MAXOPBLOCKS = 6
  HostFiles <- MCHostFiles
  Buffers <- MCBuffers
  Sizes = {1, 3}
  MaxCalls = 5
SYMMETRY Sym
INVARIANTS BlocksExact FileRefExact
PROPERTY ImplementsFiles
CHECK_DEADLOCK FALSE
