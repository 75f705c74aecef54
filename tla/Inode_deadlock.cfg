SPECIFICATION Spec
CONSTANTS
  Proc = {p1, p2}
  NoProc = NoProc
  NINUM = 4
  NINODE = 3
  NFILE = 1
  NOFILE = 1
  Names = {"a", "d"}
  Paths <- MCPaths
  Targets <- MCTargets
  Calls = {"open", "openw", "openc", "link", "unlink", "mkdir", "mknod", "chdir"}
  MaxCalls = 2
SYMMETRY Sym
INVARIANT NoCircularWait
CHECK_DEADLOCK FALSE
