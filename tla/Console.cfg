SPECIFICATION Spec
CONSTANTS
  NCPU = 2
  Proc = {p1, p2}
  Nobody = Nobody
  INPUT_BUF = 2
  WORD = 4
  Start = 3
  FCFS = TRUE
  Calls = {"read", "write", "kill", "cps"}
  Counts = {2}
  Keys = {"x", "newline", "eof", "kill", "backspace", "dump"}
  MaxKeys = 3
  MaxCalls = 2
  MaxTicks = 1
INVARIANTS InputKept NoReaderForgotten InterruptsMatch DeadlockOnlyPrinting
CHECK_DEADLOCK FALSE
SYMMETRY Sym
