SPECIFICATION Spec
CONSTANTS
  NPROC = 3
  NPAGE = 16
  PGSIZE = 2
  NPTE = 2
  NPDE = 3
  Programs <- MCPrograms
  Deltas <- MCDeltas
  MaxCalls = 4
INVARIANTS PagesExact SizeMapped FailureUndone
CHECK_DEADLOCK FALSE
