CONSTANTS
  Procs = {p1, p2, p3}
  NoProc = NoProc
  Bytes = {x, y}
  PIPESIZE = 2
  UINT = 4
  MAXN = 2
SYMMETRY Symmetry
SPECIFICATION Spec
INVARIANTS NoUseAfterFree NobodyStranded
PROPERTIES PipeIsQueue
CHECK_DEADLOCK FALSE
