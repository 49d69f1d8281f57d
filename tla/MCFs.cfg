CONSTANTS
  Trees <- MCTrees
  MaxCalls = 4
  p1 = p1
  p2 = p2
  Procs = {p1, p2}
  NoProc = NoProc
  NINODES = 5
  NINODE = 3
  FORMATTED = 2
  Names <- MCNames
  Calls <- MCCalls
SPECIFICATION Spec
INVARIANTS RefsExact PanicsJustified DiskConsistent NoLockCycle
SYMMETRY Symm
