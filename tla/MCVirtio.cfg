CONSTANTS
  Procs = {p1, p2, p3}
  Blocks = {k1, k2, k3}
  NoBlock = NoBlock
  NoBuf = NoBuf
  NoTransfer = NoTransfer
  NUM = 7
  U16 = 14
SYMMETRY Symmetry
VIEW View
SPECIFICATION Spec
INVARIANTS DescsAccounted SleepersJustified
PROPERTIES DiskIsAtomic
