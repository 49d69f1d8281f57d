CONSTANTS
  LogProcs = {p1, p2, p3}
  Blocks = {b1, b2, b3}
  Values = {v0}
  NoBuf = NoBuf
  LOGSIZE = 4
  MAXOPBLOCKS = 2
  NLOG = 4
  OpBlocks = 1
SPECIFICATION LogFairSpec
INVARIANTS ReservationSuffices
PROPERTIES SleeperWoken
