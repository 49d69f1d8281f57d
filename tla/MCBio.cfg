CONSTANTS
  Users = {u1, u2}
  Blocks = {k1, k2, k3, k4}
  Values = {v0, v1}
  NoBlock = NoBlock
  NoProc = NoProc
  NoValue = NoValue
  NBUF = 3
  MAXPIN = 2
SYMMETRY Symmetry
SPECIFICATION Spec
INVARIANTS RefcntExact PanicsOnlyWhenFull
PROPERTIES CacheIsBlockStore
