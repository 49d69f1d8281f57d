CONSTANTS
  CPUs = {c0, c1}
  NLOCK = 2
  NoCpu = NoCpu
  h1 = h1
  h2 = h2
  t1 = t1
  t2 = t2
  Harts = {h1, h2}
  Threads = {t1, t2}
  Sched = Sched
  PCs = 2
SYMMETRY CpuSymmetry
SPECIFICATION SpecCpu
INVARIANTS MutualExclusion NoSelfDeadlock InterruptsRestored VectorMatchesMode
PROPERTIES ResumesWhereInterrupted
