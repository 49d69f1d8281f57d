CONSTANTS
  NPROC = 2
  CPUs = {c0}
  NoCpu = NoCpu
SPECIFICATION Spec
PROPERTIES BornAlive
