CONSTANTS
  NPROC = 3
  CPUs = {c0}
  NoCpu = NoCpu
SPECIFICATION FairSpec
PROPERTIES ZombieReaped
