CONSTANTS
  u1 = u1
  u2 = u2
  Slots = {1, 2}
  InitSlot = 1
  NPAGES = 18
  PGSIZE = 2
  NPTE = 3
  USERSTACK = 1
  WORD = 1
  Programs <- TwoPrograms
  MAXARG = 1
  ARGLEN = 1
  SbrkArgs <- SbrkSizes
  MaxPipes = 1
  MaxCalls = 7
  Users = {u1, u2}
  NFILE = 3
  NOFILE = 2
  Inodes = {1, 2}
  FirstInode = 1
  Image <- ThreeBytes
  NBLOCKS = 7
  BSIZE = 2
  NDIRECT = 1
  NINDIRECT = 4
  BPB = 1
  MAXOPBLOCKS = 10
  Values = {1, 2}
  Sizes = {1, 7}
  MaxFileCalls = 4
  NBYTES = {1, 3}
  HEADER = 2
  NALLOC = 4
  MaxUnits = 8
  Inputs <- ShortLines
  RunInputs <- PipeLines
  MAXARGS = 3
  Pids = {1, 2, 3, 4, 5, 6}
  NFD = 5
  MaxFaults = 1
  Cases <- PatternsAndTexts
  BUFSIZE = 5
SPECIFICATION Spec
INVARIANTS MemPagesAccounted MemCopyExact FileFilesExact TransactionFits HeapExact ParserExact PipelineCompletes GrepExact
SYMMETRY Symm
CHECK_DEADLOCK FALSE
