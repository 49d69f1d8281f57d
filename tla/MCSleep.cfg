CONSTANTS
  NPROC = 3
  CPUs = {c0, c1}
  NoCpu = NoCpu
  r1 = r1
  r2 = r2
  w1 = w1
  w2 = w2
  s1 = s1
  s2 = s2
  Readers = {r1, r2}
  NoReader = NoReader
  Chars = {"c"}
  NL = "nl"
  EOF = "eof"
  INPUT_BUF_SIZE = 3
  ConsUint = 6
  MaxRead = 2
  Writers = {w1, w2}
  Free = Free
  Out = {"x", "y"}
  UART_TX_BUF_SIZE = 2
  TxUint = 4
  FIFO = 3
  RxMax = 1
  EchoMax = 1
  Sleepers = {s1, s2}
  Nobody = Nobody
  TickUint = 5
  MaxSleep = 2
  Lag = 2
  LogProcs = {p1, p2}
  Blocks = {b1, b2}
  Values = {v0, v1}
  NoBuf = NoBuf
  LOGSIZE = 6
  MAXOPBLOCKS = 3
  NLOG = 6
  OpBlocks = 2
SYMMETRY CpuSymmetry
SPECIFICATION SpecSleep
INVARIANTS StackInUse WaitNotMissed ReaderAwake FifoNeverOverrun SleepsExactly QuietIsDurable
PROPERTIES ConsoleIsLineDiscipline OutputIsQueue TransactionalDisk
