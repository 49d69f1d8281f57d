CONSTANTS
  w1 = w1
  w2 = w2
  s1 = s1
  s2 = s2
  Writers = {w1, w2}
  Free = Free
  Out = {"x", "y"}
  UART_TX_BUF_SIZE = 1
  TxUint = 2
  FIFO = 3
  RxMax = 1
  EchoMax = 1
  Sleepers = {s1, s2}
  Nobody = Nobody
  TickUint = 3
  MaxSleep = 1
  Lag = 1
SPECIFICATION Spec
PROPERTIES OutputDrains SleepEnds
