SPECIFICATION MCSpec
CONSTANTS
  NPorts = 3
  MaxHopCnt = 3
  MayOffload = TRUE
  f1 = f1
  f2 = f2
  Flows = {f1, f2}
  Ids = {0, 1}
  Crc32 <- MCCrc32
  Toeplitz <- MCToeplitz
  TraceLen = 3
  TxTimes = {1}
INVARIANTS HopAsserts RingPosition ExactlyOnce PortSerial
CHECK_DEADLOCK FALSE
