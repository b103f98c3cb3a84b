SPECIFICATION MCFairSpec
CONSTANTS
  NPorts = 3
  MaxHopCnt = 3
  MayOffload = TRUE
  f1 = f1
  f2 = f2
  Flows = {f1, f2}
  Ids = {0, 1}
  Crc32 <- MCCrc32
  Toeplitz <- MCToeplitz
  TraceLen = 2
  TxTimes = {1}
PROPERTIES ReachesSink
CHECK_DEADLOCK FALSE
