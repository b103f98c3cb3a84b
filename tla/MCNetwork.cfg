SPECIFICATION MCSpec
CONSTANTS
  NCores = 1
  MaxHopCnt = 2
  g1 = g1
  g2 = g2
  k1 = k1
  k2 = k2
  Generators = {g1, g2}
  Keys = {k1, k2}
  Flows <- MCFlows
  Ids = {0, 1, 2, 3}
  Instrs = {1, 2, 6, 7}
  EnableBalanceCores = TRUE
  EnableOffload = TRUE
  TriggerEnabled = TRUE
  Threshold = 1
  NoMsg = NoMsg
  NoPacket = NoPacket
  HashtableSize = 2
  HashtableEntryTimeout = 6
  Toeplitz <- MCToeplitz
  Crc32 <- MCCrc32
  PortKeys = {k1}
  CheckBucket <- MCCheckBucket
  UninitQueues = {0}
  TxTimes = {1}
  NodeTx = 1
  GenTx = 2
  Second = 8
INVARIANTS LatencyAccounted AbortOnlyByTrace InStep DeliveriesExpected
PROPERTIES ReorderedOnlyIfSlow
CHECK_DEADLOCK FALSE
