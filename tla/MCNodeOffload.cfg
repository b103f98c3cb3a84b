SPECIFICATION MCFairSpec
CONSTANTS
  NCores = 1
  MaxHopCnt = 2
  f1 = f1
  f2 = f2
  Flows = {f1, f2}
  Ids = {0, 1, 2, 3}
  Instrs = {2, 4}
  EnableBalanceCores = TRUE
  EnableOffload = TRUE
  TriggerEnabled = TRUE
  Threshold = 1
  NoMsg = NoMsg
  HashtableSize = 1
  HashtableEntryTimeout = 2
  Toeplitz <- MCToeplitz
  HopOf <- MCHopOf
  CheckBucket <- MCCheckBucket
  UninitQueues = {255}
  TxTimes = {1, 2}
  TraceLen = 4
  TraceEnd = 4
INVARIANTS BufferConsistent LinkSerial
PROPERTIES ImplementsContract EveryPacketLeaves
CHECK_DEADLOCK FALSE
