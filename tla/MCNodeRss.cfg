SPECIFICATION MCSpec
CONSTANTS
  NCores = 2
  MaxHopCnt = 2
  f1 = f1
  f2 = f2
  Flows = {f1, f2}
  Ids = {0, 1, 2, 3}
  Instrs = {1, 3}
  EnableBalanceCores = FALSE
  EnableOffload = FALSE
  TriggerEnabled = FALSE
  Threshold = 1
  NoMsg = NoMsg
  HashtableSize = 3
  HashtableEntryTimeout = 2
  Toeplitz <- MCToeplitz
  HopOf <- MCHopOf
  CheckBucket <- MCCheckBucket
  UninitQueues = {255}
  TxTimes = {1}
  TraceLen = 4
  TraceEnd = 4
PROPERTIES ReorderedOnlyIfLate
CHECK_DEADLOCK FALSE
