SPECIFICATION MCSpec
CONSTANTS
  NCores = 2
  MaxHopCnt = 2
  f1 = f1
  f2 = f2
  Flows = {f1, f2}
  Ids = {0, 1, 2, 3}
  Instrs = {1, 4}
  EnableBalanceCores = TRUE
  EnableOffload = FALSE
  TriggerEnabled = TRUE
  Threshold = 1
  NoMsg = NoMsg
  HashtableSize = 1
  HashtableEntryTimeout = 5
  Toeplitz <- MCToeplitz
  HopOf <- MCHopOf
  CheckBucket <- MCCheckBucket
  UninitQueues = {255}
  TxTimes = {1}
  TraceLen = 4
  TraceEnd = 7
INVARIANTS ViewAgrees BurstsStayTogether
PROPERTIES ProcSpec OffloadSpec ReorderedOnlyIfLate
CHECK_DEADLOCK FALSE
