SPECIFICATION MCSpec
CONSTANTS
  NCores = 2
  MaxHopCnt = 1
  f1 = f1
  f2 = f2
  f3 = f3
  Flows = {f1, f2, f3}
  Ids = {0}
  Instrs = {1, 2}
  EnableBalanceCores = FALSE
  EnableOffload = FALSE
  TriggerEnabled = FALSE
  Threshold = 0
  NoMsg = NoMsg
  HashtableSize = 3
  HashtableEntryTimeout = 2
  Toeplitz <- MCToeplitz
  UninitQueues = {255}
  TxTimes = {1}
  ReassignmentInterval = 2
  MaxHeld = 3
  TraceEnd = 3
  MaxTime = 4
INVARIANTS TablesAgree CountersBalance LeftBehindByMove LeftoversCounted
PROPERTIES OneMovePerInterval
CHECK_DEADLOCK FALSE
