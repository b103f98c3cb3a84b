SPECIFICATION MCSpec
CONSTANTS
  NCores = 3
  MaxHopCnt = 1
  f1 = f1
  f2 = f2
  f3 = f3
  Flows = {f1, f2}
  Ids = {0}
  Instrs = {2}
  EnableBalanceCores = FALSE
  EnableOffload = FALSE
  TriggerEnabled = FALSE
  Threshold = 0
  NoMsg = NoMsg
  HashtableSize = 4
  HashtableEntryTimeout = 2
  Toeplitz <- MCToeplitz
  UninitQueues = {255}
  TxTimes = {1}
  ReassignmentInterval = 2
  MaxHeld = 3
  TraceEnd = 5
  MaxTime = 5
PROPERTY HeaviestEntryMoves
CHECK_DEADLOCK FALSE
