SPECIFICATION MCSpec
CONSTANTS
  NCores = 3
  MaxHopCnt = 2
  f1 = f1
  f2 = f2
  f3 = f3
  Flows = {f1, f3}
  Ids = {0}
  Instrs = {1}
  EnableBalanceCores = TRUE
  EnableOffload = TRUE
  HashtableSize = 2
  HashtableEntryTimeout = 2
  Toeplitz <- MCToeplitz
  UninitQueues = {255}
  MaxTime = 2
  MaxWire = 1
INVARIANTS UninitialisedNeverUsed
PROPERTIES DecisionRespectsLoad MigrateOnlyToRelief
CHECK_DEADLOCK FALSE
