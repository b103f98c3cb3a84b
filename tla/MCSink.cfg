SPECIFICATION MCSpec
CONSTANTS
  NCores = 1
  MaxHopCnt = 1
  Instrs = {1}
  f1 = f1
  f2 = f2
  Flows = {f1, f2}
  Ids = {0, 1, 2}
  CheckBucket <- MCCheckBucket
  Latencies <- MCLatencies
  NumBins = 3
  NSteps = 3
  RoundedUp = {2}
  MaxArrivals = 4
INVARIANTS ReorderCountExact PercentilesCorrect
CHECK_DEADLOCK FALSE
