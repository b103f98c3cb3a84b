SPECIFICATION MCFairSpec
CONSTANTS
  NCores = 2
  MaxHopCnt = 1
  Flows = {f1}
  Ids = {0}
  Instrs = {1, 2}
  TraceEnd = 2
  TriggerEnabled = TRUE
  Threshold = 1
  NoMsg = NoMsg
  MaxPackets = 4
INVARIANTS CoreConsistent BusyCountExact OverloadMeansBacklog OneAnnouncementPerQueue
PROPERTIES ImplementsFifoServers OverloadClears Drains
CHECK_DEADLOCK FALSE
