SPECIFICATION MCFairSpec
CONSTANTS
  k1 = k1
  k2 = k2
  k3 = k3
  Keys = {k1, k2, k3}
  ActionSeq <- MCActionSeq
  Unit = 10
  MaxErr = 1
  NRuns = 2
  PacketKinds <- MCPacketKinds
  MaxPackets = 4
INVARIANTS OvershootBounded ExportsMeetMargin
PROPERTIES FinishesIfFeasible
CHECK_DEADLOCK FALSE
