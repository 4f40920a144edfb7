SPECIFICATION FairSpec
CONSTANTS
  Nodes = {n1, n2}
  NoNode = NoNode
  NoSlot <- MCNoSlot
  NoMem = NoMem
  DockMem = DockMem
  NumGpuSlots = 1
  NumSmSlots = 1
  Policy = "Marking"
  TierFloor <- MCFloor
  TierCeiling <- MCFixed
  WarmAt = 10
  HotAt = 50
  Second = {}
  LayerOf <- MCLayerOf
  NumLayers = 1
  ExpOps = {"e1"}
  SmOps = {"s1"}
  ComputeWorkers = {w1}
  IoWorker = io
  NumDocks = 2
  UsePoolPlanning = TRUE
  IsLut = FALSE
  TopK = 1
  MaxRounds = 1
PROPERTIES
  WaitCollects
CHECK_DEADLOCK FALSE
