SPECIFICATION Spec
CONSTANTS
  Nodes = {n1, n2, n3}
  NoNode = NoNode
  NoSlot <- MCNoSlot
  NoMem = NoMem
  DockMem = DockMem
  NumGpuSlots = 2
  NumSmSlots = 1
  Policy = "Marking"
  TierFloor <- MCFloor
  TierCeiling <- MCFixed
  WarmAt = 10
  HotAt = 50
  Second = {n3}
  LayerOf <- MCLayerOf
  NumLayers = 2
  ExpOps = {"e1"}
  SmOps = {"s1"}
  ComputeWorkers = {w1, w2}
  IoWorker = io
  NumDocks = 3
  UsePoolPlanning = TRUE
  IsLut = FALSE
  TopK = 2
  MaxRounds = 3
INVARIANTS
  TypeOK
  ResultsMatch
  TaskInOnePlace
  MainNeverBlocks
  DecodesOwnBytes
  PendingOpsExact
  DocksConsistent
PROPERTIES
  ImplementsCache
CHECK_DEADLOCK FALSE
SYMMETRY MCSymmetry
