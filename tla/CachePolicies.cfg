SPECIFICATION MCSpec
CONSTANTS
  Nodes = {n1, n2, n3, m1, m2}
  Ranked = {n1, n2, n3}
  Tuned = {m1}
  NoNode = NoNode
  NoSlot <- MCNoSlot
  NoMem = NoMem
  DockMem = DockMem
  NumGpuSlots = 2
  NumSmSlots = 1
  Policy = "Marking"
  TierFloor <- MCFloor
  TierCeiling <- MCCeiling
  WarmAt = 10
  HotAt = 50
  UserTiers <- MCUserTiers
  MaxTokens = 2
  MaxMeta = 3
  MaxNow = 2
INVARIANTS
  TypeOK
  PoolsConsistent
  GpuSlotsAgree
  SmSlotsAgree
  NoSmOnGpu
  RunsOnOwnWeights
PROPERTIES
  AbortsOnly
  PoolsKeepPromise
  EvictsLowest
CHECK_DEADLOCK FALSE
SYMMETRY MCSymmetry
