SPECIFICATION Spec
CONSTANTS
  Nodes = {n1, n2}
  NoNode = NoNode
  NoSlot <- MCNoSlot
  NoMem = NoMem
  DockMem = DockMem
  NumGpuSlots = 2
  NumSmSlots = 1
  Policy = "Marking"
  TierFloor <- MCFloor
  TierCeiling <- MCFixed
  WarmAt = 10
  HotAt = 50
  UserTiers <- MCAllTiers
  MaxTokens = 2
  MaxMeta = 3
  MaxNow = 4
INVARIANTS
  TierChangeReloads
CHECK_DEADLOCK FALSE
SYMMETRY MCSymmetry
