SPECIFICATION PartsSpec
CONSTANTS
  NumTensors = 5
  Sparse = {1, 3, 4, 5}
  FileEnds = {3, 5}
  MaxBatch = 2
  MaxCrashes = 2
  N = 16
  NumChunks = 3
  WarpSize = 4
  Weights <- MCWeights
  Tiers = {0, 1, 2}
  MaxSets = 1
  Workers = {w1, w2}
  Ops = {a, p}
  Demanded = {a}
  Leaves = {"a", "b", "c"}
  TensorsOf <- MCTensorsOf
  LayerOf <- MCLayerOf
  WeightsAt <- MCWeightsAt
  Heap = {"p1", "p2", "p3", "p4", "p5"}
  MaxPasses = 3
  NumTokens = 2
  NumRouted = 4
  TopK = 2
  NumGroups = 2
  TopGroups = 1
  Scores <- MCScores
  Factors = {1}
  Capacity = 1
  NumLayers = 2
  NumExperts = 2
  NumSlots = 2
  HotAt = 2
  WarmAt = 1
  MaxUsed = 2
  MaxCalls = 4
  ExpertKeys = {"e1", "e2", "e3", "e4"}
  MaxEntries = 2
  Hot = 3
  Warm = 2
  Blobs = {"b"}
  MaxSteps = 4
  NumSparse = 2
  RoutedExperts = {1, 2}
  K = 1
  Sizes = {1, 2}
  Addresses = {1, 2}
  MaxApplies = 3
  MoeLayers = {"l1", "l2"}
  MaxDepth = 2
  RankedExperts = 4
  PlannedLayers = 4
  PerToken = 2
  BatchSize = 2
  Traces <- MCTraces
  WeightLists <- MCWeightLists
  Unit = 2
  Steps = 10
  Memories = {25, 47, 60, 71, 84, 100}
  SmSlot = 3
  FileChunks = 2
  TensorsPerExpert = 3
  ComputePool = 4
  Decompress = 2
  SmIo = 3
  RatioNum = 1
  RatioDen = 3
  Running = {"llama"}
INVARIANTS
  MultipliesOwnWeights
CHECK_DEADLOCK FALSE
