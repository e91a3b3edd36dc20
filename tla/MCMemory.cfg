SPECIFICATION Spec
CONSTANTS
  Header = 2
  SizeQ = 1
  PoolSize = 14
  ListLimit = 2
  BinSizes <- MCBinSizes
  FastSizes <- MCFastSizes
  Scenarios <- MCScenarios
CHECK_DEADLOCK FALSE
INVARIANT MemoryExact
