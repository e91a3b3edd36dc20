SPECIFICATION MCSpec
CONSTANTS
  SysMax = 4
  FirstCapacity = 2
  MaxNth = 4
  Configurations <- MCConfigurations
  MaxActiveLevels = 2
  MaxSerialized = 1
  HierScenarios <- MCHierScenarios
  MaxLeaves = 2
  MinBranch = 2
INVARIANTS Accounted TreeSound
PROPERTY RegionsKept
CHECK_DEADLOCK FALSE
