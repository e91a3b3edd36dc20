SPECIFICATION FairSpec
CONSTANTS
  N = 3
  MaxTasks = 4
  Capacity = 2
  Programs <- SomePrograms
  MaxParts = 2
INVARIANTS TaskDataExact SchedulingConstraint
PROPERTIES WaitsSound RegionEnds
