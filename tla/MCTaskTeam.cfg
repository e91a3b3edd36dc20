SPECIFICATION FairSpec
CONSTANTS
  N = 3
  Sizes = {2, 3}
  Bodies = {0, 1}
  HotTeamsMode = 0
  MaxRegions = 2
  MaxTasks = 2
INVARIANTS TasksDone CountExact SameTaskTeam
PROPERTIES TasksEnd
