SPECIFICATION DepSpec
CONSTANTS
  DepPrograms <- MCPrograms
  DepThreads = {1, 2, 3}
  Creator = 1
INVARIANT FrameThere
CHECK_DEADLOCK FALSE
