SPECIFICATION Spec
CONSTANTS
  Threads = {1, 2, 3}
  Cases <- AllCases
  Alignment = 2
  MaxBlocks = 6
  Infinity = 1000
INVARIANTS RefsExact NothingLeft AsOnHost
CHECK_DEADLOCK FALSE
