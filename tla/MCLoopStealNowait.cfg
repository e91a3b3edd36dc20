SPECIFICATION LoopSpec
CONSTANTS
  Regions <- NowaitStealing
  NumBuffers = 2
  Span = 64
  IndexSpan = 64
  KmpStatic = "static_balanced"
  KmpGuided = "guided_iterative"
  KmpAuto = "guided_analytical"
  RSched <- MCRSched
  StaticLoops = {}
  Size = 64
  Signed = TRUE
  TaskloopMinTasks = 2
  StaticKinds = {"greedy", "balanced"}
  Nests = {}
  Cancellations = {}
  MaxVisits = 2
INVARIANT LocksThere
CHECK_DEADLOCK FALSE
