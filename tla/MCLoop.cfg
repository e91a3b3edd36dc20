SPECIFICATION FairLoopSpec
CONSTANTS
  Regions <- MCRegions
  NumBuffers = 2
  Span = 64
  IndexSpan = 64
  KmpStatic = "static_balanced"
  KmpGuided = "guided_iterative"
  KmpAuto = "guided_analytical"
  RSched <- MCRSched
  StaticLoops <- MCStaticLoops
  Size = 64
  Signed = TRUE
  TaskloopMinTasks = 2
  StaticKinds = {"greedy", "balanced"}
  Nests <- MCNests
  Cancellations <- MCCancellations
  MaxVisits = 2
INVARIANTS IterationsOnce SharedThere PartsPartition CancelSound
PROPERTIES OrderKept AllEnd
CHECK_DEADLOCK FALSE
