SPECIFICATION FairDepSpec
CONSTANTS
  DepPrograms <- MCPrograms
  DepThreads = {1, 2, 3}
  Creator = 1
INVARIANTS QueuedOnce ReferencesExact
PROPERTIES ImplementsOrder AllRun
CHECK_DEADLOCK FALSE
