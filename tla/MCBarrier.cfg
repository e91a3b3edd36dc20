SPECIFICATION FairSpec
CONSTANTS
  N = 4
  F = 2
  A = 2
  Depth = 3
  Patterns <- MCPatterns
  Bodies <- MCBodies
  BodyLength = 2
  Sizes = {3, 4}
  Setters = {0}
  MaxRegions = 3
INVARIANTS FlagsInStep ReductionExact IcvsPropagated
PROPERTIES AllReaped ImplementsTeamBarrier
