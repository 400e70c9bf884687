CONSTANTS
  p1 = p1
  p2 = p2
  Procs <- MCProcs
  LowSize = 2
  UmbActive = TRUE
  CoverSize = 1
  UmbSize = 2
  Requests = {1, 2}
  Strategies <- MCStrategies
SPECIFICATION Spec
SYMMETRY MCSymmetry
VIEW MCView
INVARIANTS
  ChainsTile
  HeldIsOwned
  NothingLeaks
  FailureIsFinal
