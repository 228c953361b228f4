\* Two requests at once, two password changes, one failure.
SPECIFICATION Spec
CONSTANTS
  t1 = t1  t2 = t2  t3 = t3  w1 = w1  w2 = w2
  Tokens <- MCTokens
  Workers <- TwoWorkers
  MaxPassword = 2
  MaxFailures = 1
INVARIANTS OneTokenPerSession EndedUnlessSpared
SYMMETRY Symmetry
PROPERTY ImplementsRegistry
CHECK_DEADLOCK FALSE
