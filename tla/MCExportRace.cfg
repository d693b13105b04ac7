SPECIFICATION Spec
CONSTANTS
  w1 = w1
  w2 = w2
  MaxVersion = 1
  Workers <- MCTwoWorkers
  Generations <- MCGenerations
  WorkTimeout = 1
  RequestTimeout = 2
  Attempts = 3
SYMMETRY Symmetry
INVARIANT CompleteIsStored
