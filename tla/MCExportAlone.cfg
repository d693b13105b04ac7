SPECIFICATION FairSpec
CONSTANTS
  w1 = w1
  w2 = w2
  MaxVersion = 2
  Workers <- MCOneWorker
  Generations <- MCGenerations
  WorkTimeout = 1
  RequestTimeout = 2
  Attempts = 2
INVARIANT CompleteIsStored
PROPERTY ExportCompletes
