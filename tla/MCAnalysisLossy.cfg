SPECIFICATION Spec
CONSTANTS
  p1 = p1
  p2 = p2
  Polls <- MCPolls
  Creator = creator
  WorkTimeout = 1
  RequestTimeout = 2
INVARIANT ReadyIsUsable
