SPECIFICATION Spec
CONSTANTS
  Calls <- MCCalls
  NoCall = 0
  MaxOpens = 2
  MaxVersion = 2
  MaxVisits = 1
INVARIANT SilentWhenFailed
CHECK_DEADLOCK FALSE
