SPECIFICATION Spec
CONSTANTS
  Calls <- MCCalls
  NoCall = 0
  MaxOpens = 3
  MaxVersion = 2
  MaxVisits = 2
CONSTRAINT Bounded
INVARIANTS TypeOK SilentWhenPaused
PROPERTY AnswersTools
CHECK_DEADLOCK FALSE
