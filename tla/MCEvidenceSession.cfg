CONSTANTS
  q1 = q1
  q2 = q2
  a = a
  b = b
  NoQuestion = NoQuestion
  NoText = NoText
  Prefix = Prefix
  Stop = Stop
  Questions <- MCQuestions
  Utterances <- MCUtterances
  Wordings <- MCWordings
  MaxTurns = 2
  MaxSessions = 2
  MaxVersion = 2
SYMMETRY MCSymmetry
SPECIFICATION Spec
INVARIANT TurnsOfNamedSession
CHECK_DEADLOCK FALSE
