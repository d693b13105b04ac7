SPECIFICATION Spec
CONSTANTS
  q1 = q1
  x1 = x1
  w1 = w1
  w2 = w2
  NoText = NoText
  QuestionIds <- MCQuestionIds
  Detected <- MCQuestionIds
  Texts <- MCTexts
  Workers <- MCWorkers
  ReviewTTL = 1
  ExpiresAt = 2
  MaxVersion = 4
  MaxTokens = 1
  MaxGeneration = 7
CONSTRAINT Bounded
INVARIANTS
  TypeOK
  ConfirmationsDurable
  NoLostUpdate
  AcceptedAgainstSeenVersion
PROPERTIES
  ImplementsAtomic
CHECK_DEADLOCK FALSE
